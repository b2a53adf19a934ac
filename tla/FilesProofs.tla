----------------------------- MODULE FilesProofs -----------------------------
(***************************************************************************)
(* Theorems about the two modules whose tools write one thing after the    *)
(* other to files, while the process may die in between: Workspace, for    *)
(* any set of processes and files, any batch of edits and any bounds, and  *)
(* TodoList, for any lists, updates, limits and bounds.                    *)
(***************************************************************************)
EXTENDS Workspace, TodoList, TLAPS, WellFoundedInduction, FiniteSetTheorems, SequenceTheorems

Waiting == {"idle", "refused", "creating", "recovering"}
Late == {"undoing late", "releasing late"}
Places == Waiting \cup Holding \cup Late \cup {"crashed", "done"}
Leases == [owner : Processes \cup {None, Dead}, complete : BOOLEAN]

-----------------------------------------------------------------------------
(* The lease                                                               *)

\* An error after which p may keep the lease.
Excused(p, e) == \E site \in {"lease", "journal", "start"} : <<p, site>> \in e

\* What makes the two properties of the lease inductive: the record names who holds it,
\* a record that is not complete is one its owner is still writing, could not write, or
\* died writing, and nobody holds the lease without being named, unless it was stolen.
LeaseInv ==
    /\ at \in [Processes -> Places]
    /\ lease \in Leases
    /\ lease.owner = None => lease = NoLease
    /\ LeaseIsReleased
    /\ lease.owner \in Processes /\ ~lease.complete => at[lease.owner] \in {"opened", "refused", "crashed"}
    /\ ~stolen => \A p \in Processes : at[p] \in Holding => lease.owner = p

\* NoLease and the leases that acquire writes.
LEMMA LeaseRecords ==
    /\ NoLease \in Leases /\ NoLease.owner = None /\ ~NoLease.complete
    /\ None \notin Processes /\ Dead \notin Processes /\ None # Dead
    /\ \A p \in Processes, complete \in BOOLEAN :
          /\ Lease(p, complete) \in Leases /\ Lease(p, complete).owner = p
          /\ Lease(p, complete).complete = complete
BY WorkspaceAssumption DEF NoLease, Leases, Lease, None, Dead

\* Errors are not forgotten, and those of this step are known.
LEMMA ErrorsStay ==
    ASSUME NEW p, NEW sites, Fails(p, sites)
    PROVE  errors \subseteq errors' /\ \A site \in sites : <<p, site>> \in errors'
BY DEF Fails

\* A call that goes on without touching the lease: it may not begin to hold what it does
\* not, and while the record names it, it may not leave what the lease protects without
\* an excuse.
LEMMA CallGoesOn ==
    ASSUME LeaseInv, NEW p \in Processes, NEW place \in Places,
           UNCHANGED <<lease, stolen>>, errors \subseteq errors', at' = [at EXCEPT ![p] = place],
           place \in Holding => at[p] \in Holding,
           lease.owner = p => /\ \/ place \in Holding \cup {"crashed"}
                                 \/ at[p] \notin Holding \cup {"crashed"}
                                 \/ Excused(p, errors')
                              /\ lease.complete \/ place \in {"opened", "refused", "crashed"}
    PROVE  LeaseInv'
<1>1. at' \in [Processes -> Places] /\ at'[p] = place /\ \A q \in Processes \ {p} : at'[q] = at[q]
  BY DEF LeaseInv
<1>2. LeaseIsReleased'
  <2> SUFFICES ASSUME lease.owner \in Processes, at'[lease.owner] \notin Holding \cup {"crashed"}
               PROVE  Excused(lease.owner, errors')
    BY DEF LeaseIsReleased, Excused
  <2>1. CASE at[lease.owner] \notin Holding \cup {"crashed"}
    BY <2>1 DEF LeaseInv, LeaseIsReleased, Excused
  <2>2. CASE at[lease.owner] \in Holding \cup {"crashed"}
    <3>1. lease.owner = p
      BY <1>1, <2>2
    <3> QED
      BY <1>1, <2>2, <3>1
  <2> QED
    BY <2>1, <2>2
<1>3. lease.owner \in Processes /\ ~lease.complete => at'[lease.owner] \in {"opened", "refused", "crashed"}
  BY <1>1 DEF LeaseInv
<1>4. ~stolen => \A q \in Processes : at'[q] \in Holding => lease.owner = q
  BY <1>1 DEF LeaseInv
<1> QED
  BY <1>1, <1>2, <1>3, <1>4 DEF LeaseInv

\* A step that leaves the lease and the calls alone.
LEMMA CallsStay == ASSUME LeaseInv, UNCHANGED <<lease, stolen, at>>, errors \subseteq errors' PROVE LeaseInv'
BY DEF LeaseInv, LeaseIsReleased

\* A call that ends, with the lease given up or not.
LEMMA LeaseGivenUp ==
    ASSUME LeaseInv, NEW p \in Processes, at[p] \in Releasing, NEW place \in {"done", "undoing late"},
           at' = [at EXCEPT ![p] = place], stolen' = stolen, NEW sites, GivesUp(p, sites)
    PROVE  LeaseInv'
<1>t. at \in [Processes -> Places] /\ lease \in Leases /\ place \in Places /\ place \notin Holding
      /\ at[p] \notin {"opened", "refused", "crashed"}
  BY DEF LeaseInv, Places, Holding, Late, Releasing
<1>1. at' \in [Processes -> Places] /\ at'[p] = place /\ \A q \in Processes \ {p} : at'[q] = at[q]
  BY <1>t
<1>2. errors \subseteq errors' /\ \A site \in sites : <<p, site>> \in errors'
  BY ErrorsStay DEF GivesUp
<1>3. CASE lease.complete /\ "lease" \notin sites
  <2>1. lease' = NoLease /\ lease.owner = p
    BY <1>3 DEF GivesUp
  <2>2. ASSUME ~stolen, NEW q \in Processes, at'[q] \in Holding PROVE FALSE
    <3>1. q # p /\ at[q] \in Holding
      BY <1>t, <1>1, <2>2
    <3> QED
      BY <2>1, <2>2, <3>1 DEF LeaseInv
  <2> QED
    BY <1>1, <2>1, <2>2, LeaseRecords DEF LeaseInv, LeaseIsReleased
<1>4. CASE ~(lease.complete /\ "lease" \notin sites)
  <2>1. lease' = lease
    BY <1>4 DEF GivesUp
  <2>2. lease.owner = p => lease.complete /\ Excused(p, errors')
    BY <1>t, <1>2, <1>4 DEF LeaseInv, Excused
  <2> QED
    BY <1>t, <1>2, <2>1, <2>2, CallGoesOn
<1> QED
  BY <1>3, <1>4

\* acquire and release keep the record of the lease and the state of the calls in step.
LEMMA LeaseHeld == WorkspaceSpec => []LeaseInv
<1>1. WorkspaceInit => LeaseInv
  <2> SUFFICES ASSUME WorkspaceInit PROVE LeaseInv
    OBVIOUS
  <2>1. at = [p \in Processes |-> "idle"] /\ lease \in {NoLease, Lease(Dead, TRUE)}
    BY DEF WorkspaceInit
  <2>2. Lease(Dead, TRUE) \in Leases /\ Lease(Dead, TRUE).owner = Dead
    BY DEF Lease, Leases
  <2>3. lease \in Leases /\ lease.owner \notin Processes /\ (lease.owner = None => lease = NoLease)
    BY <2>1, <2>2, LeaseRecords
  <2> QED
    BY <2>1, <2>3 DEF LeaseInv, LeaseIsReleased, Waiting, Holding, Places
<1>2. LeaseInv /\ [WorkspaceNext]_workspaceVars => LeaseInv'
  <2> SUFFICES ASSUME LeaseInv, [WorkspaceNext]_workspaceVars PROVE LeaseInv'
    OBVIOUS
  <2>t. at \in [Processes -> Places] /\ lease \in Leases /\ (lease.owner = None => lease = NoLease)
    BY DEF LeaseInv
  <2>r. lease.owner \in Processes => lease.complete \/ at[lease.owner] \in {"opened", "refused", "crashed"}
    BY DEF LeaseInv
  <2>s. ~stolen => \A p \in Processes : at[p] \in Holding => lease.owner = p
    BY DEF LeaseInv
  <2>h. /\ {"idle", "refused", "creating", "recovering", "done", "crashed"} \cap Holding = {}
        /\ {"idle", "refused", "creating", "recovering", "done", "crashed"} \cup Holding \cup Late = Places
        /\ "opened" \in Holding
        /\ Releasing \cap {"opened", "refused", "crashed"} = {}
    BY DEF Holding, Late, Places, Waiting, Releasing
  <2>1. ASSUME NEW p \in Processes, ReadLease(p) \/ AcquireFails(p) PROVE LeaseInv'
    <3>1. UNCHANGED <<lease, stolen>> /\ errors \subseteq errors'
          /\ \/ /\ at[p] \in {"idle", "recovering", "creating"}
                /\ \E place \in {"creating", "refused", "recovering"} : at' = [at EXCEPT ![p] = place]
             \/ /\ at[p] = "opened" /\ at' = [at EXCEPT ![p] = "refused"] /\ Excused(p, errors')
      BY <2>1, ErrorsStay DEF ReadLease, AcquireFails, Goes, leaseVars, Excused
    <3> QED
      BY <2>r, <2>h, <3>1, CallGoesOn
  <2>2. ASSUME NEW p \in Processes, UnlinkStaleLease(p) PROVE LeaseInv'
    <3>1. lease' = NoLease /\ at[p] = "recovering" /\ at' = [at EXCEPT ![p] = "creating"]
          /\ stolen' = (stolen \/ (lease # NoLease /\ Alive(lease.owner)))
      BY <2>2 DEF UnlinkStaleLease, Goes
    <3>2. ASSUME ~stolen', NEW q \in Processes, at'[q] \in Holding PROVE FALSE
      <4>1. ~stolen /\ at[q] \in Holding
        BY <2>t, <2>h, <3>1, <3>2
      <4>2. lease.owner = q
        BY <2>s, <4>1
      <4>3. lease # NoLease /\ Alive(q)
        BY <2>h, <4>1, <4>2, LeaseRecords DEF Alive
      <4> QED
        BY <3>1, <3>2, <4>2, <4>3
    <3>3. at' \in [Processes -> Places]
      BY <2>t, <2>h, <3>1
    <3> QED
      BY <3>1, <3>2, <3>3, LeaseRecords DEF LeaseInv, LeaseIsReleased
  <2>3. ASSUME NEW p \in Processes, CreateLease(p) PROVE LeaseInv'
    <3>0. at[p] = "creating" /\ stolen' = stolen /\ errors' = errors
      BY <2>3 DEF CreateLease
    <3>1. CASE lease = NoLease /\ lease' = Lease(p, FALSE) /\ at' = [at EXCEPT ![p] = "opened"]
      <4>1. lease'.owner = p /\ ~lease'.complete /\ lease' \in Leases /\ p # None
        BY <3>1, LeaseRecords
      <4>2. at' \in [Processes -> Places] /\ at'[p] = "opened" /\ \A q \in Processes \ {p} : at'[q] = at[q]
        BY <2>t, <2>h, <3>1
      <4>3. ASSUME ~stolen, NEW q \in Processes, at'[q] \in Holding PROVE lease'.owner = q
        BY <2>s, <3>1, <4>1, <4>2, <4>3, LeaseRecords
      <4> QED
        BY <2>h, <3>0, <4>1, <4>2, <4>3 DEF LeaseInv, LeaseIsReleased
    <3>2. CASE lease' = lease /\ at' = [at EXCEPT ![p] = "refused"]
      BY <2>r, <2>h, <3>0, <3>2, CallGoesOn
    <3> QED
      BY <2>3, <3>1, <3>2 DEF CreateLease, Goes
  <2>4. ASSUME NEW p \in Processes, WriteLease(p) PROVE LeaseInv'
    <3>1. at[p] = "opened" /\ at' = [at EXCEPT ![p] = "leased"] /\ stolen' = stolen /\ errors' = errors
          /\ lease' = IF lease.owner = p THEN Lease(p, TRUE) ELSE lease
      BY <2>4 DEF WriteLease, Goes
    <3>2. "leased" \in Holding
      BY DEF Holding
    <3>3. CASE lease.owner = p
      <4>1. lease'.owner = p /\ lease'.complete /\ lease' \in Leases /\ p # None
        BY <3>1, <3>3, LeaseRecords
      <4>2. at' \in [Processes -> Places] /\ at'[p] = "leased" /\ \A q \in Processes \ {p} : at'[q] = at[q]
        BY <2>t, <2>h, <3>1, <3>2
      <4>3. ASSUME ~stolen, NEW q \in Processes, at'[q] \in Holding PROVE lease'.owner = q
        BY <2>s, <3>3, <4>1, <4>2, <4>3
      <4> QED
        BY <3>1, <3>2, <4>1, <4>2, <4>3 DEF LeaseInv, LeaseIsReleased
    <3>4. CASE lease.owner # p
      BY <2>h, <3>1, <3>2, <3>4, CallGoesOn
    <3> QED
      BY <3>3, <3>4
  <2>5. ASSUME NEW p \in Processes, \/ Begin(p) \/ Checkpoint(p) \/ CheckExpected(p) \/ ApplyEdit(p) \/ ApplyFails(p)
               \/ WriteFails(p) \/ ApplyEnds(p) \/ Validate(p) \/ Confirm(p) \/ RecordFails(p) \/ Catch(p)
        PROVE  LeaseInv'
    <3>1. /\ UNCHANGED <<lease, stolen>> /\ at[p] \in {"leased", "begun", "applying", "applied", "confirming", "catching"}
          /\ \/ at' = at
             \/ \E place \in {"begun", "applying", "undoing", "applied", "confirming", "rejecting", "releasing",
                              "catching", "undoing again"} :
                   at' = [at EXCEPT ![p] = place]
      <4>1. CASE Begin(p) \/ Checkpoint(p) \/ CheckExpected(p) \/ ApplyEdit(p) \/ ApplyFails(p)
        BY <4>1 DEF Begin, Checkpoint, CheckExpected, ApplyEdit, ApplyFails, Goes, leaseVars
      <4>2. CASE WriteFails(p)
        BY <4>2 DEF WriteFails, Opens, Goes, leaseVars
      <4>3. CASE ApplyEnds(p) \/ Validate(p) \/ Confirm(p) \/ RecordFails(p) \/ Catch(p)
        BY <4>3 DEF ApplyEnds, Validate, Confirm, RecordFails, Catch, RollsBackAgain, Goes, leaseVars
      <4> QED
        BY <2>5, <4>1, <4>2, <4>3
    <3>2. /\ {"leased", "begun", "applying", "applied", "confirming", "catching"} \subseteq Holding
          /\ {"begun", "applying", "undoing", "applied", "confirming", "rejecting", "releasing",
              "catching", "undoing again"} \subseteq Holding
      BY DEF Holding
    <3>3. lease.owner = p => lease.complete
      BY <2>r, <3>1
    <3>4. errors \subseteq errors'
      BY <2>5, ErrorsStay DEF Begin, Checkpoint, CheckExpected, ApplyEdit, ApplyFails, WriteFails, ApplyEnds, Validate, Confirm,
                  RecordFails, Catch
    <3> QED
      BY <2>h, <3>1, <3>2, <3>3, <3>4, CallGoesOn, CallsStay
  <2>6. ASSUME NEW p \in Processes, StartFails(p) \/ JournalFails(p) PROVE LeaseInv'
    <3>1. /\ UNCHANGED <<lease, stolen>> /\ errors \subseteq errors' /\ Excused(p, errors')
          /\ at[p] \in {"leased", "begun", "applying", "applied", "catching"} \cup Releasing
          /\ \/ at' = [at EXCEPT ![p] = "done"]
             \/ at[p] \in {"applying", "applied", "releasing"} /\ at' = [at EXCEPT ![p] = "catching"]
      BY <2>6, ErrorsStay DEF StartFails, JournalFails, Unstarted, Goes, leaseVars, Excused, Releasing
    <3>2. {"applying", "applied", "releasing", "catching"} \subseteq Holding
      BY DEF Holding
    <3>3. lease.owner = p => lease.complete
      BY <2>r, <2>h, <3>1
    <3> QED
      BY <2>h, <3>1, <3>2, <3>3, CallGoesOn
  <2>7. ASSUME NEW p \in Processes, Release(p) \/ ReleaseUnrecorded(p) PROVE LeaseInv'
    <3>1. /\ at[p] \in Releasing /\ stolen' = stolen
          /\ \E place \in {"done", "undoing late"} : at' = [at EXCEPT ![p] = place]
          /\ \E sites : GivesUp(p, sites)
      BY <2>7 DEF Release, ReleaseUnrecorded, RollsBackAgain, Goes, Releasing
    <3> QED
      BY <3>1, LeaseGivenUp
  <2>8. ASSUME NEW p \in Processes, ReleaseRefused(p) PROVE LeaseInv'
    <3>1. /\ UNCHANGED <<lease, stolen, errors>> /\ at[p] \in Releasing /\ lease.owner # p
          /\ \/ at' = [at EXCEPT ![p] = "done"]
             \/ at[p] = "releasing" /\ at' = [at EXCEPT ![p] = "catching"]
      BY <2>8 DEF ReleaseRefused, Goes, leaseVars
    <3>2. "catching" \in Holding /\ "releasing" \in Holding
      BY DEF Holding
    <3> QED
      BY <2>h, <3>1, <3>2, CallGoesOn
  <2>9. ASSUME NEW p \in Processes, OperatorRollsBack(p) PROVE LeaseInv'
    <3>1. UNCHANGED <<lease, stolen, at, errors>>
      BY <2>9 DEF OperatorRollsBack, leaseVars
    <3> QED
      BY <3>1, CallsStay
  <2>10. ASSUME NEW p \in Processes, Crash(p) PROVE LeaseInv'
    <3>1. UNCHANGED <<lease, stolen, errors>> /\ at' = [at EXCEPT ![p] = "crashed"]
      BY <2>10 DEF Crash, leaseVars, Goes
    <3> QED
      BY <2>h, <3>1, CallGoesOn
  <2>11. ASSUME NEW r \in Rollbacks,
                RollbackReads(r) \/ RollbackRestores(r) \/ RestoreGoesWrong(r) \/ RollbackEnds(r) \/ RollbackFails(r)
         PROVE  LeaseInv'
    <3> DEFINE p == r[1]
    <3>1. p \in Processes
      BY DEF Rollbacks
    <3>2. errors \subseteq errors'
      BY <2>11, ErrorsStay DEF RollbackReads, RollbackRestores, RestoreGoesWrong, RollbackEnds, RollbackFails
    <3>3. /\ UNCHANGED <<lease, stolen>>
          /\ \/ at' = at
             \/ /\ at[p] \in {"undoing", "undoing again", "rejecting"}
                /\ \E place \in {"catching", "releasing after error", "releasing"} : at' = [at EXCEPT ![p] = place]
             \/ at[p] = "undoing late" /\ at' = [at EXCEPT ![p] = "releasing late"]
      BY <2>11 DEF RollbackReads, RollbackRestores, RestoreGoesWrong, RollbackEnds, RollbackFails, RollbackReturns, leaseVars, Goes
    <3>4. /\ {"undoing", "undoing again", "rejecting", "catching", "releasing after error", "releasing"}
                \subseteq Holding \ {"opened", "crashed"}
          /\ {"undoing late", "releasing late"} \subseteq Late
          /\ {"undoing late", "releasing late"} \cap (Holding \cup {"crashed"}) = {}
      BY DEF Holding, Late
    <3> HIDE DEF p
    <3>5. lease.owner = p /\ at[p] \in {"undoing", "undoing again", "rejecting", "undoing late"} => lease.complete
      BY <2>r, <3>1
    <3> QED
      BY <2>h, <3>1, <3>2, <3>3, <3>4, <3>5, CallGoesOn, CallsStay
  <2>12. ASSUME NEW x \in Paths, UserEdits(x) PROVE LeaseInv'
    <3>1. UNCHANGED <<lease, stolen, at, errors>>
      BY <2>12 DEF UserEdits, leaseVars
    <3> QED
      BY <3>1, CallsStay
  <2>13. CASE UNCHANGED workspaceVars
    <3>1. UNCHANGED <<lease, stolen, at, errors>>
      BY <2>13 DEF workspaceVars, leaseVars
    <3> QED
      BY <3>1, CallsStay
  <2> QED
    BY <2>1, <2>2, <2>3, <2>4, <2>5, <2>6, <2>7, <2>8, <2>9, <2>10, <2>11, <2>12, <2>13 DEF WorkspaceNext
<1> QED
  BY <1>1, <1>2, PTL DEF WorkspaceSpec

\* acquire: for any number of processes, at most one is between the creation of the
\* lease and its release, unless a recovery unlinked a lease it had not read.
THEOREM LeaseExclusive == WorkspaceSpec => []LeaseIsExclusive
<1>1. LeaseInv => LeaseIsExclusive
  <2> SUFFICES ASSUME LeaseInv, ~stolen PROVE Cardinality({p \in Processes : at[p] \in Holding}) <= 1
    BY DEF LeaseIsExclusive
  <2>1. \A p, q \in {p \in Processes : at[p] \in Holding} : p = q
    BY DEF LeaseInv
  <2>2. CASE {p \in Processes : at[p] \in Holding} = {}
    BY <2>2, FS_EmptySet
  <2>3. CASE {p \in Processes : at[p] \in Holding} # {}
    <3>1. PICK h \in Processes : {p \in Processes : at[p] \in Holding} = {h}
      BY <2>1, <2>3
    <3>2. Cardinality({h}) = 1
      BY FS_Singleton
    <3> QED
      BY <3>1, <3>2
  <2> QED
    BY <2>2, <2>3
<1> QED
  BY <1>1, LeaseHeld, PTL

\* performMutation: for any number of processes and errors, the lease is left behind only
\* by a process that died, or whose lease file, journal or start of the transaction failed.
THEOREM LeaseReleased == WorkspaceSpec => []LeaseIsReleased
<1>1. LeaseInv => LeaseIsReleased
  BY DEF LeaseInv
<1> QED
  BY <1>1, LeaseHeld, PTL

-----------------------------------------------------------------------------
(* Rollback                                                                *)

\* A record of what a transaction wrote: the process itself, or that the file was
\* deleted.
Written(applied) ==
    /\ DOMAIN applied \subseteq Paths
    /\ \A x \in DOMAIN applied : applied[x] \in Processes \cup {Missing}

UndoFields == {"on", "applied", "todo", "conflict", "path", "seen"}

\* A rollback under way that has read a file will not overwrite a text it saw.
Sparing(u) ==
    u.on => /\ DOMAIN u = UndoFields
            /\ Written(u.applied) /\ u.todo \subseteq DOMAIN u.applied
            /\ u.path # 0 => u.seen # UserText \/ u.applied[u.path] = Missing

\* What makes RollbackSparesUserEdits inductive.
UndoInv ==
    /\ DOMAIN wrote = Processes /\ DOMAIN saved = Processes /\ DOMAIN undo = Rollbacks
    /\ \A p \in Processes : Written(wrote[p]) /\ Written(saved[p].applied)
    /\ \A r \in Rollbacks : Sparing(undo[r])

\* The first of the files that are left is one of them.
LEMMA LeastIsMember == ASSUME NEW S \in SUBSET Nat, S # {} PROVE Least(S) \in S
<1>1. \E x \in S : \A y \in S : ~(<<y, x>> \in OpToRel(<, Nat))
  BY NatLessThanWellFounded, WFMin
<1>2. PICK x \in S : \A y \in S : ~(<<y, x>> \in OpToRel(<, Nat))
  BY <1>1
<1>3. ASSUME NEW y \in S PROVE x <= y
  <2>1. ~(y < x)
    BY <1>2 DEF OpToRel
  <2> QED
    BY <2>1
<1> QED
  BY <1>3 DEF Least

\* The file that apply writes next is one that it has not written.
LEMMA NextEditIsLeft == ASSUME NEW p \in Processes, ToApply(p) # {} PROVE NextEdit(p) \in ToApply(p)
<1> DEFINE writes == {x \in ToApply(p) : edits[p][x] # "delete_file"}
<1>1. ToApply(p) \in SUBSET Nat /\ writes \in SUBSET Nat
  BY WorkspaceAssumption DEF ToApply
<1>2. CASE writes # {}
  <2>1. Least(writes) \in writes
    BY <1>1, <1>2, LeastIsMember
  <2> QED
    BY <1>2, <2>1 DEF NextEdit
<1>3. CASE writes = {}
  <2>1. Least(ToApply(p)) \in ToApply(p)
    BY <1>1, LeastIsMember
  <2> QED
    BY <1>3, <2>1 DEF NextEdit
<1> QED
  BY <1>2, <1>3

\* A new rollback spares what its record allows, and no rollback spares everything.
LEMMA RollbackBegins ==
    /\ Written(Nothing) /\ Sparing(NoUndo)
    /\ \A applied : Written(applied) => Sparing(Rollback(applied))
<1>1. Written(Nothing)
  BY DEF Written, Nothing
<1>2. Sparing(NoUndo)
  BY DEF Sparing, NoUndo
<1>3. ASSUME NEW applied, Written(applied) PROVE Sparing(Rollback(applied))
  BY <1>3 DEF Sparing, Rollback, UndoFields
<1> QED
  BY <1>1, <1>2, <1>3

\* Every rollback under way spares what its record allows.
LEMMA RollbacksSpare == WorkspaceSpec => []UndoInv
<1>1. WorkspaceInit => UndoInv
  BY RollbackBegins DEF WorkspaceInit, UndoInv, Record
<1>2. UndoInv /\ [WorkspaceNext]_workspaceVars => UndoInv'
  <2> SUFFICES ASSUME UndoInv, [WorkspaceNext]_workspaceVars PROVE UndoInv'
    OBVIOUS
  <2> USE DEF UndoInv
  <2>1. ASSUME NEW p \in Processes,
               \/ ReadLease(p) \/ UnlinkStaleLease(p) \/ CreateLease(p) \/ WriteLease(p) \/ AcquireFails(p)
               \/ StartFails(p) \/ CheckExpected(p) \/ Release(p) \/ ReleaseRefused(p) \/ JournalFails(p)
        PROVE  UndoInv'
    <3>1. UNCHANGED <<wrote, saved, undo>>
      BY <2>1 DEF ReadLease, UnlinkStaleLease, CreateLease, WriteLease, AcquireFails, StartFails, CheckExpected, Release,
                  ReleaseRefused, JournalFails, transactionVars
    <3> QED
      BY <3>1
  <2>2. ASSUME NEW p \in Processes, Begin(p) \/ Checkpoint(p) \/ ApplyEnds(p) \/ Confirm(p) \/ RecordFails(p) PROVE UndoInv'
    <3>1. UNCHANGED <<wrote, undo>>
          /\ \/ \E record \in {saved[p], Unreadable} : saved' = [saved EXCEPT ![p] = record]
             \/ \E stage : saved' = [saved EXCEPT ![p] = Record(stage, wrote[p])]
      BY <2>2 DEF Begin, Checkpoint, ApplyEnds, Confirm, RecordFails, Persists, transactionVars
    <3> QED
      BY <3>1, RollbackBegins DEF Record, Unreadable
  <2>3. ASSUME NEW p \in Processes, ApplyEdit(p) PROVE UndoInv'
    <3> DEFINE x == NextEdit(p)
    <3>1. /\ UNCHANGED <<saved, undo>> /\ ToApply(p) # {}
          /\ wrote' = [wrote EXCEPT ![p] = [y \in DOMAIN wrote[p] \union {x} |-> Content(p, y)]]
      BY <2>3 DEF ApplyEdit
    <3>2. x \in Paths
      BY <3>1, NextEditIsLeft, WorkspaceAssumption DEF ToApply
    <3>3. Written([y \in DOMAIN wrote[p] \union {x} |-> Content(p, y)])
      BY <3>2 DEF Written, Content
    <3> HIDE DEF x
    <3> QED
      BY <3>1, <3>3
  <2>4. ASSUME NEW p \in Processes,
               \/ ApplyFails(p) \/ WriteFails(p) \/ Validate(p) \/ Catch(p) \/ ReleaseUnrecorded(p) \/ Crash(p)
               \/ OperatorRollsBack(p)
        PROVE  UndoInv'
    <3>1. /\ wrote' = wrote
          /\ \/ undo' = undo
             \/ \E r \in Rollbacks, u \in {Rollback(wrote[p]), Rollback(saved[p].applied), NoUndo} : undo' = [undo EXCEPT ![r] = u]
      BY <2>4 DEF ApplyFails, WriteFails, Validate, Catch, ReleaseUnrecorded, RollsBackAgain, Crash, OperatorRollsBack,
                  transactionVars, Rollbacks
    <3>2. saved' = saved \/ saved' = [saved EXCEPT ![p] = Unreadable]
      BY <2>4 DEF ApplyFails, WriteFails, Validate, Catch, ReleaseUnrecorded, Crash, OperatorRollsBack
    <3> QED
      BY <3>1, <3>2, RollbackBegins DEF Record, Unreadable
  <2>5. ASSUME NEW r \in Rollbacks, RollbackReads(r) PROVE UndoInv'
    <3> DEFINE x == Least(undo[r].todo)  u == undo[r]
    <3>1. UNCHANGED <<wrote, saved>> /\ u.on /\ u.path = 0 /\ u.todo # {}
      BY <2>5 DEF RollbackReads, transactionVars
    <3>2. u.todo \in SUBSET Nat
      BY <3>1, WorkspaceAssumption DEF Sparing, Written
    <3>3. x \in u.todo
      BY <3>1, <3>2, LeastIsMember
    <3>4. undo' = [undo EXCEPT ![r] = IF Drifted(ws[x], u.applied[x])
                     THEN [u EXCEPT !.todo = u.todo \ {x}, !.conflict = TRUE]
                     ELSE [u EXCEPT !.path = x, !.seen = ws[x]]]
      BY <2>5, <3>1 DEF RollbackReads
    <3>5. Sparing(u) /\ DOMAIN u = UndoFields
      BY <3>1 DEF Sparing
    <3> HIDE DEF x, u
    <3>6. CASE Drifted(ws[x], u.applied[x])
      <4> DEFINE v == [u EXCEPT !.todo = u.todo \ {x}, !.conflict = TRUE]
      <4>1. v.on = u.on /\ v.applied = u.applied /\ v.todo = u.todo \ {x} /\ v.path = u.path /\ DOMAIN v = UndoFields
        BY <3>5 DEF UndoFields
      <4>2. Sparing(v)
        BY <3>1, <3>5, <4>1 DEF Sparing
      <4> QED
        BY <3>1, <3>4, <3>6, <4>2
    <3>7. CASE ~Drifted(ws[x], u.applied[x])
      <4> DEFINE v == [u EXCEPT !.path = x, !.seen = ws[x]]
      <4>1. v.on = u.on /\ v.applied = u.applied /\ v.todo = u.todo /\ v.path = x /\ v.seen = ws[x] /\ DOMAIN v = UndoFields
        BY <3>5 DEF UndoFields
      <4>2. u.applied[x] \in Processes \cup {Missing}
        BY <3>1, <3>3, <3>5 DEF Sparing, Written
      <4>3. ws[x] # UserText \/ u.applied[x] = Missing
        BY <3>7, <4>2, WorkspaceAssumption DEF Drifted, UserText, Missing
      <4>4. Sparing(v)
        BY <3>1, <3>5, <4>1, <4>3 DEF Sparing
      <4> QED
        BY <3>1, <3>4, <3>7, <4>4
    <3> QED
      BY <3>6, <3>7
  <2>6. ASSUME NEW r \in Rollbacks, RollbackRestores(r) \/ RestoreGoesWrong(r) PROVE UndoInv'
    <3> DEFINE u == undo[r]  x == undo[r].path
               v == [[[u EXCEPT !.todo = u.todo \ {x}] EXCEPT !.path = 0] EXCEPT !.seen = None]
    <3>1. UNCHANGED <<wrote, saved>> /\ u.on
      BY <2>6 DEF RollbackRestores, RestoreGoesWrong, transactionVars
    <3>2. undo' = [undo EXCEPT ![r].todo = @ \ {x}, ![r].path = 0, ![r].seen = None]
      BY <2>6 DEF RollbackRestores, RestoreGoesWrong, IsRestored
    <3>3. DOMAIN undo' = Rollbacks /\ undo'[r] = v /\ \A q \in Rollbacks \ {r} : undo'[q] = undo[q]
      BY <3>2
    <3>4. Sparing(u) /\ DOMAIN u = UndoFields
      BY <3>1 DEF Sparing
    <3> HIDE DEF u, x
    <3>5. v.on = u.on /\ v.applied = u.applied /\ v.todo = u.todo \ {x} /\ v.path = 0 /\ DOMAIN v = UndoFields
      BY <3>4 DEF UndoFields
    <3> HIDE DEF v
    <3>6. Sparing(v)
      BY <3>1, <3>4, <3>5 DEF Sparing
    <3> QED
      BY <3>1, <3>3, <3>6
  <2>7. ASSUME NEW r \in Rollbacks, RollbackEnds(r) \/ RollbackFails(r) PROVE UndoInv'
    <3>1. r[1] \in Processes /\ undo[r].on /\ wrote' = wrote /\ undo' = [undo EXCEPT ![r] = NoUndo]
      BY <2>7 DEF RollbackEnds, RollbackFails, RollbackReturns, transactionVars, Rollbacks
    <3>2. saved' = saved \/ \E record \in {saved[r[1]], Unreadable, RolledBack(r)} : saved' = [saved EXCEPT ![r[1]] = record]
      BY <2>7 DEF RollbackEnds, RollbackFails
    <3>3. Written(RolledBack(r).applied) /\ Written(Unreadable.applied)
      BY <3>1, RollbackBegins DEF Sparing, RolledBack, Unreadable, Record
    <3>4. DOMAIN saved' = Processes /\ \A q \in Processes : Written(saved'[q].applied)
      BY <3>1, <3>2, <3>3
    <3>5. DOMAIN undo' = Rollbacks /\ \A q \in Rollbacks : Sparing(undo'[q])
      BY <3>1, RollbackBegins
    <3> QED
      BY <3>1, <3>4, <3>5
  <2>8. ASSUME NEW x \in Paths, UserEdits(x) PROVE UndoInv'
    BY <2>8 DEF UserEdits, transactionVars
  <2>9. CASE UNCHANGED workspaceVars
    BY <2>9 DEF workspaceVars, transactionVars
  <2> QED
    BY <2>1, <2>2, <2>3, <2>4, <2>5, <2>6, <2>7, <2>8, <2>9 DEF WorkspaceNext
<1> QED
  BY <1>1, <1>2, PTL DEF WorkspaceSpec

\* rollback: for any number of files, transactions, rollbacks and errors, a text of the
\* user is overwritten only when the rollback had read the file before the user saved
\* it, or when the transaction had deleted the file.
THEOREM RollbackSpares == WorkspaceSpec => RollbackSparesUserEdits
<1>1. ASSUME UndoInv, NEW r \in Rollbacks, undo[r].on, undo[r].path # 0
      PROVE  undo[r].seen # UserText \/ undo[r].applied[undo[r].path] = Missing
  BY <1>1 DEF UndoInv, Sparing
<1>2. UndoInv => [\A r \in Rollbacks : undo[r].on /\ undo[r].path # 0 /\ undo'[r] # undo[r] =>
          LET x == undo[r].path IN
          ws[x] = UserText /\ ws'[x] # UserText =>
              undo[r].seen # UserText \/ undo[r].applied[x] = Missing]_workspaceVars
  BY <1>1
<1> QED
  BY <1>2, RollbacksSpare, PTL DEF WorkspaceSpec, RollbackSparesUserEdits

-----------------------------------------------------------------------------
(* Transactions are atomic                                                 *)

\* Before the checkpoint a transaction has not written anything.
Early == Waiting \cup {"opened", "leased", "begun"}
Undoing == {"undoing", "rejecting", "undoing again", "undoing late"}
Undone == {"rolled_back", "recovery_required"}

\* Before confirm has written the record.
Open == {"applying", "applied", "confirming", "undoing", "rejecting"}

\* The parts of the invariant speak of one transaction p: where its call is (place), its
\* checkpoint cp, what it wrote (w), its record sv, the rollbacks su of the process and
\* op of the operator, the transactions with an outdated record (late), and the files f,
\* except those that others touched or that were not written as they should be (t).
Mine(cp, t) == DOMAIN cp \ t
Recorded(sv) == sv.stage \notin {None, "prepared"}

\* A rollback under way has restored the files it is done with.
Restoring(u, cp, w, t, f) ==
    /\ u.applied = w /\ u.todo \subseteq DOMAIN w /\ (u.path # 0 => u.path \in u.todo)
    /\ \A x \in Mine(cp, t) \ u.todo : f[x] = cp[x]

\* Where the call is says what its transaction has written, and which rollback is on.
Course(p, place, cp, w, sv, su, op) ==
    /\ DOMAIN w \subseteq DOMAIN edits[p] /\ w = [x \in DOMAIN w |-> Content(p, x)]
    /\ DOMAIN cp \subseteq DOMAIN edits[p]
    /\ place \in Early => ~Recorded(sv) /\ ~op.on /\ w = Nothing /\ cp = Nothing
    /\ Recorded(sv) \/ op.on \/ place \in (Holding \ Early) \cup Undoing => DOMAIN cp = DOMAIN edits[p]
    /\ place \in {"applied", "confirming"} => DOMAIN w = DOMAIN edits[p]
    /\ su.on <=> place \in Undoing
    /\ place \in Open => sv.stage # "confirmed"

\* The files the transaction wrote have its content or that of the checkpoint, and the
\* others that of the checkpoint.
Contents(p, cp, w, t, f) ==
    \A x \in Mine(cp, t) : f[x] = cp[x] \/ (x \in DOMAIN w /\ f[x] = Content(p, x))

\* What holds of the files while the call goes on.
Progress(p, place, cp, w, su, t, f) ==
    /\ place \in {"applying", "applied", "confirming"} =>
          \A x \in Mine(cp, t) \cap DOMAIN w : f[x] = Content(p, x)
    /\ place \in Undoing => Restoring(su, cp, w, t, f)

\* What the operator does and what the record says.
Result(p, place, cp, w, sv, su, op, late, t, f) ==
    p \in late \/
    /\ op.on => place # "applying" /\ Restoring(op, cp, w, t, f)
    /\ place = "applying" => sv.stage \notin Undone
    /\ sv.stage \in Undone => \A x \in Mine(cp, t) : f[x] = cp[x]
    /\ sv.stage = "confirmed" /\ ~op.on /\ ~su.on => \A x \in Mine(cp, t) : f[x] = Content(p, x)

Fits(p, place, cp, w, sv, su, op, late, t, f) ==
    /\ Course(p, place, cp, w, sv, su, op)
    /\ Contents(p, cp, w, t, f)
    /\ Progress(p, place, cp, w, su, t, f)
    /\ Result(p, place, cp, w, sv, su, op, late, t, f)

\* The files of p that its record does not answer for.
Lost(p) == touched[p] \cup spoiled[p]

\* The transaction of p fits what is known of it.
Sound(p) ==
    Fits(p, at[p], checkpoint[p], wrote[p], saved[p], undo[<<p, "self">>], undo[<<p, "operator">>],
         outdated, Lost(p), ws)

\* What makes TransactionIsAtomic inductive.
AtomicInv ==
    /\ \A g \in {checkpoint, touched, spoiled} : DOMAIN g = Processes
    /\ DOMAIN ws = Paths
    /\ ~stolen => \A p \in Processes : Sound(p)

\* The files that count are those that counted before, and hold what they held.
Spared(cp, t, f, t2, f2) == \A x \in Mine(cp, t2) : x \notin t /\ f2[x] = f[x]

\* What happens to other files changes nothing.
LEMMA FitsSpared ==
    ASSUME NEW p, NEW place, NEW cp, NEW w, NEW sv, NEW su, NEW op, NEW late, NEW t, NEW f, NEW late2, NEW t2, NEW f2,
           Fits(p, place, cp, w, sv, su, op, late, t, f),
           p \in late => p \in late2, Spared(cp, t, f, t2, f2)
    PROVE  Fits(p, place, cp, w, sv, su, op, late2, t2, f2)
<1>1. \A x \in Mine(cp, t2) : x \in Mine(cp, t) /\ f2[x] = f[x]
  BY DEF Mine, Spared
<1>2. Contents(p, cp, w, t2, f2)
  BY <1>1 DEF Fits, Contents
<1>3. Progress(p, place, cp, w, su, t2, f2)
  BY <1>1 DEF Fits, Progress, Restoring
<1>4. Result(p, place, cp, w, sv, su, op, late2, t2, f2)
  BY <1>1 DEF Fits, Result, Restoring
<1> QED
  BY <1>2, <1>3, <1>4 DEF Fits

\* Nor does what restores files to the checkpoint, while a rollback is on, or when the
\* record does not say the opposite.
LEMMA FitsRestored ==
    ASSUME NEW p, NEW place, NEW cp, NEW w, NEW sv, NEW su, NEW op, NEW late, NEW t, NEW f, NEW f2,
           Fits(p, place, cp, w, sv, su, op, late, t, f),
           \A x \in Mine(cp, t) : f2[x] = f[x] \/ f2[x] = cp[x],
           place \notin {"applying", "applied", "confirming"},
           sv.stage = "confirmed" => op.on \/ su.on
    PROVE  Fits(p, place, cp, w, sv, su, op, late, t, f2)
<1>1. Course(p, place, cp, w, sv, su, op)
  BY DEF Fits
<1>2. Contents(p, cp, w, t, f2)
  BY DEF Fits, Contents
<1>3. Progress(p, place, cp, w, su, t, f2)
  BY DEF Fits, Progress, Restoring
<1>4. Result(p, place, cp, w, sv, su, op, late, t, f2)
  BY DEF Fits, Result, Restoring
<1> QED
  BY <1>1, <1>2, <1>3, <1>4 DEF Fits

\* What a rollback and a record consist of, and whose rollback is whose.
LEMMA UndoRecords ==
    /\ ~NoUndo.on /\ DOMAIN Nothing = {} /\ ~Recorded(Unreadable) /\ Unreadable.stage = None
    /\ \A w : /\ Rollback(w).on /\ Rollback(w).applied = w /\ Rollback(w).todo = DOMAIN w /\ Rollback(w).path = 0
              /\ \A stage : Record(stage, w).stage = stage /\ Record(stage, w).applied = w
    /\ \A p \in Processes : <<p, "self">> \in Rollbacks /\ <<p, "operator">> \in Rollbacks
    /\ \A p, q : p # q => <<p, "self">> # <<q, "self">> /\ <<p, "operator">> # <<q, "operator">>
    /\ \A p, q : <<p, "self">> # <<q, "operator">>
BY DEF NoUndo, Nothing, Rollback, Record, Rollbacks, Unreadable, Recorded

\* The process goes on with its call, and leaves files and records as they are.  A
\* rollback begins from what it wrote, and one that is cut short leaves a confirmed
\* record behind.
LEMMA CallMoves ==
    ASSUME NEW p, NEW place, NEW cp, NEW w, NEW sv, NEW su, NEW op, NEW late, NEW t, NEW f, NEW place2, NEW su2,
           Fits(p, place, cp, w, sv, su, op, late, t, f),
           place2 \in Early => place \in Early,
           place2 \in (Holding \ Early) \cup Undoing => place \in Holding \ Early \/ su.on,
           place2 \in {"applying", "applied"} => FALSE,
           place2 = "confirming" => place = "applied",
           place2 \in {"undoing", "rejecting"} => place \in {"applying", "applied"},
           IF place2 \in Undoing THEN su2 = Rollback(w) ELSE ~su2.on,
           su.on /\ sv.stage = "confirmed" => p \in late \/ su2.on
    PROVE  Fits(p, place2, cp, w, sv, su2, op, late, t, f)
<1> USE UndoRecords
<1>1. Course(p, place2, cp, w, sv, su2, op)
  <2>1. Course(p, place, cp, w, sv, su, op)
    BY DEF Fits
  <2>2. place2 \in Early => ~Recorded(sv) /\ ~op.on /\ w = Nothing /\ cp = Nothing
    BY <2>1 DEF Course
  <2>3. Recorded(sv) \/ op.on \/ place2 \in (Holding \ Early) \cup Undoing => DOMAIN cp = DOMAIN edits[p]
    BY <2>1 DEF Course
  <2>4. place2 \in {"applied", "confirming"} => DOMAIN w = DOMAIN edits[p]
    BY <2>1 DEF Course
  <2>5. su2.on <=> place2 \in Undoing
    OBVIOUS
  <2>6. place2 \in Open => sv.stage # "confirmed"
    BY <2>1 DEF Course, Open
  <2> QED
    BY <2>1, <2>2, <2>3, <2>4, <2>5, <2>6 DEF Course
<1>2. Contents(p, cp, w, t, f)
  BY DEF Fits
<1>3. Progress(p, place2, cp, w, su2, t, f)
  <2>1. place2 \in Undoing => Restoring(su2, cp, w, t, f)
    BY <1>2 DEF Restoring, Contents
  <2>2. place2 \in {"applying", "applied", "confirming"} => place = "applied"
    OBVIOUS
  <2> QED
    BY <2>1, <2>2 DEF Fits, Progress
<1>4. Result(p, place2, cp, w, sv, su2, op, late, t, f)
  <2>1. Result(p, place, cp, w, sv, su, op, late, t, f)
    BY DEF Fits
  <2>2. p \notin late /\ sv.stage = "confirmed" /\ ~su2.on => ~su.on
    OBVIOUS
  <2> QED
    BY <2>1, <2>2 DEF Result
<1> QED
  BY <1>1, <1>2, <1>3, <1>4 DEF Fits

\* The record is written, and says what is true of the files.
LEMMA RecordMoves ==
    ASSUME NEW p, NEW place, NEW cp, NEW w, NEW sv, NEW su, NEW op, NEW late, NEW t, NEW f, NEW sv2,
           Fits(p, place, cp, w, sv, su, op, late, t, f),
           Recorded(sv2) => place \notin Early /\ DOMAIN cp = DOMAIN edits[p],
           sv2.stage \in Undone /\ p \notin late => place # "applying" /\ \A x \in Mine(cp, t) : f[x] = cp[x],
           sv2.stage = "confirmed" => place \notin Open,
           sv2.stage = "confirmed" /\ p \notin late => \A x \in Mine(cp, t) : f[x] = Content(p, x)
    PROVE  Fits(p, place, cp, w, sv2, su, op, late, t, f)
<1>1. Course(p, place, cp, w, sv2, su, op)
  BY DEF Fits, Course
<1>2. Result(p, place, cp, w, sv2, su, op, late, t, f)
  BY DEF Fits, Result
<1> QED
  BY <1>1, <1>2 DEF Fits

\* The rollback of an operator is over, and what it left of a confirmed transaction is known.
LEMMA OperatorStops ==
    ASSUME NEW p, NEW place, NEW cp, NEW w, NEW sv, NEW su, NEW op, NEW late, NEW t, NEW f, NEW op2,
           Fits(p, place, cp, w, sv, su, op, late, t, f), ~op2.on,
           sv.stage = "confirmed" => p \in late
    PROVE  Fits(p, place, cp, w, sv, su, op2, late, t, f)
<1>1. Course(p, place, cp, w, sv, su, op2)
  BY DEF Fits, Course
<1>2. Result(p, place, cp, w, sv, su, op2, late, t, f)
  BY DEF Fits, Result
<1> QED
  BY <1>1, <1>2 DEF Fits

\* A rollback that goes on, of the process or of an operator.
LEMMA RollbackGoesOn ==
    ASSUME NEW p, NEW place, NEW cp, NEW w, NEW sv, NEW su, NEW op, NEW late, NEW t, NEW f, NEW su2, NEW op2,
           Fits(p, place, cp, w, sv, su, op, late, t, f),
           su2 = su \/ (su2.on /\ su.on /\ (Restoring(su, cp, w, t, f) => Restoring(su2, cp, w, t, f))),
           op2 = op \/ (op2.on /\ op.on /\ (Restoring(op, cp, w, t, f) => Restoring(op2, cp, w, t, f)))
    PROVE  Fits(p, place, cp, w, sv, su2, op2, late, t, f)
<1>1. Course(p, place, cp, w, sv, su2, op2)
  BY DEF Fits, Course
<1>2. Progress(p, place, cp, w, su2, t, f)
  BY DEF Fits, Progress, Course
<1>3. Result(p, place, cp, w, sv, su2, op2, late, t, f)
  BY DEF Fits, Result
<1> QED
  BY <1>1, <1>2, <1>3 DEF Fits

\* The read of a file: an own file that differs from what the transaction wrote is one
\* that was restored before.
LEMMA RestoringReads ==
    ASSUME NEW p \in Processes, NEW u, NEW cp, NEW w, NEW t, NEW f,
           Restoring(u, cp, w, t, f), Contents(p, cp, w, t, f),
           w = [y \in DOMAIN w |-> Content(p, y)], NEW x \in u.todo, NEW v, v.applied = u.applied,
           \/ Drifted(f[x], u.applied[x]) /\ v.todo = u.todo \ {x} /\ v.path = u.path /\ u.path = 0
           \/ v.todo = u.todo /\ v.path = x
    PROVE  Restoring(v, cp, w, t, f)
<1>1. CASE v.todo = u.todo /\ v.path = x
  BY <1>1 DEF Restoring
<1>2. CASE Drifted(f[x], u.applied[x]) /\ v.todo = u.todo \ {x} /\ v.path = u.path /\ u.path = 0
  <2>1. w[x] = Content(p, x) /\ u.applied = w
    BY DEF Restoring
  <2>2. f[x] # Content(p, x)
    BY <1>2, <2>1 DEF Drifted
  <2>3. x \in Mine(cp, t) => f[x] = cp[x]
    BY <2>2 DEF Contents
  <2> QED
    BY <1>2, <2>3 DEF Restoring
<1> QED
  BY <1>1, <1>2

\* The restore of a file.
LEMMA RestoringRestores ==
    ASSUME NEW u, NEW cp, NEW w, NEW t, NEW f, NEW x, NEW v,
           Restoring(u, cp, w, t, f), x \in Mine(cp, t) => f[x] = cp[x],
           v.applied = u.applied, v.todo = u.todo \ {x}, v.path = 0
    PROVE  Restoring(v, cp, w, t, f)
BY DEF Restoring

\* The domains of what the actions update one element of.
Domains ==
    /\ at \in [Processes -> Places] /\ DOMAIN undo = Rollbacks
    /\ \A g \in {checkpoint, wrote, saved, touched, spoiled} : DOMAIN g = Processes
    /\ DOMAIN ws = Paths

\* A step of others: the fields of q stay, and so do the files that it does not mark.
Same(q) ==
    /\ at'[q] = at[q] /\ checkpoint'[q] = checkpoint[q] /\ wrote'[q] = wrote[q] /\ saved'[q] = saved[q]
    /\ undo'[<<q, "self">>] = undo[<<q, "self">>] /\ undo'[<<q, "operator">>] = undo[<<q, "operator">>]
    /\ q \in outdated => q \in outdated'
FilesSpare(q) == Spared(checkpoint[q], Lost(q), ws, Lost(q)', ws')

\* A transaction that a step does not concern.
LEMMA BystanderStays ==
    ASSUME NEW q, Sound(q), Same(q), FilesSpare(q) PROVE Sound(q)'
<1>1. Fits(q, at[q], checkpoint[q], wrote[q], saved[q], undo[<<q, "self">>], undo[<<q, "operator">>],
           outdated', Lost(q)', ws')
  BY FitsSpared DEF Sound, Same, FilesSpare
<1> QED
  BY <1>1 DEF Sound, Same

\* A step that leaves all files alone.
LEMMA FilesStay == ASSUME UNCHANGED <<ws, touched, spoiled>> PROVE \A q : FilesSpare(q)
BY DEF FilesSpare, Spared, Mine, Lost

\* A step that changes one file, and marks it for q.
LEMMA FilesTold ==
    ASSUME Domains, NEW q \in Processes, Sound(q), NEW x, NEW v, ws' = [ws EXCEPT ![x] = v],
           touched[q] \subseteq touched'[q], spoiled[q] \subseteq spoiled'[q],
           x \in DOMAIN checkpoint[q] => x \in Lost(q)'
    PROVE  FilesSpare(q)
<1>1. ASSUME NEW y \in Mine(checkpoint[q], Lost(q)') PROVE y \notin Lost(q) /\ ws'[y] = ws[y]
  <2>1. DOMAIN checkpoint[q] \subseteq Paths
    BY WorkspaceAssumption DEF Sound, Fits, Course
  <2>2. y \in Paths /\ y # x /\ y \notin Lost(q)
    BY <1>1, <2>1 DEF Mine, Lost
  <2> QED
    BY <2>2 DEF Domains
<1> QED
  BY <1>1 DEF FilesSpare, Spared

\* What Touches and Spoils mark.
LEMMA MarksGrow ==
    ASSUME Domains, NEW q \in Processes, NEW x, NEW others, Touches(others, x)
    PROVE  /\ touched[q] \subseteq touched'[q]
           /\ q \in others /\ x \in DOMAIN checkpoint[q] => x \in touched'[q]
           /\ q \notin others => touched'[q] = touched[q]
           /\ \A p : Spoils(p, x) => spoiled[q] \subseteq spoiled'[q] /\ (p = q => x \in spoiled'[q])
BY DEF Touches, Spoils, Domains

\* A file that is torn is marked for everybody.
LEMMA FilesTorn ==
    ASSUME Domains, NEW q \in Processes, Sound(q), NEW p \in Processes, NEW x, Tears(p, x)
    PROVE  FilesSpare(q)
<1>1. /\ Touches(Processes \ {p}, x) /\ Spoils(p, x)
      /\ ws' = [ws EXCEPT ![x] = Torn]
  BY DEF Tears
<1>2. touched[q] \subseteq touched'[q] /\ spoiled[q] \subseteq spoiled'[q]
  BY <1>1, MarksGrow
<1>3. x \in DOMAIN checkpoint[q] => x \in Lost(q)'
  BY <1>1, MarksGrow DEF Lost
<1> QED
  BY <1>1, <1>2, <1>3, FilesTold

\* Steps of the call that do not write the record.
LEMMA CallStep ==
    ASSUME Domains, \A q \in Processes : Sound(q) /\ FilesSpare(q), NEW p \in Processes, NEW place,
           UNCHANGED <<checkpoint, wrote, saved, outdated>>, at' = [at EXCEPT ![p] = place], at[p] \notin Undoing,
           place \in Early => at[p] \in Early,
           place \in (Holding \ Early) \cup Undoing => at[p] \in Holding \ Early,
           place \notin {"applying", "applied"},
           place = "confirming" => at[p] = "applied",
           place \in {"undoing", "rejecting"} => at[p] \in {"applying", "applied"},
           IF place \in Undoing THEN undo' = [undo EXCEPT ![<<p, "self">>] = Rollback(wrote[p])] ELSE undo' = undo
    PROVE  \A q \in Processes : Sound(q)'
<1>1. ASSUME NEW q \in Processes \ {p} PROVE Sound(q)'
  <2>1. undo'[<<q, "self">>] = undo[<<q, "self">>] /\ undo'[<<q, "operator">>] = undo[<<q, "operator">>]
    BY UndoRecords DEF Domains
  <2>2. Same(q)
    BY <2>1 DEF Same, Domains
  <2> QED
    BY <2>2, BystanderStays
<1>2. Sound(p)'
  <2>1. at'[p] = place /\ undo'[<<p, "operator">>] = undo[<<p, "operator">>]
        /\ undo'[<<p, "self">>] = IF place \in Undoing THEN Rollback(wrote[p]) ELSE undo[<<p, "self">>]
    BY UndoRecords DEF Domains
  <2>2. Fits(p, at[p], checkpoint[p], wrote[p], saved[p], undo[<<p, "self">>], undo[<<p, "operator">>],
             outdated, Lost(p)', ws')
    BY FitsSpared DEF Sound, FilesSpare
  <2>3. ~undo[<<p, "self">>].on
    BY DEF Sound, Fits, Course
  <2>4. Fits(p, place, checkpoint[p], wrote[p], saved[p], undo'[<<p, "self">>], undo[<<p, "operator">>],
             outdated, Lost(p)', ws')
    BY <2>1, <2>2, <2>3, CallMoves
  <2> QED
    BY <2>1, <2>4 DEF Sound
<1> QED
  BY <1>1, <1>2

LEMMA CallIsSound ==
    ASSUME LeaseInv, Domains, ~stolen, \A q \in Processes : Sound(q), NEW p \in Processes,
           \/ ReadLease(p) \/ UnlinkStaleLease(p) \/ CreateLease(p) \/ WriteLease(p) \/ AcquireFails(p) \/ StartFails(p)
           \/ CheckExpected(p) \/ ApplyFails(p) \/ WriteFails(p) \/ Validate(p) \/ Catch(p) \/ JournalFails(p)
           \/ Release(p) \/ ReleaseRefused(p) \/ ReleaseUnrecorded(p)
    PROVE  \A q \in Processes : Sound(q)'
<1>1. UNCHANGED <<checkpoint, wrote, saved, outdated>>
  BY DEF ReadLease, UnlinkStaleLease, CreateLease, WriteLease, AcquireFails, StartFails, CheckExpected, ApplyFails, WriteFails,
         Validate, Catch, JournalFails, Release, ReleaseRefused, ReleaseUnrecorded, transactionVars, marks
<1>2. \A q \in Processes : FilesSpare(q)
  <2>1. CASE WriteFails(p)
    <3>1. PICK x \in Paths : Tears(p, x)
      BY <2>1 DEF WriteFails
    <3> QED
      BY <3>1, FilesTorn
  <2>2. CASE ~WriteFails(p)
    <3>1. UNCHANGED <<ws, touched, spoiled>>
      BY <2>2 DEF ReadLease, UnlinkStaleLease, CreateLease, WriteLease, AcquireFails, StartFails, CheckExpected, ApplyFails,
         Validate, Catch, JournalFails, Release, ReleaseRefused, ReleaseUnrecorded, marks
    <3> QED
      BY <3>1, FilesStay
  <2> QED
    BY <2>1, <2>2
<1>3. CASE CheckExpected(p)
  <2>1. \A q \in Processes : Same(q)
    BY <1>1, <1>3 DEF CheckExpected, Same
  <2> QED
    BY <1>2, <2>1, BystanderStays
<1>h. /\ {"idle", "refused", "creating", "recovering", "opened", "leased", "begun"} = Early
      /\ {"applying", "applied", "confirming", "catching", "releasing", "releasing after error"} \subseteq Holding \ (Early \cup Undoing)
      /\ {"undoing", "rejecting", "undoing again"} \subseteq Holding \ Early
      /\ {"undoing", "rejecting", "undoing again", "undoing late"} = Undoing
      /\ Early \cap Undoing = {} /\ {"done", "releasing late"} \cap (Holding \cup Early \cup Undoing) = {}
      /\ {"undoing late"} \cap Early = {}
  BY DEF Early, Waiting, Holding, Undoing
<1>4. CASE ReadLease(p) \/ UnlinkStaleLease(p) \/ CreateLease(p) \/ WriteLease(p) \/ AcquireFails(p)
  <2>1. undo' = undo /\ at[p] \in {"idle", "creating", "recovering", "opened"}
        /\ \E place \in {"creating", "refused", "recovering", "opened", "leased"} : at' = [at EXCEPT ![p] = place]
    BY <1>4 DEF ReadLease, UnlinkStaleLease, CreateLease, WriteLease, AcquireFails, Goes
  <2> QED
    BY <1>1, <1>2, <1>h, <2>1, CallStep
<1>5. CASE StartFails(p) \/ JournalFails(p) \/ ReleaseRefused(p) \/ Release(p)
  <2>1. /\ undo' = undo
        /\ at[p] \in {"leased", "begun", "applying", "applied", "catching", "releasing", "releasing after error", "releasing late"}
        /\ \/ at' = [at EXCEPT ![p] = "done"]
           \/ at[p] \in {"applying", "applied", "releasing"} /\ at' = [at EXCEPT ![p] = "catching"]
    BY <1>5 DEF StartFails, JournalFails, ReleaseRefused, Release, Unstarted, Releasing, Goes
  <2>2. at[p] \notin Undoing
    BY <2>1 DEF Undoing
  <2>3. CASE at' = [at EXCEPT ![p] = "done"]
    <3>1. "done" \notin Early \cup Holding \cup Undoing \cup {"applying", "applied", "confirming", "undoing", "rejecting"}
      BY DEF Early, Waiting, Holding, Undoing
    <3> QED
      BY <1>1, <1>2, <2>1, <2>2, <2>3, <3>1, CallStep
  <2>4. CASE at[p] \in {"applying", "applied", "releasing"} /\ at' = [at EXCEPT ![p] = "catching"]
    <3>1. /\ "catching" \notin Early \cup Undoing \cup {"applying", "applied", "confirming", "undoing", "rejecting"}
          /\ at[p] \in Holding \ Early
      BY <1>h, <2>4
    <3> QED
      BY <1>1, <1>2, <2>1, <2>2, <2>4, <3>1, CallStep
  <2> QED
    BY <2>1, <2>3, <2>4
<1>6. CASE ApplyFails(p) \/ WriteFails(p) \/ Validate(p) \/ Catch(p) \/ ReleaseUnrecorded(p)
  <2>1. \/ \E place :
              /\ \/ at[p] = "applying" /\ place = "undoing"
                 \/ at[p] = "applied" /\ place = "rejecting"
                 \/ at[p] = "catching" /\ place = "undoing again"
                 \/ at[p] = "releasing" /\ place = "undoing late"
              /\ at' = [at EXCEPT ![p] = place] /\ undo' = [undo EXCEPT ![<<p, "self">>] = Rollback(wrote[p])]
        \/ at[p] = "applied" /\ at' = [at EXCEPT ![p] = "confirming"] /\ undo' = undo
    BY <1>6 DEF ApplyFails, WriteFails, Opens, Validate, Catch, ReleaseUnrecorded, RollsBackAgain, Goes
  <2>2. at[p] \notin Undoing /\ at[p] \in Holding \ Early
    BY <1>h, <2>1
  <2>3. ASSUME NEW place,
               \/ at[p] = "applying" /\ place = "undoing"
               \/ at[p] = "applied" /\ place = "rejecting"
               \/ at[p] = "catching" /\ place = "undoing again"
               \/ at[p] = "releasing" /\ place = "undoing late",
               at' = [at EXCEPT ![p] = place], undo' = [undo EXCEPT ![<<p, "self">>] = Rollback(wrote[p])]
        PROVE  \A q \in Processes : Sound(q)'
    <3>1. place \in Undoing /\ place \notin Early /\ place \notin {"applying", "applied"} /\ place # "confirming"
      BY <1>h, <2>3
    <3>2. place \in {"undoing", "rejecting"} => at[p] \in {"applying", "applied"}
      BY <2>3
    <3>3. IF place \in Undoing THEN undo' = [undo EXCEPT ![<<p, "self">>] = Rollback(wrote[p])] ELSE undo' = undo
      BY <2>3, <3>1
    <3>4. at' = [at EXCEPT ![p] = place]
      BY <2>3
    <3>5. /\ place \in Early => at[p] \in Early
          /\ place \in (Holding \ Early) \cup Undoing => at[p] \in Holding \ Early
          /\ place = "confirming" => at[p] = "applied"
      BY <2>2, <3>1
    <3> QED
      BY <1>1, <1>2, <2>2, <3>1, <3>2, <3>3, <3>4, <3>5, CallStep
  <2>4. ASSUME NEW place, place = "confirming", at[p] = "applied", at' = [at EXCEPT ![p] = place], undo' = undo
        PROVE  \A q \in Processes : Sound(q)'
    <3>1. place \notin Early \cup Undoing /\ place \notin {"applying", "applied", "undoing", "rejecting"}
      BY <1>h, <2>4
    <3>2. place \in Early => at[p] \in Early
      BY <3>1
    <3>3. place \in (Holding \ Early) \cup Undoing => at[p] \in Holding \ Early
      BY <2>2
    <3> QED
      BY <1>1, <1>2, <2>2, <2>4, <3>1, <3>2, <3>3, CallStep
  <2> QED
    BY <2>1, <2>3, <2>4
<1> QED
  BY <1>3, <1>4, <1>5, <1>6

\* A process that dies may leave a file torn and its record unreadable.
LEMMA CrashIsSound ==
    ASSUME Domains, \A q \in Processes : Sound(q), NEW p \in Processes, Crash(p)
    PROVE  \A q \in Processes : Sound(q)'
<1> DEFINE su == undo[<<p, "self">>]  op == undo[<<p, "operator">>]  cp == checkpoint[p]  w == wrote[p]
           su2 == undo'[<<p, "self">>]  sv2 == saved'[p]
<1>1. /\ UNCHANGED <<checkpoint, wrote>> /\ at' = [at EXCEPT ![p] = "crashed"]
      /\ undo' = [undo EXCEPT ![<<p, "self">>] = NoUndo]
      /\ saved' = saved \/ saved' = [saved EXCEPT ![p] = Unreadable]
  BY DEF Crash, Goes, transactionVars
<1>2. outdated \subseteq outdated' /\ (su.on /\ sv2.stage = "confirmed" => p \in outdated')
  BY DEF Crash, Halfway
<1>3. \A q \in Processes : FilesSpare(q)
  <2>1. CASE UNCHANGED <<ws, touched, spoiled>>
    BY <2>1, FilesStay
  <2>2. CASE \E x \in Writing(p) : Tears(p, x)
    BY <2>2, FilesTorn
  <2> QED
    BY <2>1, <2>2 DEF Crash
<1>4. ASSUME NEW q \in Processes \ {p} PROVE Sound(q)'
  <2>1. undo'[<<q, "self">>] = undo[<<q, "self">>] /\ undo'[<<q, "operator">>] = undo[<<q, "operator">>]
    BY <1>1, UndoRecords DEF Domains
  <2>2. Same(q)
    BY <1>1, <1>2, <2>1 DEF Same, Domains
  <2> QED
    BY <1>3, <2>2, BystanderStays
<1>5. at'[p] = "crashed" /\ su2 = NoUndo /\ undo'[<<p, "operator">>] = op /\ (sv2 = saved[p] \/ sv2 = Unreadable)
  BY <1>1, UndoRecords DEF Domains
<1>6. Fits(p, at[p], cp, w, saved[p], su, op, outdated', Lost(p)', ws')
  BY <1>2, <1>3, FitsSpared DEF Sound, FilesSpare
<1> HIDE DEF su, op, cp, w, su2, sv2
<1>7. Fits(p, at[p], cp, w, sv2, su, op, outdated', Lost(p)', ws')
  <2>1. CASE sv2 = saved[p]
    BY <1>6, <2>1
  <2>2. CASE sv2 = Unreadable
    <3>1. ~Recorded(sv2) /\ sv2.stage \notin Undone \cup {"confirmed"}
      BY <2>2, UndoRecords DEF None, Undone
    <3> QED
      BY <1>6, <3>1, RecordMoves
  <2> QED
    BY <1>5, <2>1, <2>2
<1>8. "crashed" \notin Early \cup Holding \cup Undoing /\ ~su2.on
  BY <1>5, UndoRecords DEF Early, Waiting, Holding, Undoing
<1>9. Fits(p, "crashed", cp, w, sv2, su2, op, outdated', Lost(p)', ws')
  BY <1>2, <1>7, <1>8, CallMoves
<1>10. Sound(p)'
  BY <1>1, <1>5, <1>9 DEF Sound, cp, w, su2, sv2
<1> QED
  BY <1>4, <1>10


\* Steps of the call that write the record.
LEMMA RecordIsSound ==
    ASSUME Domains, \A q \in Processes : Sound(q), NEW p \in Processes,
           Begin(p) \/ Checkpoint(p) \/ ApplyEnds(p) \/ Confirm(p) \/ RecordFails(p)
    PROVE  \A q \in Processes : Sound(q)'
<1> DEFINE su == undo[<<p, "self">>]  op == undo[<<p, "operator">>]  t == Lost(p)  w == wrote[p]  sv2 == saved'[p]
<1>1. UNCHANGED <<ws, touched, spoiled, wrote, undo, outdated>>
  BY DEF Begin, Checkpoint, ApplyEnds, Confirm, RecordFails, transactionVars, marks
<1>2. /\ \E place : at' = [at EXCEPT ![p] = place]
      /\ \E record : saved' = [saved EXCEPT ![p] = record]
      /\ checkpoint' = checkpoint \/ checkpoint' = [checkpoint EXCEPT ![p] = [x \in DOMAIN edits[p] |-> ws[x]]]
  BY DEF Begin, Checkpoint, ApplyEnds, Confirm, RecordFails, Goes, Persists, transactionVars
<1>3. ASSUME NEW q \in Processes \ {p} PROVE Sound(q)'
  <2>1. Same(q)
    BY <1>1, <1>2 DEF Same, Domains
  <2> QED
    BY <1>1, <2>1, FilesStay, BystanderStays
<1>4. Fits(p, at[p], checkpoint[p], w, saved[p], su, op, outdated, t, ws) /\ Lost(p)' = t
  BY <1>1 DEF Sound, Lost
<1>5. ~Recorded(Record("prepared", w)) /\ Record("prepared", w).stage \notin Undone \cup {"confirmed"}
  BY UndoRecords DEF Recorded, Undone
<1>6. Unreadable.stage \notin Undone \cup {"confirmed"} /\ ~Recorded(Unreadable)
  BY UndoRecords DEF None, Undone
<1> HIDE DEF su, op, t, w, sv2
<1>7. CASE Begin(p)
  <2>1. at[p] = "leased" /\ at'[p] = "begun" /\ checkpoint' = checkpoint /\ sv2 = Record("prepared", w)
    BY <1>7 DEF Begin, Goes, Persists, transactionVars, Domains, w, sv2
  <2>2. Fits(p, "leased", checkpoint[p], w, sv2, su, op, outdated, t, ws)
    BY <1>4, <1>5, <2>1, RecordMoves
  <2>3. {"leased", "begun"} \subseteq Early /\ {"leased", "begun"} \cap ((Holding \ Early) \cup Undoing) = {}
    BY DEF Early, Waiting, Undoing
  <2>4. ~su.on
    BY <2>2, <2>3 DEF Fits, Course
  <2>5. Fits(p, "begun", checkpoint[p], w, sv2, su, op, outdated, t, ws)
    BY <2>2, <2>3, <2>4, CallMoves
  <2> QED
    BY <1>1, <1>3, <1>4, <2>1, <2>5 DEF Sound, su, op, w, sv2
<1>8. CASE Checkpoint(p)
  <2> DEFINE cp == [x \in DOMAIN edits[p] |-> ws[x]]
  <2>1. at[p] = "begun" /\ at'[p] = "applying" /\ checkpoint'[p] = cp /\ sv2 = Record("checkpointed", w)
    BY <1>8 DEF Checkpoint, Goes, Persists, Domains, w, sv2
  <2>2. ~op.on /\ ~su.on /\ w = Nothing
    BY <1>4, <2>1 DEF Fits, Course, Early, Undoing
  <2>3. sv2.stage \notin Undone \cup {"confirmed"} /\ Recorded(sv2)
    BY <2>1, UndoRecords DEF Undone, Recorded, None
  <2>4. DOMAIN cp = DOMAIN edits[p] /\ \A x \in Mine(cp, t) : ws[x] = cp[x]
    BY DEF Mine
  <2>5. DOMAIN w = {}
    BY <2>2, UndoRecords
  <2> HIDE DEF cp
  <2>6. Course(p, "applying", cp, w, sv2, su, op)
    BY <1>4, <2>2, <2>3, <2>4, <2>5 DEF Fits, Course, Early, Undoing, Waiting
  <2>7. Fits(p, "applying", cp, w, sv2, su, op, outdated, t, ws)
    BY <2>2, <2>3, <2>4, <2>5, <2>6 DEF Fits, Contents, Progress, Result, Undoing
  <2> QED
    BY <1>1, <1>3, <1>4, <2>1, <2>7 DEF Sound, su, op, w, sv2
<1>9. CASE ApplyEnds(p)
  <2>1. at[p] = "applying" /\ at'[p] = "applied" /\ checkpoint' = checkpoint /\ ToApply(p) = {} /\ sv2 = Record("applied", w)
    BY <1>9 DEF ApplyEnds, Goes, Persists, transactionVars, Domains, w, sv2
  <2>2. Course(p, "applying", checkpoint[p], w, saved[p], su, op) /\ DOMAIN w = DOMAIN edits[p]
    BY <1>4, <2>1 DEF Fits, ToApply, Course, w
  <2>3. sv2.stage \notin Undone \cup {"confirmed"}
    BY <2>1, UndoRecords DEF Undone
  <2>4. Course(p, "applied", checkpoint[p], w, sv2, su, op)
    BY <2>2, <2>3 DEF Course, Early, Undoing, Waiting, Holding
  <2>5. Fits(p, "applied", checkpoint[p], w, sv2, su, op, outdated, t, ws)
    BY <1>4, <2>1, <2>3, <2>4 DEF Fits, Contents, Progress, Result, Undoing
  <2> QED
    BY <1>1, <1>3, <1>4, <2>1, <2>5 DEF Sound, su, op, w, sv2
<1>10. CASE Confirm(p) \/ RecordFails(p)
  <2>1. /\ at[p] \in {"applying", "confirming"} /\ at'[p] \in {"releasing", "catching"} /\ checkpoint' = checkpoint
        /\ \/ sv2 = saved[p] \/ sv2 = Unreadable
           \/ at[p] = "confirming" /\ sv2 = Record("confirmed", w)
    BY <1>10 DEF Confirm, RecordFails, Goes, Persists, transactionVars, Domains, w, sv2
  <2>2. at[p] \in Holding \ Early /\ at[p] \in Open \ Undoing
    BY <2>1 DEF Holding, Early, Waiting, Open, Undoing
  <2>3. at'[p] \in Holding /\ at'[p] \notin Early \cup Undoing \cup {"applying", "applied", "confirming", "undoing", "rejecting"}
        /\ at'[p] \notin Open
    BY <2>1 DEF Holding, Early, Waiting, Undoing, Open
  <2>4. ~su.on
    BY <1>4, <2>2 DEF Fits, Course
  <2>5. Fits(p, at'[p], checkpoint[p], w, saved[p], su, op, outdated, t, ws)
    <3> DEFINE place2 == at'[p]
    <3>1. /\ place2 \notin Early \cup Undoing \cup {"applying", "applied", "confirming", "undoing", "rejecting"}
          /\ at[p] \in Holding \ Early
      BY <2>2, <2>3
    <3> HIDE DEF place2
    <3>2. Fits(p, place2, checkpoint[p], w, saved[p], su, op, outdated, t, ws)
      BY <1>4, <2>4, <3>1, CallMoves
    <3> QED
      BY <3>2 DEF place2
  <2>6. at[p] = "confirming" => \A x \in Mine(checkpoint[p], t) : ws[x] = Content(p, x)
    BY <1>4 DEF Fits, Course, Progress, Mine
  <2>7. Recorded(Record("confirmed", w)) /\ Record("confirmed", w).stage = "confirmed" /\ "confirmed" \notin Undone
    BY UndoRecords DEF Recorded, None, Undone
  <2>8. DOMAIN checkpoint[p] = DOMAIN edits[p]
    BY <1>4, <2>2 DEF Fits, Course
  <2>9. Fits(p, at'[p], checkpoint[p], w, sv2, su, op, outdated, t, ws)
    <3>1. CASE sv2 = saved[p]
      BY <2>5, <3>1
    <3>2. CASE sv2 = Unreadable
      BY <1>6, <2>5, <3>2, RecordMoves
    <3>3. CASE at[p] = "confirming" /\ sv2 = Record("confirmed", w)
      BY <2>3, <2>5, <2>6, <2>7, <2>8, <3>3, RecordMoves
    <3> QED
      BY <2>1, <3>1, <3>2, <3>3
  <2> QED
    BY <1>1, <1>3, <1>4, <2>1, <2>9 DEF Sound, su, op, w, sv2
<1> QED
  BY <1>7, <1>8, <1>9, <1>10

\* A rollback that starts from the record finds the files that it does not list as they
\* were, unless the record is outdated.
LEMMA OperatorIsSound ==
    ASSUME Domains, \A q \in Processes : Sound(q), NEW p \in Processes, OperatorRollsBack(p)
    PROVE  \A q \in Processes : Sound(q)'
<1> DEFINE su == undo[<<p, "self">>]  op == undo[<<p, "operator">>]  op2 == Rollback(saved[p].applied)
           cp == checkpoint[p]  w == wrote[p]  sv == saved[p]  t == Lost(p)
<1>1. UNCHANGED <<ws, touched, spoiled, wrote, checkpoint, saved, at>>
      /\ Recorded(sv) /\ undo' = [undo EXCEPT ![<<p, "operator">>] = op2]
      /\ outdated' = outdated \cup (IF sv.applied # w \/ at[p] = "applying" THEN {p} ELSE {})
  BY DEF OperatorRollsBack, transactionVars, Recorded
<1>2. ASSUME NEW q \in Processes \ {p} PROVE Sound(q)'
  <2>1. undo'[<<q, "self">>] = undo[<<q, "self">>] /\ undo'[<<q, "operator">>] = undo[<<q, "operator">>]
    BY <1>1, UndoRecords DEF Domains
  <2>2. Same(q)
    BY <1>1, <2>1 DEF Same
  <2> QED
    BY <1>1, <2>2, FilesStay, BystanderStays
<1>3. undo'[<<p, "self">>] = su /\ undo'[<<p, "operator">>] = op2 /\ Lost(p)' = t
  BY <1>1, UndoRecords DEF Domains, Lost
<1>4. Fits(p, at[p], cp, w, sv, su, op, outdated, t, ws)
  BY DEF Sound
<1>5. op2.on /\ op2.applied = sv.applied /\ op2.todo = DOMAIN sv.applied /\ op2.path = 0
  BY UndoRecords
<1> HIDE DEF su, op, op2, cp, w, sv, t
<1>6. Course(p, at[p], cp, w, sv, su, op2)
  BY <1>1, <1>4 DEF Fits, Course
<1>7. ASSUME p \notin outdated' PROVE at[p] # "applying" /\ Restoring(op2, cp, w, t, ws)
  <2>1. at[p] # "applying" /\ sv.applied = w
    BY <1>1, <1>7
  <2>2. \A x \in Mine(cp, t) \ DOMAIN w : ws[x] = cp[x]
    BY <1>4 DEF Fits, Contents
  <2> QED
    BY <1>5, <2>1, <2>2 DEF Restoring
<1>8. Result(p, at[p], cp, w, sv, su, op2, outdated', t, ws)
  BY <1>1, <1>4, <1>5, <1>7 DEF Fits, Result
<1>9. Fits(p, at[p], cp, w, sv, su, op2, outdated', t, ws)
  BY <1>4, <1>6, <1>8 DEF Fits
<1>10. Sound(p)'
  BY <1>1, <1>3, <1>9 DEF Sound, cp, w, sv
<1> QED
  BY <1>2, <1>10

\* A file of the batch is written, and the others are told.
LEMMA EditIsSound ==
    ASSUME Domains, \A q \in Processes : Sound(q), NEW p \in Processes, ApplyEdit(p)
    PROVE  \A q \in Processes : Sound(q)'
<1> DEFINE su == undo[<<p, "self">>]  op == undo[<<p, "operator">>]  x == NextEdit(p)  w == wrote[p]  t == Lost(p)
           cp == checkpoint[p]  sv == saved[p]  w2 == [y \in DOMAIN w \union {x} |-> Content(p, y)]
<1>1. /\ UNCHANGED <<at, checkpoint, saved, undo, outdated, spoiled>> /\ at[p] = "applying" /\ ToApply(p) # {}
      /\ ws' = [ws EXCEPT ![x] = Content(p, x)] /\ wrote' = [wrote EXCEPT ![p] = w2]
      /\ Touches(Processes \ {p}, x)
  BY DEF ApplyEdit
<1>2. x \in DOMAIN edits[p] \ DOMAIN w /\ x \in Paths
  BY <1>1, NextEditIsLeft, WorkspaceAssumption DEF ToApply
<1>3. ASSUME NEW q \in Processes \ {p} PROVE Sound(q)'
  <2>1. Same(q)
    BY <1>1 DEF Same, Domains
  <2>2. x \in DOMAIN checkpoint[q] => x \in Lost(q)'
    BY <1>1, MarksGrow DEF Lost
  <2>3. touched[q] \subseteq touched'[q] /\ spoiled[q] \subseteq spoiled'[q]
    BY <1>1, MarksGrow
  <2> HIDE DEF x
  <2>4. FilesSpare(q)
    BY <1>1, <2>2, <2>3, FilesTold
  <2> QED
    BY <2>1, <2>4, BystanderStays
<1>4. Lost(p)' = t /\ wrote'[p] = w2
  BY <1>1, MarksGrow DEF Domains, Lost
<1>5. Fits(p, "applying", cp, w, sv, su, op, outdated, t, ws)
  BY <1>1 DEF Sound
<1>6. DOMAIN w2 = DOMAIN w \cup {x} /\ w2 = [y \in DOMAIN w2 |-> Content(p, y)]
  OBVIOUS
<1>7. ws'[x] = Content(p, x) /\ \A y \in Mine(cp, t) \ {x} : ws'[y] = ws[y]
  <2>1. DOMAIN cp \subseteq Paths
    BY <1>5, WorkspaceAssumption DEF Fits, Course
  <2> HIDE DEF x, cp, t
  <2> QED
    BY <1>1, <1>2, <2>1 DEF Mine, Domains
<1> HIDE DEF su, op, x, w, t, w2, cp, sv
<1>8. Course(p, "applying", cp, w2, sv, su, op)
  BY <1>2, <1>5, <1>6 DEF Fits, Course, Early, Waiting
<1>9. Contents(p, cp, w2, t, ws')
  BY <1>5, <1>6, <1>7 DEF Fits, Contents
<1>10. Progress(p, "applying", cp, w2, su, t, ws')
  BY <1>5, <1>6, <1>7 DEF Fits, Progress, Undoing
<1>11. sv.stage # "confirmed"
  BY <1>5 DEF Fits, Course, Open
<1>12. Result(p, "applying", cp, w2, sv, su, op, outdated, t, ws')
  BY <1>5, <1>11 DEF Fits, Result
<1>13. Sound(p)'
  BY <1>1, <1>4, <1>8, <1>9, <1>10, <1>12 DEF Sound, Fits, su, op, cp, sv
<1> QED
  BY <1>3, <1>13

\* All are told of what the user does.
LEMMA UserIsSound ==
    ASSUME Domains, \A q \in Processes : Sound(q), NEW x \in Paths, UserEdits(x)
    PROVE  \A q \in Processes : Sound(q)'
<1>1. UNCHANGED <<at, checkpoint, wrote, saved, undo, outdated, spoiled>> /\ Touches(Processes, x)
      /\ \E text : ws' = [ws EXCEPT ![x] = text]
  BY DEF UserEdits, transactionVars
<1>2. ASSUME NEW q \in Processes PROVE Same(q) /\ FilesSpare(q)
  <2>1. x \in DOMAIN checkpoint[q] => x \in Lost(q)'
    BY <1>1, MarksGrow DEF Lost
  <2>2. touched[q] \subseteq touched'[q] /\ spoiled[q] \subseteq spoiled'[q]
    BY <1>1, MarksGrow
  <2> QED
    BY <1>1, <2>1, <2>2, FilesTold DEF Same
<1> QED
  BY <1>2, BystanderStays

\* The owner of a rollback, and the fields of the others.
LEMMA RollbackOwner ==
    ASSUME NEW r \in Rollbacks
    PROVE  /\ r[1] \in Processes /\ r \in {<<r[1], "self">>, <<r[1], "operator">>}
           /\ r = <<r[1], "self">> => r[2] = "self"
           /\ r = <<r[1], "operator">> => r[2] = "operator"
           /\ \A q \in Processes \ {r[1]} : r # <<q, "self">> /\ r # <<q, "operator">>
BY DEF Rollbacks

\* A rollback that goes on and keeps to what it is to restore.
LEMMA GoingOn ==
    ASSUME Domains, NEW r \in Rollbacks, NEW u, NEW t, NEW f,
           undo[r].on, u.on, undo'[r] = u, \A q \in Rollbacks \ {r} : undo'[q] = undo[q],
           Fits(r[1], at[r[1]], checkpoint[r[1]], wrote[r[1]], saved[r[1]],
                undo[<<r[1], "self">>], undo[<<r[1], "operator">>], outdated, t, f),
           Restoring(undo[r], checkpoint[r[1]], wrote[r[1]], t, f) => Restoring(u, checkpoint[r[1]], wrote[r[1]], t, f)
    PROVE  Fits(r[1], at[r[1]], checkpoint[r[1]], wrote[r[1]], saved[r[1]],
                undo'[<<r[1], "self">>], undo'[<<r[1], "operator">>], outdated, t, f)
<1> DEFINE p == r[1]  su == undo[<<p, "self">>]  op == undo[<<p, "operator">>]
           su2 == undo'[<<p, "self">>]  op2 == undo'[<<p, "operator">>]
<1>1. \/ undo[r] = su /\ su2 = u /\ op2 = op
      \/ undo[r] = op /\ op2 = u /\ su2 = su
  BY RollbackOwner, UndoRecords
<1> HIDE DEF p, su, op, su2, op2
<1>2. Fits(p, at[p], checkpoint[p], wrote[p], saved[p], su, op, outdated, t, f)
  BY DEF p, su, op
<1>3. Restoring(undo[r], checkpoint[p], wrote[p], t, f) => Restoring(u, checkpoint[p], wrote[p], t, f)
  BY DEF p
<1>4. CASE undo[r] = su /\ su2 = u /\ op2 = op
  BY <1>2, <1>3, <1>4, RollbackGoesOn DEF p, su2, op2
<1>5. CASE undo[r] = op /\ op2 = u /\ su2 = su
  BY <1>2, <1>3, <1>5, RollbackGoesOn DEF p, su2, op2
<1> QED
  BY <1>1, <1>4, <1>5

\* A rollback reads the next file.
LEMMA ReadIsSound ==
    ASSUME Domains, UndoInv, \A q \in Processes : Sound(q), NEW r \in Rollbacks, RollbackReads(r)
    PROVE  \A q \in Processes : Sound(q)'
<1> DEFINE p == r[1]  u == undo[r]  x == Least(u.todo)  t == Lost(p)
           v == IF Drifted(ws[x], u.applied[x])
                THEN [u EXCEPT !.todo = u.todo \ {x}, !.conflict = TRUE]
                ELSE [u EXCEPT !.path = x, !.seen = ws[x]]
<1>1. /\ UNCHANGED <<ws, touched, spoiled, at, checkpoint, wrote, saved, outdated>>
      /\ u.on /\ u.path = 0 /\ u.todo # {} /\ undo' = [undo EXCEPT ![r] = v]
  BY DEF RollbackReads, transactionVars, marks
<1>2. DOMAIN u = UndoFields /\ u.todo \in SUBSET Nat
  BY <1>1, WorkspaceAssumption DEF UndoInv, Sparing, Written
<1>3. x \in u.todo
  BY <1>1, <1>2, LeastIsMember
<1>4. undo'[r] = v /\ \A q \in Rollbacks \ {r} : undo'[q] = undo[q]
  BY <1>1 DEF Domains
<1>5. ASSUME NEW q \in Processes \ {p} PROVE Sound(q)'
  <2>1. Same(q)
    BY <1>1, <1>4, RollbackOwner, UndoRecords DEF Same
  <2> QED
    BY <1>1, <2>1, FilesStay, BystanderStays
<1>6. /\ v.on = u.on /\ v.applied = u.applied
      /\ \/ Drifted(ws[x], u.applied[x]) /\ v.todo = u.todo \ {x} /\ v.path = u.path /\ u.path = 0
         \/ v.todo = u.todo /\ v.path = x
  BY <1>1, <1>2 DEF UndoFields
<1> HIDE DEF v
<1>7. p \in Processes /\ Lost(p)' = t
      /\ Fits(p, at[p], checkpoint[p], wrote[p], saved[p], undo[<<p, "self">>], undo[<<p, "operator">>], outdated, t, ws)
  BY <1>1, RollbackOwner DEF Sound, Lost
<1>8. Restoring(u, checkpoint[p], wrote[p], t, ws) => Restoring(v, checkpoint[p], wrote[p], t, ws)
  <2>1. Contents(p, checkpoint[p], wrote[p], t, ws) /\ wrote[p] = [y \in DOMAIN wrote[p] |-> Content(p, y)]
    BY <1>7 DEF Fits, Course
  <2> HIDE DEF p, u, x, t
  <2> QED
    BY <1>3, <1>6, <1>7, <2>1, RestoringReads
<1>9. Fits(p, at[p], checkpoint[p], wrote[p], saved[p], undo'[<<p, "self">>], undo'[<<p, "operator">>], outdated, t, ws)
  <2> HIDE DEF x, t
  <2> QED
    BY <1>1, <1>4, <1>6, <1>7, <1>8, GoingOn
<1>10. Sound(p)'
  BY <1>1, <1>7, <1>9 DEF Sound
<1> QED
  BY <1>5, <1>10

\* A rollback restores a file, or means to: the process is told when an operator does it
\* meanwhile, and when it goes wrong.
LEMMA RestoreIsSound ==
    ASSUME Domains, UndoInv, \A q \in Processes : Sound(q), NEW r \in Rollbacks, RollbackRestores(r) \/ RestoreGoesWrong(r)
    PROVE  \A q \in Processes : Sound(q)'
<1> DEFINE p == r[1]  u == undo[r]  x == u.path  cp == checkpoint[p]
           v == [[[u EXCEPT !.todo = u.todo \ {x}] EXCEPT !.path = 0] EXCEPT !.seen = None]
           su == undo[<<p, "self">>]  op == undo[<<p, "operator">>]  t == Lost(p)  t2 == Lost(p)'
           quiet == r[2] = "self" \/ ~Running(p)
<1>1. /\ UNCHANGED <<at, checkpoint, wrote, saved, outdated>> /\ u.on
      /\ \E content : ws' = [ws EXCEPT ![x] = content]
      /\ Touches(Processes \ (IF quiet THEN {p} ELSE {}), x)
      /\ \/ ws' = [ws EXCEPT ![x] = cp[x]] /\ spoiled' = spoiled
         \/ Spoils(p, x)
  BY DEF RollbackRestores, RestoreGoesWrong, Unaware, transactionVars
<1>2. undo' = [undo EXCEPT ![r].todo = @ \ {x}, ![r].path = 0, ![r].seen = None]
  BY DEF RollbackRestores, RestoreGoesWrong, IsRestored
<1>3. undo'[r] = v /\ \A q \in Rollbacks \ {r} : undo'[q] = undo[q]
  BY <1>2 DEF Domains
<1>4. DOMAIN u = UndoFields
  BY <1>1 DEF UndoInv, Sparing
<1>5. p \in Processes /\ Fits(p, at[p], cp, wrote[p], saved[p], su, op, outdated, t, ws)
  BY RollbackOwner DEF Sound
<1>6. v.on = u.on /\ v.applied = u.applied /\ v.todo = u.todo \ {x} /\ v.path = 0
  <2> HIDE DEF x
  <2> QED
    BY <1>4 DEF UndoFields
<1> HIDE DEF v
<1>7. ASSUME NEW q \in Processes PROVE touched[q] \subseteq touched'[q] /\ spoiled[q] \subseteq spoiled'[q]
  <2> HIDE DEF p, x, quiet
  <2> QED
    BY <1>1, MarksGrow
<1>8. ASSUME NEW q \in Processes, q # p \/ ~quiet \/ Spoils(p, x) PROVE FilesSpare(q)
  <2>1. x \in DOMAIN checkpoint[q] => x \in Lost(q)'
    <3>1. CASE q # p \/ ~quiet
      <4>1. q \in Processes \ (IF quiet THEN {p} ELSE {})
        BY <3>1
      <4> HIDE DEF p, x, quiet
      <4> QED
        BY <1>1, <4>1, MarksGrow DEF Lost
    <3>2. CASE q = p /\ Spoils(p, x)
      <4> HIDE DEF p, x, quiet
      <4> QED
        BY <1>1, <3>2, MarksGrow DEF Lost
    <3> QED
      BY <1>8, <3>1, <3>2
  <2> HIDE DEF p, x, quiet, cp
  <2> QED
    BY <1>1, <1>7, <2>1, FilesTold
<1>9. ASSUME NEW q \in Processes \ {p} PROVE Sound(q)'
  <2>1. Same(q)
    BY <1>1, <1>3, RollbackOwner, UndoRecords DEF Same
  <2> QED
    BY <1>8, <2>1, BystanderStays
<1>10. x \in Mine(cp, t2) => ws'[x] = cp[x]
  <2>1. CASE Spoils(p, x)
    <3>1. x \in spoiled'[p]
      BY <1>5, <2>1 DEF Spoils, Domains
    <3> QED
      BY <3>1 DEF Mine, Lost
  <2>2. CASE ws' = [ws EXCEPT ![x] = cp[x]]
    <3>1. DOMAIN cp \subseteq Paths
      BY <1>5, WorkspaceAssumption DEF Fits, Course
    <3> HIDE DEF x, cp
    <3> QED
      BY <2>2, <3>1 DEF Mine, Domains
  <2> QED
    BY <1>1, <2>1, <2>2
\* With what the files hold now, but before the rollback goes on.
<1>11. Fits(p, at[p], cp, wrote[p], saved[p], su, op, outdated, t2, ws')
  <2>1. CASE quiet /\ ~Spoils(p, x)
    <3>1. t2 = t /\ ws' = [ws EXCEPT ![x] = cp[x]]
      BY <1>1, <1>5, <2>1 DEF Touches, Domains, Lost
    <3>2. \A y \in Mine(cp, t) : ws'[y] = ws[y] \/ ws'[y] = cp[y]
      <4>1. DOMAIN cp \subseteq Paths
        BY <1>5, WorkspaceAssumption DEF Fits, Course
      <4> HIDE DEF x, cp
      <4> QED
        BY <3>1, <4>1 DEF Mine, Domains
    <3>3. Course(p, at[p], cp, wrote[p], saved[p], su, op)
      BY <1>5 DEF Fits
    <3>4. at[p] \notin {"applying", "applied", "confirming"} /\ (saved[p].stage = "confirmed" => op.on \/ su.on)
      <4>1. CASE r = <<p, "self">>
        <5>1. at[p] \in Undoing /\ su.on
          BY <1>1, <3>3, <4>1 DEF Course
        <5> QED
          BY <5>1 DEF Undoing
      <4>2. CASE r = <<p, "operator">>
        BY <1>1, <2>1, <4>2 DEF Running
      <4> QED
        BY <4>1, <4>2, RollbackOwner
    <3> HIDE DEF p, u, x, cp, su, op, t, t2
    <3> QED
      BY <1>5, <3>1, <3>2, <3>4, FitsRestored
  <2>2. CASE ~quiet \/ Spoils(p, x)
    <3>1. Spared(cp, t, ws, t2, ws')
      BY <1>5, <1>8, <2>2 DEF FilesSpare
    <3> HIDE DEF p, u, su, op, t, t2, cp, x
    <3> QED
      BY <1>5, <3>1, FitsSpared
  <2> QED
    BY <2>1, <2>2
<1>12. Restoring(u, cp, wrote[p], t2, ws') => Restoring(v, cp, wrote[p], t2, ws')
  <2> HIDE DEF p, u, x, cp, t2
  <2> QED
    BY <1>6, <1>10, RestoringRestores
<1>13. Fits(p, at[p], cp, wrote[p], saved[p], undo'[<<p, "self">>], undo'[<<p, "operator">>], outdated, t2, ws')
  <2> HIDE DEF x, t2
  <2> QED
    BY <1>1, <1>3, <1>6, <1>11, <1>12, GoingOn
<1>14. Sound(p)'
  BY <1>1, <1>13 DEF Sound
<1> QED
  BY <1>9, <1>14

\* A rollback is over, and its record says so if it can be written.
LEMMA EndIsSound ==
    ASSUME Domains, \A q \in Processes : Sound(q), NEW r \in Rollbacks, RollbackEnds(r) \/ RollbackFails(r)
    PROVE  \A q \in Processes : Sound(q)'
<1> DEFINE p == r[1]  u == undo[r]  su == undo[<<p, "self">>]  op == undo[<<p, "operator">>]  cp == checkpoint[p]
           w == wrote[p]  sv == saved[p]  sv2 == saved'[p]  t == Lost(p)'  late == outdated'
           su2 == undo'[<<p, "self">>]  op2 == undo'[<<p, "operator">>]
<1>1. /\ UNCHANGED <<checkpoint, wrote>> /\ u.on /\ undo' = [undo EXCEPT ![r] = NoUndo]
      /\ saved' = saved \/ \E record : saved' = [saved EXCEPT ![p] = record]
      /\ outdated \subseteq outdated'
  BY DEF RollbackEnds, RollbackFails, RollbackReturns, Halfway, transactionVars, marks
<1>2. \/ r[2] = "operator" /\ at' = at
      \/ r[2] = "self" /\ \E place :
            /\ at' = [at EXCEPT ![p] = place]
            /\ \/ at[p] \in {"undoing", "rejecting"} /\ place \in {"catching", "releasing"}
               \/ at[p] = "undoing again" /\ place = "releasing after error"
               \/ at[p] = "undoing late" /\ place = "releasing late"
  BY DEF RollbackEnds, RollbackFails, RollbackReturns, Goes
<1>3. undo'[r] = NoUndo /\ \A q \in Rollbacks \ {r} : undo'[q] = undo[q]
  BY <1>1 DEF Domains
<1>4. p \in Processes
  BY RollbackOwner
<1>5. RolledBack(r).stage \in Undone /\ "confirmed" \notin Undone
  BY UndoRecords DEF RolledBack, Undone
<1>6. sv2.stage = "confirmed" => p \in late
  <2>1. CASE RollbackEnds(r)
    BY <1>4, <1>5, <2>1 DEF RollbackEnds, Domains
  <2>2. CASE RollbackFails(r)
    BY <2>2 DEF RollbackFails, Halfway
  <2> QED
    BY <2>1, <2>2
<1>7. \/ sv2 = sv \/ sv2 = Unreadable
      \/ sv2.stage \in Undone /\ u.todo = {} /\ UNCHANGED <<ws, touched, spoiled>>
  <2>1. CASE RollbackEnds(r)
    BY <1>4, <1>5, <2>1 DEF RollbackEnds, Domains, marks
  <2>2. CASE RollbackFails(r)
    BY <1>4, <1>5, <2>2 DEF RollbackFails, Domains
  <2> QED
    BY <2>1, <2>2
<1>8. \A q \in Processes : FilesSpare(q)
  <2>1. CASE UNCHANGED <<ws, touched, spoiled>>
    BY <2>1, FilesStay
  <2>2. CASE \E x : Tears(p, x)
    BY <1>4, <2>2, FilesTorn
  <2> QED
    BY <2>1, <2>2 DEF RollbackEnds, RollbackFails, marks
<1>9. ASSUME NEW q \in Processes \ {p} PROVE Sound(q)'
  <2>1. at'[q] = at[q] /\ saved'[q] = saved[q]
    BY <1>1, <1>2 DEF Domains
  <2>2. undo'[<<q, "self">>] = undo[<<q, "self">>] /\ undo'[<<q, "operator">>] = undo[<<q, "operator">>]
    BY <1>3, RollbackOwner, UndoRecords
  <2>3. Same(q)
    BY <1>1, <2>1, <2>2 DEF Same
  <2> QED
    BY <1>8, <2>3, BystanderStays
<1>10. Fits(p, at[p], cp, w, sv, su, op, late, t, ws')
  <2>1. Fits(p, at[p], cp, w, sv, su, op, outdated, Lost(p), ws) /\ Spared(cp, Lost(p), ws, t, ws')
    BY <1>4, <1>8 DEF Sound, FilesSpare
  <2> HIDE DEF p, cp, w, sv, su, op, t
  <2> QED
    BY <1>1, <2>1, FitsSpared
<1>11. \/ u = su /\ su2 = NoUndo /\ op2 = op /\ r[2] = "self"
       \/ u = op /\ op2 = NoUndo /\ su2 = su /\ r[2] = "operator"
  BY <1>3, <1>4, RollbackOwner, UndoRecords
<1>12. UNCHANGED <<ws, touched, spoiled>> => t = Lost(p)
  BY DEF Lost
<1>13. r[2] = "self" => \E place : at'[p] = place
            /\ \/ at[p] \in {"undoing", "rejecting"} /\ place \in {"catching", "releasing"}
               \/ at[p] = "undoing again" /\ place = "releasing after error"
               \/ at[p] = "undoing late" /\ place = "releasing late"
  BY <1>2, <1>4 DEF Domains
<1>14. r[2] = "operator" => at'[p] = at[p]
  BY <1>2
<1> HIDE DEF p, u, su, op, cp, w, sv, sv2, t, late, su2, op2
<1>15. Fits(p, at[p], cp, w, sv2, su, op, late, t, ws')
  <2>1. CASE sv2 = sv
    BY <1>10, <2>1
  <2>2. CASE sv2 = Unreadable
    <3>1. ~Recorded(sv2) /\ sv2.stage \notin Undone \cup {"confirmed"}
      BY <2>2, UndoRecords DEF None, Undone
    <3> QED
      BY <1>10, <3>1, RecordMoves
  <2>3. CASE sv2.stage \in Undone /\ u.todo = {}
    <3>1. at[p] \notin Early /\ DOMAIN cp = DOMAIN edits[p]
      BY <1>1, <1>10, <1>11 DEF Fits, Course, Early, Waiting, Undoing
    <3>2. p \notin late => at[p] # "applying" /\ \A x \in Mine(cp, t) : ws'[x] = cp[x]
      <4>1. CASE u = su
        BY <1>1, <1>10, <2>3, <4>1 DEF Fits, Course, Progress, Restoring, Undoing
      <4>2. CASE u = op
        BY <1>1, <1>10, <2>3, <4>2 DEF Fits, Result, Restoring
      <4> QED
        BY <1>11, <4>1, <4>2
    <3> QED
      BY <1>5, <1>10, <2>3, <3>1, <3>2, RecordMoves
  <2> QED
    BY <1>7, <2>1, <2>2, <2>3
<1>16. Fits(p, at'[p], cp, w, sv2, su2, op2, late, t, ws')
  <2>1. CASE u = su /\ su2 = NoUndo /\ op2 = op /\ r[2] = "self"
    <3>1. PICK place : at'[p] = place
            /\ \/ at[p] \in {"undoing", "rejecting"} /\ place \in {"catching", "releasing"}
               \/ at[p] = "undoing again" /\ place = "releasing after error"
               \/ at[p] = "undoing late" /\ place = "releasing late"
      BY <1>13, <2>1
    <3>2. place \notin Early \cup Undoing \cup {"applying", "applied", "confirming", "undoing", "rejecting"}
      BY <3>1 DEF Early, Waiting, Undoing
    <3>3. su.on /\ ~su2.on
      BY <1>1, <2>1, UndoRecords
    <3>4. Fits(p, place, cp, w, sv2, su2, op, late, t, ws')
      BY <1>6, <1>15, <3>2, <3>3, CallMoves
    <3> QED
      BY <2>1, <3>1, <3>4
  <2>2. CASE u = op /\ op2 = NoUndo /\ su2 = su /\ r[2] = "operator"
    <3>1. Fits(p, at[p], cp, w, sv2, su, op2, late, t, ws')
      BY <1>6, <1>15, <2>2, UndoRecords, OperatorStops
    <3> QED
      BY <1>14, <2>2, <3>1
  <2> QED
    BY <1>11, <2>1, <2>2
<1>17. Sound(p)'
  BY <1>1, <1>16 DEF Sound, cp, w, sv2, su2, op2, late, t
<1> QED
  BY <1>9, <1>17 DEF p

\* What the record of each transaction says fits its files, while no lease was stolen.
LEMMA TransactionsFit == WorkspaceSpec => []AtomicInv
<1>1. WorkspaceInit => AtomicInv
  <2> SUFFICES ASSUME WorkspaceInit, NEW p \in Processes PROVE Sound(p) /\ DOMAIN checkpoint = Processes
                      /\ DOMAIN touched = Processes /\ DOMAIN spoiled = Processes /\ DOMAIN ws = Paths
    BY DEF AtomicInv, WorkspaceInit
  <2>1. /\ at[p] = "idle" /\ wrote[p] = Nothing /\ checkpoint[p] = Nothing /\ saved[p] = Unreadable
        /\ undo[<<p, "self">>] = NoUndo /\ undo[<<p, "operator">>] = NoUndo
        /\ DOMAIN checkpoint = Processes /\ DOMAIN touched = Processes /\ DOMAIN spoiled = Processes /\ DOMAIN ws = Paths
    BY UndoRecords DEF WorkspaceInit, Unreadable
  <2>2. ~Recorded(Unreadable) /\ Unreadable.stage = None /\ None \notin Undone \cup {"confirmed"}
    BY UndoRecords DEF None, Undone
  <2>3. Nothing = [x \in DOMAIN Nothing |-> Content(p, x)] /\ DOMAIN Nothing \subseteq DOMAIN edits[p]
    BY DEF Nothing
  <2>4. "idle" \in Early /\ "idle" \notin Holding \cup Undoing \cup Open
    BY DEF Early, Waiting, Holding, Undoing, Open
  <2>5. Course(p, "idle", Nothing, Nothing, Unreadable, NoUndo, NoUndo)
    BY <2>2, <2>3, <2>4, UndoRecords DEF Course
  <2>6. \A t : Mine(Nothing, t) = {}
    BY UndoRecords DEF Mine
  <2>7. Fits(p, "idle", Nothing, Nothing, Unreadable, NoUndo, NoUndo, outdated, Lost(p), ws)
    BY <2>2, <2>4, <2>5, <2>6, UndoRecords DEF Fits, Contents, Progress, Result
  <2> QED
    BY <2>1, <2>7 DEF Sound
<1>2. LeaseInv /\ UndoInv /\ AtomicInv /\ [WorkspaceNext]_workspaceVars => AtomicInv'
  <2> SUFFICES ASSUME LeaseInv, UndoInv, AtomicInv, [WorkspaceNext]_workspaceVars PROVE AtomicInv'
    OBVIOUS
  <2>d. Domains
    BY DEF Domains, LeaseInv, UndoInv, AtomicInv
  <2>1. CASE UNCHANGED workspaceVars
    <3>1. UNCHANGED <<ws, stolen, at, checkpoint, wrote, saved, undo, touched, outdated, spoiled>>
      BY <2>1 DEF workspaceVars, leaseVars, transactionVars, marks
    <3> QED
      BY <3>1 DEF AtomicInv, Sound, Lost
  <2>2. CASE WorkspaceNext
    <3>1. DOMAIN checkpoint' = Processes /\ DOMAIN touched' = Processes /\ DOMAIN spoiled' = Processes /\ DOMAIN ws' = Paths
      <4>1. checkpoint' = checkpoint \/ \E p, cp : checkpoint' = [checkpoint EXCEPT ![p] = cp]
        BY <2>2 DEF WorkspaceNext, ReadLease, UnlinkStaleLease, CreateLease, WriteLease, AcquireFails, Begin, Checkpoint, StartFails,
             CheckExpected, ApplyEdit, ApplyFails, WriteFails, ApplyEnds, Validate, Confirm, RecordFails, Catch, JournalFails,
             Release, ReleaseRefused, ReleaseUnrecorded, OperatorRollsBack, Crash, RollbackReads, RollbackRestores,
             RestoreGoesWrong, RollbackEnds, RollbackFails, UserEdits, transactionVars
      <4>2. touched' = touched \/ \E others, x : Touches(others, x)
        BY <2>2 DEF WorkspaceNext, ReadLease, UnlinkStaleLease, CreateLease, WriteLease, AcquireFails, Begin, Checkpoint, StartFails,
             CheckExpected, ApplyEdit, ApplyFails, WriteFails, ApplyEnds, Validate, Confirm, RecordFails, Catch, JournalFails,
             Release, ReleaseRefused, ReleaseUnrecorded, OperatorRollsBack, Crash, RollbackReads, RollbackRestores,
             RestoreGoesWrong, RollbackEnds, RollbackFails, UserEdits, marks, Tears
      <4>3. ws' = ws \/ \E x, v : ws' = [ws EXCEPT ![x] = v]
        BY <2>2 DEF WorkspaceNext, ReadLease, UnlinkStaleLease, CreateLease, WriteLease, AcquireFails, Begin, Checkpoint, StartFails,
             CheckExpected, ApplyEdit, ApplyFails, WriteFails, ApplyEnds, Validate, Confirm, RecordFails, Catch, JournalFails,
             Release, ReleaseRefused, ReleaseUnrecorded, OperatorRollsBack, Crash, RollbackReads, RollbackRestores,
             RestoreGoesWrong, RollbackEnds, RollbackFails, UserEdits, Tears
      <4>4. spoiled' = spoiled \/ \E p, x : Spoils(p, x)
        BY <2>2 DEF WorkspaceNext, ReadLease, UnlinkStaleLease, CreateLease, WriteLease, AcquireFails, Begin, Checkpoint, StartFails,
             CheckExpected, ApplyEdit, ApplyFails, WriteFails, ApplyEnds, Validate, Confirm, RecordFails, Catch, JournalFails,
             Release, ReleaseRefused, ReleaseUnrecorded, OperatorRollsBack, Crash, RollbackReads, RollbackRestores,
             RestoreGoesWrong, RollbackEnds, RollbackFails, UserEdits, marks, Tears
      <4> QED
        BY <4>1, <4>2, <4>3, <4>4 DEF AtomicInv, Touches, Spoils
    <3>2. stolen => stolen'
      BY <2>2 DEF WorkspaceNext, ReadLease, UnlinkStaleLease, CreateLease, WriteLease, AcquireFails, Begin, Checkpoint, StartFails,
             CheckExpected, ApplyEdit, ApplyFails, WriteFails, ApplyEnds, Validate, Confirm, RecordFails, Catch, JournalFails,
             Release, ReleaseRefused, ReleaseUnrecorded, OperatorRollsBack, Crash, RollbackReads, RollbackRestores,
             RestoreGoesWrong, RollbackEnds, RollbackFails, UserEdits, leaseVars
    <3>3. ASSUME ~stolen PROVE \A q \in Processes : Sound(q)'
      <4>1. \A q \in Processes : Sound(q)
        BY <3>3 DEF AtomicInv
      <4> QED
        BY <2>2, <2>d, <3>3, <4>1, CallIsSound, CrashIsSound, RecordIsSound, OperatorIsSound, EditIsSound, UserIsSound,
           ReadIsSound, RestoreIsSound, EndIsSound DEF WorkspaceNext
    <3> QED
      BY <3>1, <3>2, <3>3 DEF AtomicInv
  <2> QED
    BY <2>1, <2>2
<1> QED
  BY <1>1, <1>2, LeaseHeld, RollbacksSpare, PTL DEF WorkspaceSpec

\* performMutation and rollback: for any number of processes, files, rollbacks and errors,
\* any batches and wherever processes die, a transaction that the record calls confirmed
\* has all its new content in the files nobody else touched, and one that was rolled back
\* has all the old content.  Left out are the files whose write or restore was cut short,
\* transactions whose record was outdated, and what follows a stolen lease.
THEOREM TransactionsAreAtomic == WorkspaceSpec => []TransactionIsAtomic
<1>1. AtomicInv => TransactionIsAtomic
  <2> SUFFICES ASSUME AtomicInv, NEW p \in Processes, Settled(p), ~stolen, p \notin outdated,
                      NEW x \in DOMAIN edits[p] \ (touched[p] \cup spoiled[p])
               PROVE  ws[x] = IF saved[p].stage = "confirmed" THEN Content(p, x) ELSE checkpoint[p][x]
    BY DEF TransactionIsAtomic
  <2>1. Sound(p)
    BY DEF AtomicInv
  <2>2. /\ ~undo[<<p, "operator">>].on /\ ~undo[<<p, "self">>].on
        /\ saved[p].stage \in Undone \cup {"confirmed"} /\ Recorded(saved[p]) /\ "confirmed" \notin Undone
    BY DEF Settled, Rollbacks, Undone, Recorded, None
  <2>3. /\ Result(p, at[p], checkpoint[p], wrote[p], saved[p], undo[<<p, "self">>], undo[<<p, "operator">>], outdated, Lost(p), ws)
        /\ DOMAIN checkpoint[p] = DOMAIN edits[p]
    BY <2>1, <2>2 DEF Sound, Fits, Course
  <2> QED
    BY <2>2, <2>3 DEF Result, Mine, Lost
<1> QED
  BY <1>1, TransactionsFit, PTL

-----------------------------------------------------------------------------
(* The todo list and its engine                                            *)

IsEngine(e) ==
    /\ e = [scope |-> e.scope, revision |-> e.revision, snapshots |-> e.snapshots,
            ledger |-> e.ledger]
    /\ e.revision \in Nat

\* What an engine has to know of a place of the session, to judge an update by it: the
\* snapshots it has of what was told, and every update that was answered.
Knows(e, b) ==
    /\ e.scope = 1
    /\ \A seen \in b.told :
         seen.revision \in DOMAIN e.snapshots => e.snapshots[seen.revision] = seen.todos
    /\ \A a \in b.answered : <<1, a[1], a[2]>> \in e.ledger

\* A place of the session, at which a process may be opened.
SavedOk(b) ==
    /\ b = Saved(b.todos, b.engine, b.told, b.answered)
    /\ b.engine = Unsaved => b.told = {} /\ b.answered = {}
    /\ b.engine # Unsaved =>
         /\ IsEngine(b.engine) /\ Knows(b.engine, b)
         /\ \A seen \in b.told :
              /\ seen.revision \in Nat /\ seen.revision <= b.engine.revision
              /\ seen.revision = b.engine.revision => seen.todos = b.todos

DiskOk(b, m) == SavedOk(b) /\ (b.engine # Unsaved => b.engine.revision <= m.revision)

\* What is in memory is saved.
AtEnd(b, m) == b.todos = m.todos /\ Knows(m.engine, b)

IsLive(m) ==
    /\ m = [up |-> TRUE, session |-> 1, todos |-> m.todos, revision |-> m.revision,
            engine |-> m.engine, captured |-> Unsaved, locked |-> m.locked]
    /\ IsEngine(m.engine) /\ m.revision = m.engine.revision

IsList(s) == \E S : s \in Seq(S)

\* f[k] is the place when k of the entries are appended.
Chain(f, b, s) == f[0] = b /\ \A k \in 1..Len(s) : f[k] = Appended(f[k - 1], s[k])

\* The process may die after each of the entries, and all is saved after the last one.
Pending(b, m, s) ==
    /\ IsList(s)
    /\ \E f : /\ Chain(f, b, s) /\ \A k \in 0..Len(s) : DiskOk(f[k], m)
              /\ AtEnd(f[Len(s)], m)

TodoInv ==
    /\ ends = [s \in {1} |-> branch] /\ SavedOk(branch)
    /\ ~live.up => appends = <<>>
    /\ live.up => IsLive(live) /\ Pending(branch, live, appends)

-----------------------------------------------------------------------------
(* Entries to be appended                                                  *)

\* The entries after the next one.
LEMMA ListTail ==
    ASSUME NEW s, IsList(s), s # <<>>
    PROVE  /\ Len(s) \in Nat \ {0} /\ IsList(Tail(s)) /\ Len(Tail(s)) = Len(s) - 1
           /\ Head(s) = s[1] /\ \A k \in 1..(Len(s) - 1) : Tail(s)[k] = s[k + 1]
<1>1. PICK S : s \in Seq(S)
  BY DEF IsList
<1>2. Len(s) \in Nat \ {0} /\ Tail(s) \in Seq(S) /\ Len(Tail(s)) = Len(s) - 1 /\ Head(s) = s[1]
  BY <1>1
<1>3. \A k \in 1..(Len(s) - 1) : Tail(s)[k] = s[k + 1]
  BY <1>1, <1>2
<1> QED BY <1>2, <1>3 DEF IsList

\* One entry is appended.
LEMMA HeadAppended ==
    ASSUME NEW b, NEW m, NEW s, Pending(b, m, s), s # <<>>
    PROVE  /\ SavedOk(Appended(b, Head(s)))
           /\ Pending(Appended(b, Head(s)), m, Tail(s))
<1>1. PICK f : /\ Chain(f, b, s) /\ \A k \in 0..Len(s) : DiskOk(f[k], m)
               /\ AtEnd(f[Len(s)], m)
  BY DEF Pending
<1>2. /\ Len(s) \in Nat \ {0} /\ IsList(Tail(s)) /\ Len(Tail(s)) = Len(s) - 1
      /\ Head(s) = s[1] /\ \A k \in 1..(Len(s) - 1) : Tail(s)[k] = s[k + 1]
  BY ListTail DEF Pending
<1> DEFINE g == [k \in 0..(Len(s) - 1) |-> f[k + 1]]
<1>3. f[1] = Appended(b, Head(s))
  BY <1>1, <1>2 DEF Chain
<1>4. Chain(g, Appended(b, Head(s)), Tail(s))
  <2>1. g[0] = Appended(b, Head(s))
    BY <1>2, <1>3
  <2>2. ASSUME NEW k \in 1..Len(Tail(s)) PROVE g[k] = Appended(g[k - 1], Tail(s)[k])
    <3>1. f[k + 1] = Appended(f[k], s[k + 1])
      <4>1. k + 1 \in 1..Len(s) /\ (k + 1) - 1 = k
        BY <1>2
      <4> QED BY <4>1, <1>1 DEF Chain
    <3>2. g[k] = f[k + 1] /\ g[k - 1] = f[k] /\ Tail(s)[k] = s[k + 1]
      BY <1>2
    <3> QED BY <3>1, <3>2
  <2> QED BY <2>1, <2>2 DEF Chain
<1>5. \A k \in 0..Len(Tail(s)) : DiskOk(g[k], m)
  BY <1>1, <1>2
<1>6. AtEnd(g[Len(Tail(s))], m)
  <2>1. g[Len(Tail(s))] = f[Len(s)]
    BY <1>2
  <2> QED BY <2>1, <1>1
<1>7. SavedOk(Appended(b, Head(s)))
  BY <1>1, <1>2, <1>3 DEF DiskOk
<1> HIDE DEF g
<1> QED BY <1>2, <1>4, <1>5, <1>6, <1>7 DEF Pending

\* Nothing is to be appended.
LEMMA NothingPending ==
    ASSUME NEW b, NEW m
    PROVE  Pending(b, m, <<>>) <=> DiskOk(b, m) /\ AtEnd(b, m)
<1>1. IsList(<<>>) /\ Len(<<>>) = 0
  BY DEF IsList
<1>2. ASSUME DiskOk(b, m), AtEnd(b, m) PROVE Pending(b, m, <<>>)
  <2> DEFINE f == [k \in {0} |-> b]
  <2>1. f[0] = b
    OBVIOUS
  <2>2. Chain(f, b, <<>>)
    BY <1>1, <2>1 DEF Chain
  <2>3. \A k \in 0..Len(<<>>) : DiskOk(f[k], m)
    BY <1>1, <1>2, <2>1
  <2>4. AtEnd(f[Len(<<>>)], m)
    BY <1>1, <1>2, <2>1
  <2> HIDE DEF f
  <2> QED BY <1>1, <2>2, <2>3, <2>4 DEF Pending
<1>3. ASSUME Pending(b, m, <<>>) PROVE DiskOk(b, m) /\ AtEnd(b, m)
  <2>1. PICK f : /\ Chain(f, b, <<>>) /\ \A k \in 0..Len(<<>>) : DiskOk(f[k], m)
                 /\ AtEnd(f[Len(<<>>)], m)
    BY <1>3 DEF Pending
  <2>2. f[0] = b /\ 0 \in 0..Len(<<>>)
    BY <2>1, <1>1 DEF Chain
  <2> QED BY <2>1, <2>2, <1>1
<1> QED BY <1>2, <1>3

\* An entry before others.
LEMMA OnePending ==
    ASSUME NEW b, NEW m, NEW e, NEW s, Pending(Appended(b, e), m, s), DiskOk(b, m)
    PROVE  Pending(b, m, <<e>> \o s)
<1> DEFINE t == <<e>> \o s
<1>1. PICK f : /\ Chain(f, Appended(b, e), s) /\ \A k \in 0..Len(s) : DiskOk(f[k], m)
               /\ AtEnd(f[Len(s)], m)
  BY DEF Pending
<1>2. PICK S : s \in Seq(S)
  BY DEF Pending, IsList
<1>3. t \in Seq(S \cup {e}) /\ Len(s) \in Nat
  BY <1>2
<1>4. /\ IsList(t) /\ Len(s) \in Nat /\ Len(t) = Len(s) + 1 /\ t[1] = e
      /\ \A k \in 2..(Len(s) + 1) : t[k] = s[k - 1]
  BY <1>2, <1>3 DEF IsList
<1> HIDE DEF t
<1> DEFINE g == [k \in 0..Len(t) |-> IF k = 0 THEN b ELSE f[k - 1]]
<1>5. Chain(g, b, t)
  <2>1. g[0] = b
    BY <1>4
  <2>2. ASSUME NEW k \in 1..Len(t) PROVE g[k] = Appended(g[k - 1], t[k])
    <3>1. CASE k = 1
      BY <3>1, <1>1, <1>4 DEF Chain
    <3>2. CASE k # 1
      <4>1. k - 1 \in 1..Len(s) /\ g[k] = f[k - 1] /\ g[k - 1] = f[(k - 1) - 1] /\ t[k] = s[k - 1]
        BY <3>2, <1>4
      <4> QED BY <4>1, <1>1 DEF Chain
    <3> QED BY <3>1, <3>2
  <2> QED BY <2>1, <2>2 DEF Chain
<1>6. ASSUME NEW k \in 0..Len(t) PROVE DiskOk(g[k], m)
  <2>1. k # 0 => k - 1 \in 0..Len(s)
    BY <1>4
  <2> QED BY <2>1, <1>1
<1>7. g[Len(t)] = f[Len(s)]
  BY <1>4
<1> HIDE DEF g
<1>8. Pending(b, m, t)
  BY <1>1, <1>4, <1>5, <1>6, <1>7 DEF Pending
<1> QED BY <1>8 DEF t

-----------------------------------------------------------------------------
(* The engine of the todo list                                             *)

\* An engine is never the mark of its absence.
LEMMA EnginesAreSaved == ASSUME NEW e, IsEngine(e) PROVE e # Unsaved
BY DEF IsEngine, Unsaved

\* The larger of two revisions.
LEMMA LargerRevision ==
    ASSUME NEW a \in Nat, NEW c \in Nat, a <= c PROVE Max({a, c}) = c
BY DEF Max

\* The engine has seen the list at its revision, and knows what it knew.
Refreshed(e, r, list) ==
    /\ IsEngine(r) /\ r.scope = e.scope /\ r.ledger = e.ledger
    /\ \A x \in DOMAIN r.snapshots :
         \/ x = r.revision /\ r.snapshots[x] = list
         \/ x \in DOMAIN e.snapshots /\ r.snapshots[x] = e.snapshots[x]
    /\ r.revision \in DOMAIN r.snapshots => r.snapshots[r.revision] = list

\* recordReadSnapshot and recordState.
LEMMA Records ==
    ASSUME NEW e, IsEngine(e), NEW rev \in Nat, NEW list
    PROVE  /\ e.revision <= rev => /\ Refreshed(e, RecordReadSnapshot(e, rev, list), list)
                                   /\ RecordReadSnapshot(e, rev, list).revision = rev
           /\ Refreshed(e, RecordState(e, rev, list), list)
           /\ RecordState(e, rev, list).revision = rev
<1> DEFINE held(x) == DOMAIN x.snapshots
           kept(x) == IF Cardinality(held(x)) < MaxSnapshots THEN held(x) ELSE held(x) \ {Min(held(x))}
           new(x) == [r \in kept(x) \cup {rev} |-> IF r = rev THEN list ELSE x.snapshots[r]]
<1>1. ASSUME NEW x, IsEngine(x), x.revision <= rev
      PROVE  RecordReadSnapshot(x, rev, list) =
               [scope |-> x.scope, revision |-> rev, snapshots |-> new(x), ledger |-> x.ledger]
  <2>1. Max({x.revision, rev}) = rev
    BY <1>1, LargerRevision DEF IsEngine
  <2>2. RecordReadSnapshot(x, rev, list) =
          [x EXCEPT !.revision = Max({x.revision, rev}), !.snapshots = new(x)]
    BY DEF RecordReadSnapshot
  <2> QED BY <1>1, <2>1, <2>2 DEF IsEngine
<1>2. \A x : kept(x) \subseteq held(x)
  OBVIOUS
<1>3. ASSUME NEW x, IsEngine(x), x.revision <= rev
      PROVE  /\ Refreshed(x, RecordReadSnapshot(x, rev, list), list)
             /\ RecordReadSnapshot(x, rev, list).revision = rev
  <2> DEFINE r == RecordReadSnapshot(x, rev, list)
  <2>1. r = [scope |-> x.scope, revision |-> rev, snapshots |-> new(x), ledger |-> x.ledger]
    BY <1>1, <1>3
  <2>2. /\ DOMAIN new(x) = kept(x) \cup {rev} /\ new(x)[rev] = list
        /\ \A y \in kept(x) : y # rev => new(x)[y] = x.snapshots[y]
    OBVIOUS
  <2> HIDE DEF r, new, kept
  <2>3. r.scope = x.scope /\ r.revision = rev /\ r.snapshots = new(x) /\ r.ledger = x.ledger
    BY <2>1
  <2>4. IsEngine(r)
    BY <2>1 DEF IsEngine
  <2>5. Refreshed(x, r, list) /\ r.revision = rev
    BY <1>2, <2>2, <2>3, <2>4 DEF Refreshed
  <2> QED BY <2>5 DEF r
<1>4. /\ Refreshed(e, RecordState(e, rev, list), list)
      /\ RecordState(e, rev, list).revision = rev
  <2> DEFINE x == [e EXCEPT !.revision = rev]
  <2>1. /\ IsEngine(x) /\ x.revision = rev /\ x.scope = e.scope /\ x.ledger = e.ledger
        /\ x.snapshots = e.snapshots
    BY DEF IsEngine
  <2>2. RecordState(e, rev, list) = RecordReadSnapshot(x, rev, list)
    BY DEF RecordState
  <2> HIDE DEF x, held, kept, new
  <2>3. x.revision <= rev
    BY <2>1
  <2>4. Refreshed(x, RecordReadSnapshot(x, rev, list), list) /\ RecordReadSnapshot(x, rev, list).revision = rev
    BY <1>3, <2>1, <2>3
  <2> QED BY <2>1, <2>2, <2>4 DEF Refreshed
<1> HIDE DEF held, kept, new
<1> QED BY <1>3, <1>4

\* recordApplied, at the revision of the engine.
LEMMA AppliesKey ==
    ASSUME NEW e, IsEngine(e), NEW key
    PROVE  LET r == RecordApplied(e, key, e.revision)
           IN  /\ IsEngine(r) /\ r.scope = e.scope /\ r.ledger = e.ledger \cup {key}
               /\ r.snapshots = e.snapshots /\ r.revision = e.revision
<1>1. Max({e.revision, e.revision}) = e.revision
  BY LargerRevision DEF IsEngine
<1>2. RecordApplied(e, key, e.revision) =
        [e EXCEPT !.ledger = e.ledger \cup {key}, !.revision = e.revision]
  BY <1>1 DEF RecordApplied
<1> QED BY <1>2 DEF IsEngine

\* An engine that has seen the list knows what it knew.
LEMMA RefreshedKnows ==
    ASSUME NEW e, NEW r, NEW list, NEW b, Refreshed(e, r, list), Knows(e, b),
           \A seen \in b.told : seen.revision = r.revision => seen.todos = list
    PROVE  Knows(r, b)
BY DEF Refreshed, Knows

\* The engine of a session that is opened.
LEMMA RestoresEngine ==
    ASSUME NEW b, SavedOk(b)
    PROVE  LET e == RestoredEngine(1, b)
           IN  /\ IsEngine(e) /\ Knows(e, b)
               /\ b.engine # Unsaved => b.engine.revision = e.revision
<1> DEFINE e0 == IF b.engine = Unsaved THEN TodoEngine(1) ELSE [b.engine EXCEPT !.scope = 1]
<1>1. /\ IsEngine(e0) /\ e0.scope = 1 /\ Knows(e0, b)
      /\ b.engine # Unsaved => b.engine.revision = e0.revision
  <2>1. CASE b.engine = Unsaved
    <3>1. e0 = [scope |-> 1, revision |-> 0, snapshots |-> <<>>, ledger |-> {}]
      BY <2>1 DEF TodoEngine
    <3>2. b.told = {} /\ b.answered = {}
      BY <2>1 DEF SavedOk
    <3> QED BY <2>1, <3>1, <3>2 DEF IsEngine, Knows
  <2>2. CASE b.engine # Unsaved
    <3>1. IsEngine(b.engine) /\ Knows(b.engine, b)
      BY <2>2 DEF SavedOk
    <3>2. e0 = [b.engine EXCEPT !.scope = 1]
      BY <2>2
    <3>3. /\ IsEngine(e0) /\ e0.scope = 1 /\ e0.revision = b.engine.revision
          /\ e0.snapshots = b.engine.snapshots /\ e0.ledger = b.engine.ledger
      BY <3>1, <3>2 DEF IsEngine
    <3> HIDE DEF e0
    <3> QED BY <3>1, <3>3 DEF Knows
  <2> QED BY <2>1, <2>2
<1>2. RestoredEngine(1, b) = IF e0.revision = 0 /\ b.todos # <<>> THEN RecordState(e0, 0, b.todos) ELSE e0
  BY DEF RestoredEngine
<1> HIDE DEF e0
<1>3. CASE e0.revision = 0 /\ b.todos # <<>>
  <2> DEFINE r == RecordState(e0, 0, b.todos)
  <2>1. Refreshed(e0, r, b.todos) /\ r.revision = 0
    BY <1>1, Records
  <2> HIDE DEF r
  <2>2. \A seen \in b.told : seen.revision = r.revision => seen.todos = b.todos
    BY <1>1, <1>3, <2>1 DEF SavedOk
  <2>3. Knows(r, b)
    BY <1>1, <2>1, <2>2, RefreshedKnows
  <2>4. RestoredEngine(1, b) = r
    BY <1>2, <1>3 DEF r
  <2> QED BY <1>1, <1>3, <2>1, <2>3, <2>4 DEF Refreshed
<1>4. CASE ~(e0.revision = 0 /\ b.todos # <<>>)
  BY <1>1, <1>2, <1>4
<1> QED BY <1>3, <1>4

-----------------------------------------------------------------------------
(* Entries of the session                                                  *)

\* What appending an entry leaves.
LEMMA AppendsEntry ==
    ASSUME NEW b, SavedOk(b)
    PROVE  /\ \A e : Appended(b, SaveEngine(e)) = Saved(b.todos, e, b.told, b.answered)
           /\ \A l : Appended(b, SaveTodos(l)) = Saved(l, b.engine, b.told, b.answered)
           /\ \A t, a : Appended(b, ToolResult(t, a)) = Saved(b.todos, b.engine, t, b.answered \cup a)
<1>1. b = [todos |-> b.todos, engine |-> b.engine, told |-> b.told, answered |-> b.answered]
  BY DEF SavedOk, Saved
<1>2. ASSUME NEW e PROVE Appended(b, SaveEngine(e)) = [b EXCEPT !.engine = e]
  BY DEF Appended, SaveEngine
<1>3. ASSUME NEW l PROVE Appended(b, SaveTodos(l)) = [b EXCEPT !.todos = l]
  BY DEF Appended, SaveTodos
<1>4. ASSUME NEW t, NEW a
      PROVE  Appended(b, ToolResult(t, a)) = Saved(b.todos, b.engine, t, b.answered \cup a)
  <2>1. Appended(b, ToolResult(t, a)) = [b EXCEPT !.told = t, !.answered = b.answered \cup a]
    <3>1. /\ ToolResult(t, a).type = "result" /\ ToolResult(t, a).told = t
          /\ ToolResult(t, a).answered = a
      BY DEF ToolResult
    <3> QED BY <3>1 DEF Appended
  <2>2. [b EXCEPT !.told = t, !.answered = b.answered \cup a]
          = [todos |-> b.todos, engine |-> b.engine, told |-> t, answered |-> b.answered \cup a]
    <3> DEFINE n == b.answered \cup a
               c == [todos |-> b.todos, engine |-> b.engine, told |-> t, answered |-> b.answered]
    <3>1. [b EXCEPT !.told = t] = c
      BY <1>1
    <3>2. [c EXCEPT !.answered = n]
            = [todos |-> b.todos, engine |-> b.engine, told |-> t, answered |-> n]
      OBVIOUS
    <3> HIDE DEF n
    <3>3. [b EXCEPT !.told = t, !.answered = n] = [[b EXCEPT !.told = t] EXCEPT !.answered = n]
      OBVIOUS
    <3>4. [b EXCEPT !.told = t, !.answered = n] = [c EXCEPT !.answered = n]
      BY <3>1, <3>3, Zenon
    <3> QED BY <3>2, <3>4, Zenon DEF n
  <2> QED BY <2>1, <2>2 DEF Saved
<1>5. ASSUME NEW e PROVE Appended(b, SaveEngine(e)) = Saved(b.todos, e, b.told, b.answered)
  BY <1>1, <1>2 DEF Saved
<1>6. ASSUME NEW l PROVE Appended(b, SaveTodos(l)) = Saved(l, b.engine, b.told, b.answered)
  BY <1>1, <1>3 DEF Saved
<1> QED BY <1>4, <1>5, <1>6

\* An engine of the revision that was saved last, or of a later one.
LEMMA SavesEngine ==
    ASSUME NEW b, NEW m, NEW e, SavedOk(b), IsEngine(e), Knows(e, b), e.revision <= m.revision,
           b.engine # Unsaved => b.engine.revision <= e.revision
    PROVE  LET a == Appended(b, SaveEngine(e))
           IN  /\ DiskOk(a, m) /\ a.engine = e /\ a.engine # Unsaved
               /\ a.todos = b.todos /\ a.told = b.told /\ a.answered = b.answered
<1> DEFINE a == Appended(b, SaveEngine(e))
<1>1. /\ a = Saved(a.todos, a.engine, a.told, a.answered)
      /\ a.engine = e /\ a.todos = b.todos /\ a.told = b.told /\ a.answered = b.answered
  BY AppendsEntry DEF Saved
<1> HIDE DEF a
<1>2. e # Unsaved
  BY EnginesAreSaved
<1>3. Knows(e, a)
  BY <1>1 DEF Knows
<1>4. ASSUME NEW seen \in a.told
      PROVE  /\ seen.revision \in Nat /\ seen.revision <= e.revision
             /\ seen.revision = e.revision => seen.todos = a.todos
  <2>1. CASE b.engine = Unsaved
    BY <1>1, <2>1 DEF SavedOk
  <2>2. CASE b.engine # Unsaved
    <3>1. /\ b.engine.revision \in Nat /\ e.revision \in Nat /\ b.engine.revision <= e.revision
          /\ seen.revision \in Nat /\ seen.revision <= b.engine.revision
          /\ seen.revision = b.engine.revision => seen.todos = b.todos
      BY <1>1, <2>2 DEF SavedOk, IsEngine
    <3> QED BY <1>1, <3>1
  <2> QED BY <2>1, <2>2
<1>5. SavedOk(a)
  BY <1>1, <1>2, <1>3, <1>4 DEF SavedOk
<1> QED BY <1>1, <1>2, <1>5 DEF DiskOk, a

\* The list, when its revision was saved and nothing was told of that.
LEMMA SavesTodos ==
    ASSUME NEW b, NEW m, NEW list, DiskOk(b, m), b.engine # Unsaved,
           \A seen \in b.told : seen.revision # b.engine.revision
    PROVE  LET a == Appended(b, SaveTodos(list))
           IN  /\ DiskOk(a, m) /\ a.engine = b.engine /\ a.engine # Unsaved
               /\ a.todos = list /\ a.told = b.told /\ a.answered = b.answered
<1> DEFINE a == Appended(b, SaveTodos(list))
<1>1. /\ a = Saved(a.todos, a.engine, a.told, a.answered)
      /\ a.engine = b.engine /\ a.todos = list /\ a.told = b.told /\ a.answered = b.answered
  BY AppendsEntry DEF Saved, DiskOk
<1> HIDE DEF a
<1>2. Knows(b.engine, b) /\ IsEngine(b.engine)
  BY DEF DiskOk, SavedOk
<1>3. Knows(b.engine, a)
  BY <1>1, <1>2 DEF Knows
<1>4. \A seen \in a.told : seen.revision \in Nat /\ seen.revision <= b.engine.revision
  BY <1>1 DEF DiskOk, SavedOk
<1>5. SavedOk(a)
  BY <1>1, <1>2, <1>3, <1>4 DEF SavedOk
<1> QED BY <1>1, <1>5 DEF DiskOk, a

\* The result, when engine and list are saved.
LEMMA SavesResult ==
    ASSUME NEW b, NEW m, NEW answered, DiskOk(b, m), b.engine = m.engine, b.engine # Unsaved,
           m.engine.revision = m.revision, b.todos = m.todos,
           m.revision \in DOMAIN m.engine.snapshots => m.engine.snapshots[m.revision] = m.todos,
           \A x \in answered : <<1, x[1], x[2]>> \in m.engine.ledger
    PROVE  LET a == Appended(b, ToolResult(Telling(m.revision, m.todos), answered))
           IN  DiskOk(a, m) /\ AtEnd(a, m)
<1> DEFINE a == Appended(b, ToolResult(Telling(m.revision, m.todos), answered))
<1>1. /\ a = Saved(a.todos, a.engine, a.told, a.answered)
      /\ a.engine = m.engine /\ a.todos = m.todos /\ a.answered = b.answered \cup answered
      /\ \A seen \in a.told : seen.revision = m.revision /\ seen.todos = m.todos
  <2>1. a = Saved(b.todos, b.engine, Telling(m.revision, m.todos), b.answered \cup answered)
    BY AppendsEntry DEF DiskOk
  <2>2. \A seen \in Telling(m.revision, m.todos) : seen.revision = m.revision /\ seen.todos = m.todos
    BY DEF Telling
  <2> QED BY <2>1, <2>2 DEF Saved
<1> HIDE DEF a
<1>2. Knows(m.engine, b) /\ IsEngine(m.engine) /\ m.revision \in Nat
  BY DEF DiskOk, SavedOk, IsEngine
<1>3. Knows(m.engine, a)
  BY <1>1, <1>2 DEF Knows
<1>4. SavedOk(a)
  BY <1>1, <1>2, <1>3 DEF SavedOk
<1> QED BY <1>1, <1>2, <1>3, <1>4 DEF DiskOk, AtEnd, a

\* When no tool call is under way, everything is saved.
LEMMA IdleIsSaved ==
    ASSUME TodoInv, TodoIdle
    PROVE  /\ IsLive(live) /\ DiskOk(branch, live) /\ AtEnd(branch, live)
           /\ IsEngine(live.engine) /\ live.revision \in Nat /\ live.engine.revision = live.revision
           /\ ToolEngine(live) = live.engine /\ live.captured = Unsaved
           /\ \A seen \in branch.told :
                /\ seen.revision \in Nat /\ seen.revision <= live.revision
                /\ seen.revision = live.revision => seen.todos = live.todos
<1>1. IsLive(live) /\ DiskOk(branch, live) /\ AtEnd(branch, live)
  BY NothingPending DEF TodoInv, TodoIdle
<1>2. live.captured = Unsaved
  BY <1>1 DEF IsLive
<1>3. /\ IsEngine(live.engine) /\ live.revision \in Nat /\ live.engine.revision = live.revision
      /\ ToolEngine(live) = live.engine
  BY <1>1, <1>2 DEF IsLive, IsEngine, ToolEngine
<1>4. ASSUME NEW seen \in branch.told
      PROVE  /\ seen.revision \in Nat /\ seen.revision <= live.revision
             /\ seen.revision = live.revision => seen.todos = live.todos
  <2>1. /\ branch.engine.revision \in Nat /\ branch.engine.revision <= live.revision
        /\ seen.revision \in Nat /\ seen.revision <= branch.engine.revision
        /\ seen.revision = branch.engine.revision => seen.todos = branch.todos
    BY <1>1 DEF DiskOk, SavedOk, IsEngine
  <2> QED BY <1>1, <1>3, <2>1 DEF AtEnd
<1> QED BY <1>1, <1>2, <1>3, <1>4

\* A tool call, when its entries can be appended one after the other.
LEMMA ToolCallKeeps ==
    ASSUME TodoInv, TodoIdle, NEW m, NEW s, IsLive(m), Pending(branch, m, s), s # <<>>,
           ToolCall(m, s)
    PROVE  TodoInv'
<1>1. Pending(branch, m, appends')
  <2>1. CASE Appended(branch, Head(s)) = branch
    BY <2>1, HeadAppended DEF ToolCall
  <2>2. CASE Appended(branch, Head(s)) # branch
    BY <2>2 DEF ToolCall
  <2> QED BY <2>1, <2>2
<1>2. live' = m /\ UNCHANGED <<branch, ends>> /\ live'.up
  BY DEF ToolCall, IsLive
<1> QED BY <1>1, <1>2 DEF TodoInv

\* A call that only saves the engine it was given.
LEMMA EngineKeeps ==
    ASSUME TodoInv, TodoIdle, ToolCall(live, <<SaveEngine(ToolEngine(live))>>)
    PROVE  TodoInv'
<1> DEFINE e == SaveEngine(live.engine)
           a == Appended(branch, e)
<1>1. DiskOk(a, live) /\ a.todos = branch.todos /\ a.told = branch.told /\ a.answered = branch.answered
  BY IdleIsSaved, SavesEngine DEF DiskOk, AtEnd
<1> HIDE DEF a
<1>2. AtEnd(a, live)
  BY <1>1, IdleIsSaved DEF AtEnd, Knows
<1>3. Pending(branch, live, <<e>> \o <<>>)
  BY <1>1, <1>2, NothingPending, OnePending, IdleIsSaved DEF a
<1>4. <<e>> \o <<>> = <<e>>
  OBVIOUS
<1> HIDE DEF e
<1>5. ToolCall(live, <<e>>)
  BY IdleIsSaved DEF e
<1>6. <<e>> # <<>>
  OBVIOUS
<1> QED BY <1>3, <1>4, <1>5, <1>6, IdleIsSaved, ToolCallKeeps

-----------------------------------------------------------------------------
(* The fields of AgentSession                                              *)

\* The fields of a process.
LiveRecord(u, s, t, v, e, c, l) ==
    [up |-> u, session |-> s, todos |-> t, revision |-> v, engine |-> e, captured |-> c,
     locked |-> l]

WithTodos(m, x) == [m EXCEPT !.todos = x]
WithRevision(m, x) == [m EXCEPT !.revision = x]
WithEngine(m, x) == [m EXCEPT !.engine = x]
WithLock(m, x) == [m EXCEPT !.locked = x]

\* One of them is replaced.
LEMMA LiveFields ==
    ASSUME NEW u, NEW s, NEW t, NEW v, NEW e, NEW c, NEW l, NEW x
    PROVE  /\ WithTodos(LiveRecord(u, s, t, v, e, c, l), x) = LiveRecord(u, s, x, v, e, c, l)
           /\ WithRevision(LiveRecord(u, s, t, v, e, c, l), x) = LiveRecord(u, s, t, x, e, c, l)
           /\ WithEngine(LiveRecord(u, s, t, v, e, c, l), x) = LiveRecord(u, s, t, v, x, c, l)
           /\ WithLock(LiveRecord(u, s, t, v, e, c, l), x) = LiveRecord(u, s, t, v, e, c, x)
BY DEF LiveRecord, WithTodos, WithRevision, WithEngine, WithLock

\* A process in the first session.
LiveOne(u, t, v, e, l) == LiveRecord(u, 1, t, v, e, Unsaved, l)

\* A process that is up is given by five fields.
LEMMA IsLiveOne ==
    ASSUME NEW m, IsLive(m)
    PROVE  m = LiveOne(m.up, m.todos, m.revision, m.engine, m.locked)
BY DEF IsLive, LiveOne, LiveRecord

\* Such fields give a process, when the engine is of its revision.
LEMMA LiveOneIs ==
    ASSUME NEW n, IsLive(n), NEW t, NEW v, NEW e, NEW l, IsEngine(e), e.revision = v
    PROVE  /\ LiveOne(n.up, t, v, e, l).todos = t /\ LiveOne(n.up, t, v, e, l).revision = v
           /\ LiveOne(n.up, t, v, e, l).engine = e /\ IsLive(LiveOne(n.up, t, v, e, l))
<1> DEFINE r == LiveOne(n.up, t, v, e, l)
<1>1. n.up = TRUE
  BY DEF IsLive
<1>2. /\ r.todos = t /\ r.revision = v /\ r.engine = e /\ r.locked = l
      /\ r = [up |-> TRUE, session |-> 1, todos |-> t, revision |-> v, engine |-> e,
              captured |-> Unsaved, locked |-> l]
  BY <1>1 DEF LiveOne, LiveRecord
<1> HIDE DEF r
<1>3. IsLive(r)
  BY <1>2 DEF IsLive
<1> QED BY <1>2, <1>3 DEF r

\* Fields of a process in the first session, one of them replaced.
LEMMA LiveOneFields ==
    ASSUME NEW u, NEW t, NEW v, NEW e, NEW l, NEW x
    PROVE  /\ WithTodos(LiveOne(u, t, v, e, l), x) = LiveOne(u, x, v, e, l)
           /\ WithRevision(LiveOne(u, t, v, e, l), x) = LiveOne(u, t, x, e, l)
           /\ WithEngine(LiveOne(u, t, v, e, l), x) = LiveOne(u, t, v, x, l)
           /\ WithLock(LiveOne(u, t, v, e, l), x) = LiveOne(u, t, v, e, x)
BY LiveFields DEF LiveOne

\* _setTodos: a new revision, whose list the engine has seen.
LEMMA SetsTodos ==
    ASSUME NEW m, IsLive(m), NEW list
    PROVE  LET n == SetTodos(m, list)
           IN  /\ IsLive(n) /\ n.todos = list /\ n.revision = m.revision + 1
               /\ m.revision \in Nat /\ n.revision \in Nat
               /\ Refreshed(m.engine, n.engine, list) /\ n.engine.revision = n.revision
               /\ IsEngine(n.engine)
<1> DEFINE e == RecordState(m.engine, m.revision + 1, list)
<1>1. m.revision \in Nat /\ IsEngine(m.engine)
  BY DEF IsLive, IsEngine
<1>2. Refreshed(m.engine, e, list) /\ e.revision = m.revision + 1
  BY <1>1, Records
<1>3. IsEngine(e)
  BY <1>2 DEF Refreshed
<1> HIDE DEF e
<1>4. SetTodos(m, list) = [m EXCEPT !.todos = list, !.revision = m.revision + 1, !.engine = e]
  BY DEF SetTodos, e
<1> DEFINE r == LiveOne(m.up, m.todos, m.revision, m.engine, m.locked)
           r1 == LiveOne(m.up, list, m.revision, m.engine, m.locked)
           r2 == LiveOne(m.up, list, m.revision + 1, m.engine, m.locked)
           r3 == LiveOne(m.up, list, m.revision + 1, e, m.locked)
<1>5. m = r
  BY IsLiveOne
<1>6. WithTodos(r, list) = r1 /\ WithRevision(r1, m.revision + 1) = r2 /\ WithEngine(r2, e) = r3
  BY LiveOneFields
<1>7. SetTodos(m, list) = WithEngine(WithRevision(WithTodos(m, list), m.revision + 1), e)
  BY <1>4, Zenon DEF WithTodos, WithRevision, WithEngine
<1>8. r3.todos = list /\ r3.revision = m.revision + 1 /\ r3.engine = e /\ IsLive(r3)
  BY <1>2, <1>3, LiveOneIs
<1> HIDE DEF r, r1, r2, r3
<1>9. SetTodos(m, list) = r3
  BY <1>5, <1>6, <1>7, Zenon
<1> QED BY <1>1, <1>2, <1>3, <1>8, <1>9

\* Setting or releasing the lock of todo_write leaves the list and the engine.
LEMMA LocksLive ==
    ASSUME NEW m, IsLive(m), NEW x
    PROVE  /\ IsLive(WithLock(m, x)) /\ WithLock(m, x).todos = m.todos
           /\ WithLock(m, x).revision = m.revision /\ WithLock(m, x).engine = m.engine
<1> DEFINE r == LiveOne(m.up, m.todos, m.revision, m.engine, x)
<1>1. WithLock(m, x) = r
  <2>1. m = LiveOne(m.up, m.todos, m.revision, m.engine, m.locked)
    BY IsLiveOne
  <2>2. WithLock(LiveOne(m.up, m.todos, m.revision, m.engine, m.locked), x) = r
    BY LiveOneFields
  <2> QED BY <2>1, <2>2, Zenon
<1>2. m.engine.revision = m.revision /\ IsEngine(m.engine)
  BY DEF IsLive
<1>3. IsLive(r) /\ r.todos = m.todos /\ r.revision = m.revision /\ r.engine = m.engine
  BY <1>2, LiveOneIs
<1> QED BY <1>1, <1>3

-----------------------------------------------------------------------------
(* The tools keep the invariant                                            *)

\* The engine and the list of a new revision.
LEMMA SavesRevision ==
    ASSUME NEW b, NEW m, DiskOk(b, m), m.revision \in Nat, NEW n, NEW g,
           IsEngine(g), g.revision = m.revision + 1, n.revision = m.revision + 1,
           Knows(g, b), NEW a, a = Appended(b, SaveEngine(g)),
           NEW c, c = Appended(a, SaveTodos(n.todos))
    PROVE  /\ DiskOk(a, n) /\ DiskOk(c, n)
           /\ c.engine = g /\ c.engine # Unsaved /\ c.todos = n.todos
           /\ c.told = b.told /\ c.answered = b.answered
<1>1. b.engine # Unsaved => b.engine.revision \in Nat /\ b.engine.revision <= m.revision
  BY DEF DiskOk, SavedOk, IsEngine
<1>2. SavedOk(b) /\ g.revision <= n.revision /\ (b.engine # Unsaved => b.engine.revision <= g.revision)
  BY <1>1 DEF DiskOk
<1>3. /\ DiskOk(a, n) /\ a.engine = g /\ a.engine # Unsaved
      /\ a.told = b.told /\ a.answered = b.answered
  BY <1>2, SavesEngine
<1>4. \A seen \in b.told : seen.revision # g.revision
  <2> TAKE seen \in b.told
  <2>1. b.engine # Unsaved
    BY DEF DiskOk, SavedOk
  <2>2. seen.revision \in Nat /\ seen.revision <= b.engine.revision
    BY <2>1 DEF DiskOk, SavedOk
  <2> QED BY <1>1, <2>1, <2>2
<1>5. /\ DiskOk(c, n) /\ c.engine = a.engine /\ c.engine # Unsaved /\ c.todos = n.todos
      /\ c.told = a.told /\ c.answered = a.answered
  BY <1>3, <1>4, SavesTodos
<1> QED BY <1>3, <1>5

\* todo_write.
LEMMA WriteKeeps == ASSUME TodoInv, NEW list \in Plans, TodoWrite(list) PROVE TodoInv'
<1> DEFINE n == SetTodos(live, list)
           m == [n EXCEPT !.locked = TRUE]
           result == ToolResult(Telling(n.revision, list), {})
           a == Appended(branch, SaveEngine(n.engine))
           c == Appended(a, SaveTodos(n.todos))
<1>1. TodoIdle /\ ToolCall(m, SetEntries(n) \o <<result>>)
  BY DEF TodoWrite
<1>2. /\ IsLive(live) /\ DiskOk(branch, live) /\ AtEnd(branch, live)
      /\ \A seen \in branch.told : seen.revision \in Nat /\ seen.revision <= live.revision
  BY <1>1, IdleIsSaved
<1>3. /\ IsLive(n) /\ n.todos = list /\ n.revision = live.revision + 1
      /\ live.revision \in Nat /\ n.revision \in Nat
      /\ Refreshed(live.engine, n.engine, list) /\ n.engine.revision = n.revision
      /\ IsEngine(n.engine)
  BY <1>2, SetsTodos
<1> HIDE DEF n
<1>4. Knows(n.engine, branch)
  BY <1>2, <1>3, RefreshedKnows DEF AtEnd
<1>5. IsLive(m) /\ m.todos = list /\ m.revision = n.revision /\ m.engine = n.engine
  <2>1. /\ IsLive(WithLock(n, TRUE)) /\ WithLock(n, TRUE).todos = n.todos
        /\ WithLock(n, TRUE).revision = n.revision /\ WithLock(n, TRUE).engine = n.engine
    BY <1>3, LocksLive, Zenon
  <2>2. m = WithLock(n, TRUE)
    BY DEF WithLock
  <2> HIDE DEF m
  <2> QED BY <1>3, <2>1, <2>2, Zenon
<1> HIDE DEF m
<1>6. /\ DiskOk(a, m) /\ DiskOk(c, m) /\ DiskOk(branch, m)
      /\ c.engine = m.engine /\ c.engine # Unsaved /\ c.todos = m.todos
  <2>1. /\ DiskOk(a, n) /\ DiskOk(c, n) /\ c.engine = n.engine /\ c.engine # Unsaved /\ c.todos = n.todos
    BY <1>2, <1>3, <1>4, SavesRevision
  <2>2. branch.engine # Unsaved => branch.engine.revision <= n.revision
    BY <1>2, <1>3 DEF DiskOk, SavedOk, IsEngine
  <2> QED BY <1>2, <1>3, <1>5, <2>1, <2>2 DEF DiskOk
<1> HIDE DEF a, c
<1>7. /\ DiskOk(Appended(c, result), m) /\ AtEnd(Appended(c, result), m)
  <2>1. m.revision \in DOMAIN m.engine.snapshots => m.engine.snapshots[m.revision] = m.todos
    BY <1>3, <1>5 DEF Refreshed
  <2>2. m.engine.revision = m.revision
    BY <1>3, <1>5
  <2>3. result = ToolResult(Telling(m.revision, m.todos), {})
    BY <1>5
  <2> HIDE DEF result
  <2> QED BY <1>6, <2>1, <2>2, <2>3, SavesResult
<1>8. Pending(branch, m, <<SaveEngine(n.engine)>> \o (<<SaveTodos(n.todos)>> \o (<<result>> \o <<>>)))
  <2> HIDE DEF result
  <2>1. Pending(c, m, <<result>> \o <<>>)
    BY <1>6, <1>7, NothingPending, OnePending
  <2>2. Pending(a, m, <<SaveTodos(n.todos)>> \o (<<result>> \o <<>>))
    BY <1>6, <2>1, OnePending DEF c
  <2> QED BY <1>6, <2>2, OnePending DEF a
<1>9. /\ SetEntries(n) \o <<result>> = <<SaveEngine(n.engine)>> \o (<<SaveTodos(n.todos)>> \o (<<result>> \o <<>>))
      /\ SetEntries(n) \o <<result>> # <<>>
  <2> HIDE DEF result
  <2> QED BY DEF SetEntries
<1> HIDE DEF result
<1> QED BY <1>1, <1>5, <1>8, <1>9, ToolCallKeeps

\* The engine of the tools is the one of the session.
LEMMA EnginesLive ==
    ASSUME NEW m, IsLive(m), NEW e, IsEngine(e), e.revision = m.revision
    PROVE  /\ IsLive(WithToolEngine(m, e)) /\ WithToolEngine(m, e).todos = m.todos
           /\ WithToolEngine(m, e).revision = m.revision /\ WithToolEngine(m, e).engine = e
<1> DEFINE r == LiveOne(m.up, m.todos, m.revision, e, m.locked)
<1>1. m.captured = Unsaved
  BY DEF IsLive
<1>2. WithToolEngine(m, e) = WithEngine(m, e)
  BY <1>1, Zenon DEF WithToolEngine, WithEngine
<1>3. WithEngine(m, e) = r
  <2>1. m = LiveOne(m.up, m.todos, m.revision, m.engine, m.locked)
    BY IsLiveOne
  <2>2. WithEngine(LiveOne(m.up, m.todos, m.revision, m.engine, m.locked), e) = r
    BY LiveOneFields
  <2> QED BY <2>1, <2>2, Zenon
<1>4. IsLive(r) /\ r.todos = m.todos /\ r.revision = m.revision /\ r.engine = e
  BY LiveOneIs
<1> HIDE DEF r
<1> QED BY <1>2, <1>3, <1>4

\* A place is one for a process that is further.
LEMMA LaterDisk ==
    ASSUME NEW b, NEW m, NEW n, DiskOk(b, m), m.revision \in Nat, n.revision \in Nat,
           m.revision <= n.revision
    PROVE  DiskOk(b, n)
BY DEF DiskOk, SavedOk, IsEngine

\* Sequences of entries, written out.
LEMMA TwoInOrder == ASSUME NEW x, NEW y PROVE <<x>> \o (<<y>> \o <<>>) = <<x, y>>
<1> DEFINE a == <<x>> \o (<<y>> \o <<>>)
           b == <<x, y>>
           S == {x, y}
<1>1. /\ a \in Seq(S) /\ b \in Seq(S) /\ Len(a) = 2 /\ Len(b) = 2
      /\ a[1] = b[1] /\ a[2] = b[2]
  OBVIOUS
<1> HIDE DEF a, b, S
<1>2. a = b
  BY <1>1, SeqEqual
<1> QED BY <1>2 DEF a, b

\* Three of them.
LEMMA ThreeInOrder == ASSUME NEW x, NEW y, NEW z PROVE <<x>> \o <<y, z>> = <<x, y, z>>
<1> DEFINE a == <<x>> \o <<y, z>>
           b == <<x, y, z>>
           S == {x, y, z}
<1>1. /\ a \in Seq(S) /\ b \in Seq(S) /\ Len(a) = 3 /\ Len(b) = 3
      /\ a[1] = b[1] /\ a[2] = b[2] /\ a[3] = b[3]
  OBVIOUS
<1> HIDE DEF a, b, S
<1>2. a = b
  BY <1>1, SeqEqual
<1> QED BY <1>2 DEF a, b

Six(x, y, z, t, u, v) == <<x>> \o <<y, z>> \o <<t, u, v>>
OneByOne(x, y, z, t, u, v) == <<x>> \o (<<y>> \o (<<z>> \o <<t, u, v>>))

\* Six of them: the entries of todo_update.
LEMMA SixInOrder ==
    ASSUME NEW x, NEW y, NEW z, NEW t, NEW u, NEW v
    PROVE  Six(x, y, z, t, u, v) = OneByOne(x, y, z, t, u, v)
<1> DEFINE a == <<x>> \o <<y, z>> \o <<t, u, v>>
           b == <<x>> \o (<<y>> \o (<<z>> \o <<t, u, v>>))
           S == {x, y, z, t, u, v}
<1>1. a \in Seq(S) /\ b \in Seq(S) /\ Len(a) = 6 /\ Len(b) = 6
  OBVIOUS
<1>2. a[1] = b[1] /\ a[2] = b[2] /\ a[3] = b[3] /\ a[4] = b[4] /\ a[5] = b[5] /\ a[6] = b[6]
  OBVIOUS
<1> HIDE DEF a, b, S
<1>3. \A i \in 1..Len(a) : a[i] = b[i]
  BY <1>1, <1>2
<1>4. a = b
  BY <1>1, <1>3, SeqEqual
<1> QED BY <1>4 DEF a, b, Six, OneByOne

\* Two entries and more, one after the other.
LEMMA TwoEntries ==
    ASSUME NEW b, NEW m, NEW x, NEW y, DiskOk(b, m), DiskOk(Appended(b, x), m),
           DiskOk(Appended(Appended(b, x), y), m), AtEnd(Appended(Appended(b, x), y), m)
    PROVE  Pending(b, m, <<x, y>>)
<1> DEFINE a == Appended(b, x)
           c == Appended(a, y)
<1>1. Pending(c, m, <<>>)
  BY NothingPending
<1> HIDE DEF c
<1>2. Pending(a, m, <<y>> \o <<>>)
  BY <1>1, OnePending DEF c
<1> HIDE DEF a
<1>3. Pending(b, m, <<x>> \o (<<y>> \o <<>>))
  BY <1>2, OnePending DEF a
<1>4. <<x>> \o (<<y>> \o <<>>) = <<x, y>>
  BY TwoInOrder
<1> QED BY <1>3, <1>4

\* An entry before two others.
LEMMA ThreeEntries ==
    ASSUME NEW b, NEW m, NEW x, NEW y, NEW z, DiskOk(b, m),
           Pending(Appended(b, x), m, <<y, z>>)
    PROVE  Pending(b, m, <<x, y, z>>)
<1>1. Pending(b, m, <<x>> \o <<y, z>>)
  BY OnePending
<1>2. <<x>> \o <<y, z>> = <<x, y, z>>
  BY ThreeInOrder
<1> QED BY <1>1, <1>2

\* todo_read.
LEMMA ReadKeeps == ASSUME TodoInv, TodoRead PROVE TodoInv'
<1> DEFINE e == live.engine
           seen == RecordReadSnapshot(e, live.revision, live.todos)
           m == WithToolEngine(live, seen)
           result == ToolResult(Telling(live.revision, live.todos), {})
           a == Appended(branch, SaveEngine(e))
           c == Appended(a, SaveEngine(seen))
<1>1. TodoIdle /\ ToolCall(m, <<SaveEngine(e), SaveEngine(seen), result>>)
  BY IdleIsSaved DEF TodoRead
<1>2. /\ IsLive(live) /\ DiskOk(branch, live) /\ AtEnd(branch, live) /\ IsEngine(e)
      /\ live.revision \in Nat /\ e.revision = live.revision /\ Knows(e, branch)
      /\ branch.todos = live.todos
      /\ \A t \in branch.told : t.revision = live.revision => t.todos = live.todos
  BY <1>1, IdleIsSaved DEF AtEnd
<1> HIDE DEF e
<1>3. Refreshed(e, seen, live.todos) /\ seen.revision = live.revision /\ IsEngine(seen)
  BY <1>2, Records DEF IsEngine, Refreshed
<1> HIDE DEF seen
<1>4. /\ IsLive(m) /\ m.todos = live.todos /\ m.revision = live.revision /\ m.engine = seen
  BY <1>2, <1>3, EnginesLive
<1> HIDE DEF m
<1>5. DiskOk(branch, m)
  BY <1>2, <1>4, LaterDisk
<1>6. /\ DiskOk(a, m) /\ a.engine = e /\ a.todos = branch.todos /\ a.told = branch.told
      /\ a.answered = branch.answered
  <2>1. SavedOk(branch) /\ e.revision <= m.revision
        /\ (branch.engine # Unsaved => branch.engine.revision <= e.revision)
    BY <1>2, <1>4 DEF DiskOk
  <2> QED BY <1>2, <2>1, SavesEngine
<1> HIDE DEF a
<1>7. Knows(e, a) /\ Knows(seen, a)
  <2>1. Knows(e, a)
    BY <1>2, <1>6 DEF Knows
  <2>2. \A t \in a.told : t.revision = seen.revision => t.todos = live.todos
    BY <1>2, <1>3, <1>6
  <2> QED BY <1>3, <2>1, <2>2, RefreshedKnows
<1>8. /\ DiskOk(c, m) /\ c.engine = seen /\ c.engine # Unsaved /\ c.todos = a.todos
  <2>1. SavedOk(a) /\ seen.revision <= m.revision
        /\ (a.engine # Unsaved => a.engine.revision <= seen.revision)
    BY <1>2, <1>3, <1>4, <1>6 DEF DiskOk
  <2> QED BY <1>3, <1>7, <2>1, SavesEngine
<1> HIDE DEF c
<1>9. DiskOk(Appended(c, result), m) /\ AtEnd(Appended(c, result), m)
  <2>1. m.revision \in DOMAIN m.engine.snapshots => m.engine.snapshots[m.revision] = m.todos
    BY <1>3, <1>4 DEF Refreshed
  <2>2. m.engine.revision = m.revision /\ c.engine = m.engine /\ c.todos = m.todos
    BY <1>2, <1>3, <1>4, <1>6, <1>8
  <2>3. result = ToolResult(Telling(m.revision, m.todos), {})
    BY <1>4
  <2> HIDE DEF result
  <2> QED BY <1>8, <2>1, <2>2, <2>3, SavesResult
<1> HIDE DEF result
<1>10. Pending(a, m, <<SaveEngine(seen), result>>)
  BY <1>6, <1>8, <1>9, TwoEntries DEF c
<1>11. Pending(branch, m, <<SaveEngine(e), SaveEngine(seen), result>>)
  BY <1>5, <1>10, ThreeEntries DEF a
<1>12. <<SaveEngine(e), SaveEngine(seen), result>> # <<>>
  OBVIOUS
<1> QED BY <1>1, <1>4, <1>11, <1>12, ToolCallKeeps

\* An engine with one more update in its ledger.
LEMMA AppliedKnows ==
    ASSUME NEW e, IsEngine(e), NEW key, NEW b, Knows(e, b)
    PROVE  LET r == RecordApplied(e, key, e.revision)
           IN  /\ IsEngine(r) /\ r.revision = e.revision /\ r.snapshots = e.snapshots
               /\ key \in r.ledger /\ Knows(r, b)
<1> DEFINE r == RecordApplied(e, key, e.revision)
<1>1. /\ IsEngine(r) /\ r.scope = e.scope /\ r.ledger = e.ledger \cup {key}
      /\ r.snapshots = e.snapshots /\ r.revision = e.revision
  BY AppliesKey
<1> HIDE DEF r
<1>2. Knows(r, b)
  BY <1>1 DEF Knows
<1> QED BY <1>1, <1>2 DEF r

\* An engine of the same revision is saved after another one.
LEMMA SavesNext ==
    ASSUME NEW b, NEW m, NEW e, DiskOk(b, m), b.engine # Unsaved, b.engine.revision = e.revision,
           IsEngine(e), Knows(e, b)
    PROVE  LET a == Appended(b, SaveEngine(e))
           IN  /\ DiskOk(a, m) /\ a.engine = e /\ a.engine # Unsaved
               /\ a.todos = b.todos /\ a.told = b.told /\ a.answered = b.answered
<1>1. /\ SavedOk(b) /\ e.revision <= m.revision
      /\ b.engine # Unsaved => b.engine.revision <= e.revision
  BY DEF DiskOk, IsEngine
<1> QED BY <1>1, SavesEngine

\* What is known of a place holds of one where the same was told and answered.
LEMMA KnowsSame ==
    ASSUME NEW e, NEW b, NEW a, Knows(e, b), a.told = b.told, a.answered = b.answered
    PROVE  Knows(e, a)
BY DEF Knows

\* The engine as it was is saved first.
LEMMA SavesFirst ==
    ASSUME TodoInv, TodoIdle, NEW m, m.revision \in Nat, live.revision <= m.revision
    PROVE  LET a == Appended(branch, SaveEngine(live.engine))
           IN  /\ DiskOk(branch, m) /\ DiskOk(a, m) /\ DiskOk(a, live) /\ a.engine = live.engine
               /\ a.engine # Unsaved /\ a.todos = live.todos /\ a.told = branch.told
               /\ a.answered = branch.answered /\ Knows(live.engine, a)
<1> DEFINE a == Appended(branch, SaveEngine(live.engine))
<1>1. /\ DiskOk(branch, live) /\ AtEnd(branch, live) /\ live.revision \in Nat
      /\ IsEngine(live.engine) /\ live.engine.revision = live.revision
  BY IdleIsSaved
<1>2. /\ SavedOk(branch) /\ live.engine.revision <= live.revision /\ Knows(live.engine, branch)
      /\ branch.engine # Unsaved => branch.engine.revision <= live.engine.revision
  BY <1>1 DEF DiskOk, AtEnd
<1>3. /\ DiskOk(a, live) /\ a.engine = live.engine /\ a.engine # Unsaved
      /\ a.todos = branch.todos /\ a.told = branch.told /\ a.answered = branch.answered
  BY <1>1, <1>2, SavesEngine
<1> HIDE DEF a
<1>4. DiskOk(branch, m) /\ DiskOk(a, m)
  BY <1>1, <1>3, LaterDisk
<1>5. Knows(live.engine, a)
  BY <1>2, <1>3, KnowsSame
<1> QED BY <1>1, <1>3, <1>4, <1>5 DEF AtEnd, a

\* todo_update, which finds the list as it is to be.
LEMMA IsThereKeeps ==
    ASSUME TodoInv, NEW op, NEW expected, UpdateIsThere(op, expected)
    PROVE  TodoInv'
<1> DEFINE e == live.engine
           key == UpdateKey(op, expected)
           applied == RecordApplied(e, key, live.revision)
           m == WithToolEngine(live, applied)
           a == Appended(branch, SaveEngine(e))
           c == Appended(a, SaveEngine(applied))
<1>1. TodoIdle /\ ToolCall(m, <<SaveEngine(e), SaveEngine(applied)>>)
  BY IdleIsSaved DEF UpdateIsThere
<1>2. /\ IsLive(live) /\ IsEngine(e) /\ live.revision \in Nat /\ e.revision = live.revision
      /\ Knows(e, branch)
  BY <1>1, IdleIsSaved DEF AtEnd
<1> HIDE DEF key
<1>3. IsEngine(applied) /\ applied.revision = live.revision
  <2>1. applied = RecordApplied(e, key, e.revision)
    BY <1>2
  <2> HIDE DEF applied
  <2> QED BY <1>2, <2>1, AppliesKey
<1>4. IsLive(m) /\ m.todos = live.todos /\ m.revision = live.revision /\ m.engine = applied
  BY <1>2, <1>3, EnginesLive
<1> HIDE DEF m
<1>5. live.revision <= m.revision /\ m.revision \in Nat
  BY <1>2, <1>4
<1>6. /\ DiskOk(branch, m) /\ DiskOk(a, m) /\ a.engine = e
      /\ a.engine # Unsaved /\ a.todos = live.todos /\ Knows(e, a)
  BY <1>1, <1>5, SavesFirst
<1> HIDE DEF a, e
<1>7. Knows(applied, a)
  BY <1>2, <1>6, AppliedKnows
<1> HIDE DEF applied
<1>8. /\ DiskOk(c, m) /\ c.todos = a.todos /\ c.told = a.told /\ c.answered = a.answered
  <2>1. a.engine.revision = applied.revision
    BY <1>2, <1>3, <1>6
  <2> QED BY <1>3, <1>6, <1>7, <2>1, SavesNext
<1> HIDE DEF c
<1>9. AtEnd(c, m)
  BY <1>4, <1>6, <1>7, <1>8, KnowsSame DEF AtEnd
<1>10. Pending(branch, m, <<SaveEngine(e), SaveEngine(applied)>>)
  BY <1>6, <1>8, <1>9, TwoEntries DEF a, c
<1>11. <<SaveEngine(e), SaveEngine(applied)>> # <<>>
  OBVIOUS
<1> QED BY <1>1, <1>4, <1>10, <1>11, ToolCallKeeps

\* todo_update, which changes the list.
LEMMA AppliesKeeps ==
    ASSUME TodoInv, NEW op, NEW expected, UpdateApplies(op, expected)
    PROVE  TodoInv'
<1> DEFINE e == live.engine
           key == UpdateKey(op, expected)
           n == SetTodos(live, ApplyOp(live.todos, op))
           recorded == RecordState(n.engine, n.revision, n.todos)
           applied == RecordApplied(recorded, key, n.revision)
           m == WithToolEngine(n, applied)
           result == ToolResult(Telling(n.revision, n.todos), {<<op, expected>>})
           a == Appended(branch, SaveEngine(e))
           b == Appended(a, SaveEngine(n.engine))
           c == Appended(b, SaveTodos(n.todos))
           d == Appended(c, SaveEngine(recorded))
           f == Appended(d, SaveEngine(applied))
<1>1. TodoIdle
  BY DEF UpdateApplies
<1>2. /\ IsLive(live) /\ IsEngine(e) /\ live.revision \in Nat /\ e.revision = live.revision
      /\ Knows(e, branch) /\ ToolEngine(live) = e
      /\ \A t \in branch.told : t.revision \in Nat /\ t.revision <= live.revision
  BY <1>1, IdleIsSaved DEF AtEnd
<1>3. /\ IsLive(n) /\ n.revision = live.revision + 1 /\ n.revision \in Nat
      /\ Refreshed(e, n.engine, n.todos) /\ n.engine.revision = n.revision /\ IsEngine(n.engine)
  BY <1>2, SetsTodos
<1>4. key = <<1, op, expected>>
  BY <1>2 DEF UpdateKey, Knows
<1>5. ToolEngine(n) = n.engine
  BY <1>3 DEF ToolEngine, IsLive
<1>6. ToolCall(m, <<SaveEngine(e)>> \o <<SaveEngine(n.engine), SaveTodos(n.todos)>>
                    \o <<SaveEngine(recorded), SaveEngine(applied), result>>)
  BY <1>2, <1>5, Zenon DEF UpdateApplies, SetEntries
<1> HIDE DEF n, key
<1>7. Refreshed(n.engine, recorded, n.todos) /\ recorded.revision = n.revision /\ IsEngine(recorded)
  BY <1>3, Records DEF Refreshed
<1> HIDE DEF recorded
<1>8. /\ IsEngine(applied) /\ applied.revision = n.revision /\ applied.ledger = recorded.ledger \cup {key}
      /\ applied.snapshots = recorded.snapshots /\ applied.scope = recorded.scope
  <2>1. applied = RecordApplied(recorded, key, recorded.revision)
    BY <1>7
  <2> HIDE DEF applied
  <2> QED BY <1>7, <2>1, AppliesKey
<1>9. IsLive(m) /\ m.todos = n.todos /\ m.revision = n.revision /\ m.engine = applied
  BY <1>3, <1>8, EnginesLive
<1> HIDE DEF m
<1>10. /\ DiskOk(branch, m) /\ DiskOk(a, m) /\ DiskOk(a, live) /\ a.engine = e
       /\ a.told = branch.told /\ Knows(e, a)
  <2>1. live.revision <= m.revision /\ m.revision \in Nat
    BY <1>2, <1>3, <1>9
  <2> QED BY <1>1, <2>1, SavesFirst
<1> HIDE DEF a, e
<1>11. Knows(n.engine, a)
  <2>1. \A t \in a.told : t.revision = n.engine.revision => t.todos = n.todos
    BY <1>2, <1>3, <1>10
  <2> QED BY <1>3, <1>10, <2>1, RefreshedKnows
<1>12. /\ DiskOk(b, m) /\ DiskOk(c, m) /\ c.engine = n.engine /\ c.engine # Unsaved
       /\ c.todos = n.todos /\ c.told = a.told /\ c.answered = a.answered
  <2>1. /\ DiskOk(b, n) /\ DiskOk(c, n) /\ c.engine = n.engine /\ c.engine # Unsaved
        /\ c.todos = n.todos /\ c.told = a.told /\ c.answered = a.answered
    BY <1>2, <1>3, <1>10, <1>11, SavesRevision
  <2>2. n.revision <= m.revision /\ m.revision \in Nat
    BY <1>3, <1>9
  <2> HIDE DEF b, c
  <2> QED BY <1>3, <2>1, <2>2, LaterDisk
<1> HIDE DEF b, c
<1>13. Knows(recorded, c)
  <2>1. Knows(n.engine, c)
    BY <1>11, <1>12, KnowsSame
  <2>2. \A t \in c.told : t.revision = recorded.revision => t.todos = n.todos
    BY <1>2, <1>3, <1>7, <1>10, <1>12
  <2> QED BY <1>7, <2>1, <2>2, RefreshedKnows
<1>14. /\ DiskOk(d, m) /\ d.engine = recorded /\ d.engine # Unsaved
       /\ d.todos = n.todos /\ d.told = c.told /\ d.answered = c.answered
  BY <1>3, <1>7, <1>12, <1>13, SavesNext
<1> HIDE DEF d
<1>15. Knows(applied, d)
  BY <1>7, <1>13, <1>14, AppliedKnows, KnowsSame
<1> HIDE DEF applied
<1>16. DiskOk(f, m) /\ f.engine = applied /\ f.engine # Unsaved /\ f.todos = n.todos
  BY <1>7, <1>8, <1>14, <1>15, SavesNext
<1> HIDE DEF f
<1>17. DiskOk(Appended(f, result), m) /\ AtEnd(Appended(f, result), m)
  <2>1. m.revision \in DOMAIN m.engine.snapshots => m.engine.snapshots[m.revision] = m.todos
    BY <1>7, <1>8, <1>9 DEF Refreshed
  <2>2. m.engine.revision = m.revision /\ f.engine = m.engine /\ f.todos = m.todos
    BY <1>8, <1>9, <1>16
  <2>3. result = ToolResult(Telling(m.revision, m.todos), {<<op, expected>>})
    BY <1>9
  <2>4. \A x \in {<<op, expected>>} : <<1, x[1], x[2]>> \in m.engine.ledger
    BY <1>4, <1>8, <1>9
  <2> HIDE DEF result
  <2> QED BY <1>16, <2>1, <2>2, <2>3, <2>4, SavesResult
<1> HIDE DEF result
<1>18. Pending(c, m, <<SaveEngine(recorded), SaveEngine(applied), result>>)
  <2>1. Pending(d, m, <<SaveEngine(applied), result>>)
    BY <1>14, <1>16, <1>17, TwoEntries DEF f
  <2> QED BY <1>12, <2>1, ThreeEntries DEF d
<1> DEFINE rest == <<SaveEngine(recorded), SaveEngine(applied), result>>
<1> HIDE DEF rest
<1>19. Pending(branch, m, <<SaveEngine(e)>> \o (<<SaveEngine(n.engine)>> \o (<<SaveTodos(n.todos)>> \o rest)))
  <2>1. Pending(b, m, <<SaveTodos(n.todos)>> \o rest)
    BY <1>12, <1>18, OnePending DEF c, rest
  <2>2. Pending(a, m, <<SaveEngine(n.engine)>> \o (<<SaveTodos(n.todos)>> \o rest))
    BY <1>10, <2>1, OnePending DEF b
  <2> QED BY <1>10, <2>2, OnePending DEF a
<1> DEFINE all == <<SaveEngine(e)>> \o <<SaveEngine(n.engine), SaveTodos(n.todos)>> \o rest
<1>20. all = <<SaveEngine(e)>> \o (<<SaveEngine(n.engine)>> \o (<<SaveTodos(n.todos)>> \o rest))
  <2>1. all = Six(SaveEngine(e), SaveEngine(n.engine), SaveTodos(n.todos),
                  SaveEngine(recorded), SaveEngine(applied), result)
    BY DEF all, rest, Six
  <2>2. OneByOne(SaveEngine(e), SaveEngine(n.engine), SaveTodos(n.todos),
                 SaveEngine(recorded), SaveEngine(applied), result)
          = <<SaveEngine(e)>> \o (<<SaveEngine(n.engine)>> \o (<<SaveTodos(n.todos)>> \o rest))
    BY DEF rest, OneByOne
  <2> QED BY <2>1, <2>2, SixInOrder
<1>21. all # <<>>
  BY DEF rest
<1>22. ToolCall(m, all)
  BY <1>6 DEF rest
<1> HIDE DEF all
<1>23. Pending(branch, m, all)
  BY <1>19, <1>20
<1> QED BY <1>1, <1>9, <1>21, <1>22, <1>23, ToolCallKeeps

\* The one session ends with its branch.
LEMMA EndsThere ==
    ASSUME NEW f, NEW b, NEW c, NEW i, f = [s \in {1} |-> b], i = 1
    PROVE  [f EXCEPT ![i] = c] = [s \in {1} |-> c]
OBVIOUS

\* A session that is opened.
LEMMA OpensLive ==
    ASSUME NEW t, NEW e, IsEngine(e)
    PROVE  LET m == OpenSession(1, t, e, Unsaved)
           IN  /\ IsLive(m) /\ m.todos = t /\ m.revision = e.revision /\ m.engine = e
<1>1. ASSUME NEW u, u = TRUE, NEW l
      PROVE  LET m == LiveRecord(u, 1, t, e.revision, e, Unsaved, l)
             IN  /\ IsLive(m) /\ m.todos = t /\ m.revision = e.revision /\ m.engine = e
  <2> DEFINE m == LiveRecord(u, 1, t, e.revision, e, Unsaved, l)
  <2>1. /\ m.todos = t /\ m.revision = e.revision /\ m.engine = e /\ m.locked = l
        /\ m = [up |-> TRUE, session |-> 1, todos |-> t, revision |-> e.revision,
                engine |-> e, captured |-> Unsaved, locked |-> l]
    BY <1>1 DEF LiveRecord
  <2> HIDE DEF m
  <2>2. IsLive(m)
    BY <2>1 DEF IsLive
  <2> QED BY <2>1, <2>2 DEF m
<1>2. OpenSession(1, t, e, Unsaved) = LiveRecord(TRUE, 1, t, e.revision, e, Unsaved, FALSE)
  BY Zenon DEF OpenSession, LiveRecord
<1> QED BY <1>1, <1>2, Zenon

\* Entries are appended.
LEMMA AppendKeeps == ASSUME TodoInv, AppendNext PROVE TodoInv'
<1>1. /\ live.up /\ appends # <<>> /\ IsLive(live) /\ Pending(branch, live, appends)
      /\ ends = [s \in {1} |-> branch]
  BY DEF TodoInv, AppendNext
<1>2. /\ branch' = Appended(branch, Head(appends)) /\ appends' = Tail(appends)
      /\ live' = live /\ ends' = [ends EXCEPT ![live.session] = branch']
  BY DEF AppendNext
<1>3. SavedOk(branch') /\ Pending(branch', live', appends')
  BY <1>1, <1>2, HeadAppended
<1>4. ends' = [s \in {1} |-> branch']
  <2>1. live.session = 1
    BY <1>1 DEF IsLive
  <2> QED BY <1>1, <1>2, <2>1, EndsThere
<1> QED BY <1>1, <1>2, <1>3, <1>4 DEF TodoInv

\* recordProgress saves the engine.
LEMMA EndsKeeps == ASSUME TodoInv, ToolEnds PROVE TodoInv'
<1> DEFINE a == Appended(branch, SaveEngine(live.engine))
<1>1. /\ TodoIdle /\ branch' = a /\ ends' = [ends EXCEPT ![live.session] = branch']
      /\ live' = live /\ appends' = appends
  BY DEF ToolEnds
<1>2. /\ IsLive(live) /\ live.revision \in Nat /\ live.revision <= live.revision
  BY <1>1, IdleIsSaved
<1>3. DiskOk(a, live) /\ a.todos = live.todos /\ Knows(live.engine, a)
  BY <1>1, <1>2, SavesFirst
<1> HIDE DEF a
<1>4. Pending(a, live, <<>>)
  BY <1>3, NothingPending DEF AtEnd
<1>5. ends' = [s \in {1} |-> branch']
  <2>1. live.session = 1 /\ ends = [s \in {1} |-> branch]
    BY <1>2 DEF TodoInv, IsLive
  <2> QED BY <1>1, <2>1, EndsThere
<1>6. SavedOk(a) /\ appends = <<>> /\ live.up
  BY <1>1, <1>3 DEF DiskOk, TodoIdle
<1> QED BY <1>1, <1>2, <1>4, <1>5, <1>6 DEF TodoInv

\* A message of the user.
LEMMA TurnKeeps == ASSUME TodoInv, UserTurn PROVE TodoInv'
<1> DEFINE m == WithLock(live, FALSE)
<1>1. /\ TodoIdle /\ live' = m /\ ends' = [ends EXCEPT ![live.session] = branch]
      /\ branch' = branch /\ appends' = appends /\ appends = <<>>
  BY DEF UserTurn, TodoIdle, WithLock
<1>2. IsLive(live) /\ DiskOk(branch, live) /\ AtEnd(branch, live) /\ SavedOk(branch)
  BY <1>1, IdleIsSaved DEF DiskOk
<1>3. /\ IsLive(m) /\ m.todos = live.todos /\ m.revision = live.revision /\ m.engine = live.engine
  BY <1>2, LocksLive, Zenon
<1> HIDE DEF m
<1>4. DiskOk(branch, m) /\ AtEnd(branch, m)
  BY <1>2, <1>3 DEF DiskOk, AtEnd
<1>5. Pending(branch, m, <<>>)
  BY <1>4, NothingPending
<1>6. ends' = [s \in {1} |-> branch'] /\ m.up
  <2>1. live.session = 1 /\ ends = [s \in {1} |-> branch] /\ m.up
    BY <1>2, <1>3 DEF TodoInv, IsLive
  <2> QED BY <1>1, <2>1, EndsThere
<1> QED BY <1>1, <1>2, <1>3, <1>5, <1>6 DEF TodoInv

\* The process dies, with what it has appended.
LEMMA DiesKeeps == ASSUME TodoInv, TodoProcessDies PROVE TodoInv'
<1>1. /\ live' = NoProcess /\ appends' = <<>> /\ branch' = branch /\ ends' = ends
  BY DEF TodoProcessDies
<1>2. live'.up = FALSE
  BY <1>1 DEF NoProcess
<1> QED BY <1>1, <1>2 DEF TodoInv

\* A process is opened at any place.
LEMMA StartKeeps == ASSUME TodoInv, NEW s, TodoProcessStarts(s) PROVE TodoInv'
<1> DEFINE e == RestoredEngine(1, branch)
           m == OpenSession(1, branch.todos, e, Unsaved)
           a == Appended(branch, SaveEngine(e))
<1>1. s = 1 /\ ends[s] = branch /\ SavedOk(branch) /\ ends = [t \in {1} |-> branch]
  BY DEF TodoProcessStarts, TodoInv
<1>2. /\ live' = m /\ branch' = branch /\ ends' = ends
      /\ appends' = <<SaveEngine(e)>> \/ appends' = <<>>
  BY <1>1 DEF TodoProcessStarts, OpensSession
<1>3. IsEngine(e) /\ Knows(e, branch) /\ (branch.engine # Unsaved => branch.engine.revision = e.revision)
  BY <1>1, RestoresEngine
<1> HIDE DEF e
<1>4. /\ IsLive(m) /\ m.todos = branch.todos /\ m.revision = e.revision /\ m.engine = e
      /\ m.up = TRUE
  <2>1. /\ IsLive(m) /\ m.todos = branch.todos /\ m.revision = e.revision /\ m.engine = e
    BY <1>3, OpensLive
  <2> HIDE DEF m
  <2> QED BY <2>1 DEF IsLive
<1> HIDE DEF m
<1>5. DiskOk(branch, m) /\ AtEnd(branch, m)
  BY <1>1, <1>3, <1>4 DEF DiskOk, AtEnd, IsEngine
<1>6. DiskOk(a, m) /\ AtEnd(a, m)
  <2>1. /\ e.revision <= m.revision
        /\ branch.engine # Unsaved => branch.engine.revision <= e.revision
    BY <1>3, <1>4 DEF IsEngine
  <2>2. DiskOk(a, m) /\ a.todos = branch.todos /\ a.told = branch.told /\ a.answered = branch.answered
    BY <1>1, <1>3, <2>1, SavesEngine
  <2> HIDE DEF a
  <2> QED BY <1>3, <1>4, <2>2, KnowsSame DEF AtEnd
<1>7. Pending(branch, m, <<>>) /\ Pending(branch, m, <<SaveEngine(e)>>)
  <2>1. Pending(branch, m, <<>>) /\ Pending(a, m, <<>>)
    BY <1>5, <1>6, NothingPending
  <2>2. Pending(branch, m, <<SaveEngine(e)>> \o <<>>)
    BY <1>5, <2>1, OnePending
  <2>3. <<SaveEngine(e)>> \o <<>> = <<SaveEngine(e)>>
    OBVIOUS
  <2> QED BY <2>1, <2>2, <2>3
<1>8. Pending(branch, m, appends')
  BY <1>2, <1>7
<1>9. ends' = [t \in {1} |-> branch']
  BY <1>1, <1>2
<1> QED BY <1>1, <1>2, <1>4, <1>8, <1>9 DEF TodoInv

\* A session of a version without engine, or a new one.
LEMMA TodoStarts == ASSUME TodoInit PROVE TodoInv
<1>1. /\ branch \in OldSessions \cup {NothingSaved} /\ ends = [s \in {1} |-> branch]
      /\ appends = <<>> /\ live.up = FALSE
  BY DEF TodoInit, NoProcess
<1>2. PICK list : branch = Saved(list, Unsaved, {}, {})
  BY <1>1 DEF OldSessions, NothingSaved
<1>3. /\ branch = Saved(branch.todos, branch.engine, branch.told, branch.answered)
      /\ branch.engine = Unsaved /\ branch.told = {} /\ branch.answered = {}
  BY <1>2 DEF Saved
<1>4. SavedOk(branch)
  BY <1>3 DEF SavedOk
<1> QED BY <1>1, <1>4 DEF TodoInv

\* TodoInv is inductive.
LEMMA TodoKept == ASSUME TodoInv, [TodoNext]_todoVars PROVE TodoInv'
<1>1. CASE AppendNext
  BY <1>1, AppendKeeps
<1>2. CASE TodoRead
  BY <1>2, ReadKeeps
<1>3. CASE ToolEnds
  BY <1>3, EndsKeeps
<1>4. CASE UserTurn
  BY <1>4, TurnKeeps
<1>5. CASE TodoProcessDies
  BY <1>5, DiesKeeps
<1>6. CASE \E list \in Plans : TodoWrite(list)
  BY <1>6, WriteKeeps
<1>7. ASSUME NEW op, NEW expected,
             \/ UpdateAgain(op, expected) \/ UpdateApplies(op, expected)
             \/ UpdateIsThere(op, expected) \/ UpdateChangesNothing(op, expected)
      PROVE  TodoInv'
  <2>1. CASE UpdateAgain(op, expected)
    BY <2>1, EngineKeeps DEF UpdateAgain
  <2>2. CASE UpdateApplies(op, expected)
    BY <2>2, AppliesKeeps
  <2>3. CASE UpdateIsThere(op, expected)
    BY <2>3, IsThereKeeps
  <2>4. CASE UpdateChangesNothing(op, expected)
    BY <2>4, EngineKeeps DEF UpdateChangesNothing
  <2> QED BY <1>7, <2>1, <2>2, <2>3, <2>4
<1>8. CASE \E s \in TodoSessions : TodoProcessStarts(s)
  BY <1>8, StartKeeps
<1>9. CASE UNCHANGED todoVars
  BY <1>9 DEF todoVars, TodoInv
<1> QED BY <1>1, <1>2, <1>3, <1>4, <1>5, <1>6, <1>7, <1>8, <1>9 DEF TodoNext

\* The list, its engine and the entries of the session, wherever the process dies.
THEOREM TodosAreSaved == TodoSpec => []TodoInv
<1>1. TodoInit => TodoInv
  BY TodoStarts
<1>2. TodoInv /\ [TodoNext]_todoVars => TodoInv'
  BY TodoKept
<1> QED BY <1>1, <1>2, PTL DEF TodoSpec

\* _setTodos appends the engine before the list, and a tool call up to six entries: wherever
\* the process dies between them, and whatever process opens the session next, a revision
\* the model was told never stands for another list than it was told with.
THEOREM RevisionsNameLists == TodoSpec => []RevisionNamesList
<1>1. TodoInv => RevisionNamesList
  BY IdleIsSaved DEF RevisionNamesList
<1>2. TodoSpec => []TodoInv
  BY TodosAreSaved
<1> QED BY <1>1, <1>2, PTL

-----------------------------------------------------------------------------
(* Lists and their items                                                   *)

\* A list of the tools: items with a status, of different ids.
ListOk(list) ==
    /\ IsList(list)
    /\ \A i \in 1..Len(list) :
         /\ list[i] = TodoItem(list[i].id, list[i].status, list[i].content)
         /\ list[i].status # KeepField
    /\ \A i, j \in 1..Len(list) : list[i].id = list[j].id => i = j

\* Items of a list with the same id are the same.
LEMMA ItemsOf ==
    ASSUME NEW list, ListOk(list)
    PROVE  /\ Len(list) \in Nat /\ DOMAIN list = 1..Len(list)
           /\ ToSet(list) = {list[i] : i \in 1..Len(list)}
           /\ \A t \in ToSet(list) : t.status # KeepField
           /\ \A t, u \in ToSet(list) : t.id = u.id => t = u
<1>1. PICK S : list \in Seq(S)
  BY DEF ListOk, IsList
<1>2. Len(list) \in Nat /\ DOMAIN list = 1..Len(list)
  BY <1>1
<1>3. ToSet(list) = {list[i] : i \in 1..Len(list)}
  BY <1>2 DEF ToSet
<1> QED BY <1>2, <1>3 DEF ListOk

\* An item is found where it is.
LEMMA ItemFound ==
    ASSUME NEW list, ListOk(list), NEW j \in 1..Len(list)
    PROVE  ItemPosition(list, list[j].id) = j
<1> DEFINE I == {i \in 1..Len(list) : list[i].id = list[j].id}
<1>1. I = {j}
  BY DEF ListOk
<1>2. Min({j}) = j
  BY DEF Min
<1>3. ItemPosition(list, list[j].id) = IF I # {} THEN Min(I) ELSE 0
  BY DEF ItemPosition, SelectInSeq
<1> HIDE DEF I
<1> QED BY <1>1, <1>2, <1>3

WithStatus(item, x) == [item EXCEPT !.status = x]
WithContent(item, x) == [item EXCEPT !.content = x]

\* A field of an item is replaced.
LEMMA ItemField ==
    ASSUME NEW i, NEW s, NEW c, NEW x
    PROVE  /\ WithStatus(TodoItem(i, s, c), x) = TodoItem(i, x, c)
           /\ WithContent(TodoItem(i, s, c), x) = TodoItem(i, s, x)
BY DEF TodoItem, WithStatus, WithContent

\* applyOps replaces fields of the item with the id.
LEMMA AppliesToItem ==
    ASSUME NEW list, ListOk(list), NEW j \in 1..Len(list), NEW op, op.id = list[j].id
    PROVE  LET item == list[j]
               new == TodoItem(item.id, IF op.status = KeepField THEN item.status ELSE op.status,
                               IF op.content = KeepField THEN item.content ELSE op.content)
           IN  ApplyOp(list, op) = [list EXCEPT ![j] = new]
<1> DEFINE item == list[j]
           st == IF op.status = KeepField THEN item.status ELSE op.status
           ct == IF op.content = KeepField THEN item.content ELSE op.content
           new == TodoItem(item.id, st, ct)
           one == [list EXCEPT ![j].status = st]
           two == [one EXCEPT ![j].content = ct]
<1>1. ItemPosition(list, op.id) = j
  BY ItemFound
<1>2. PICK S : list \in Seq(S)
  BY DEF ListOk, IsList
<1>3. item = TodoItem(item.id, item.status, item.content)
  BY DEF ListOk
<1>4. j \in DOMAIN list
  BY <1>2
<1>5. ApplyOp(list, op) = [list EXCEPT ![j].status = st, ![j].content = ct]
  BY <1>1, <1>4 DEF ApplyOp
<1> DEFINE r1 == TodoItem(item.id, st, item.content)
           r2 == TodoItem(item.id, st, ct)
<1>6. WithStatus(item, st) = r1 /\ WithContent(r1, ct) = r2
  <2> HIDE DEF st, ct, item
  <2> QED BY <1>3, ItemField
<1>7. one = [list EXCEPT ![j] = r1]
  <2>1. one = [list EXCEPT ![j] = WithStatus(list[j], st)]
    BY <1>4 DEF WithStatus
  <2> QED BY <2>1, <1>6
<1>8. two = [list EXCEPT ![j] = r2]
  <2>1. two = [one EXCEPT ![j] = WithContent(one[j], ct)]
    BY DEF WithContent
  <2>2. one[j] = r1
    BY <1>4, <1>7
  <2>3. [one EXCEPT ![j] = r2] = [list EXCEPT ![j] = r2]
    BY <1>4, <1>7
  <2> QED BY <2>1, <2>2, <2>3, <1>6
<1> QED BY <1>5, <1>8

\* What applyOps leaves.
LEMMA AppliedList ==
    ASSUME NEW list, ListOk(list), NEW item \in ToSet(list), NEW op, op.id = item.id
    PROVE  /\ ListOk(ApplyOp(list, op))
           /\ op.status \in {KeepField, item.status} /\ op.content \in {KeepField, item.content}
                => ApplyOp(list, op) = list
<1>1. PICK j \in 1..Len(list) : item = list[j]
  BY ItemsOf
<1> DEFINE st == IF op.status = KeepField THEN item.status ELSE op.status
           ct == IF op.content = KeepField THEN item.content ELSE op.content
           new == TodoItem(item.id, st, ct)
           a == ApplyOp(list, op)
<1>2. a = [list EXCEPT ![j] = new]
  BY <1>1, AppliesToItem
<1>3. PICK S : list \in Seq(S)
  BY DEF ListOk, IsList
<1>4. /\ IsList(a) /\ Len(a) = Len(list) /\ a[j] = new
      /\ \A i \in 1..Len(list) : i # j => a[i] = list[i]
  <2>1. a \in Seq(S \cup {new})
    BY <1>2, <1>3
  <2>2. Len(a) = Len(list) /\ a[j] = new /\ \A i \in 1..Len(list) : i # j => a[i] = list[i]
    BY <1>2, <1>3
  <2> QED BY <2>1, <2>2 DEF IsList
<1>5. new.id = item.id /\ new.status = st /\ new.content = ct /\ new = TodoItem(new.id, new.status, new.content)
  BY DEF TodoItem
<1>6. st # KeepField
  BY <1>1 DEF ListOk
<1> HIDE DEF a, new
<1>7. ListOk(a)
  <2>1. \A i \in 1..Len(a) : a[i].id = list[i].id
    BY <1>1, <1>4, <1>5
  <2>2. ASSUME NEW i \in 1..Len(a)
        PROVE  a[i] = TodoItem(a[i].id, a[i].status, a[i].content) /\ a[i].status # KeepField
    <3>1. CASE i = j
      BY <3>1, <1>4, <1>5, <1>6
    <3>2. CASE i # j
      BY <3>2, <1>4 DEF ListOk
    <3> QED BY <3>1, <3>2
  <2>3. \A i, k \in 1..Len(a) : a[i].id = a[k].id => i = k
    BY <1>4, <2>1 DEF ListOk
  <2> QED BY <1>4, <2>2, <2>3 DEF ListOk
<1>8. ASSUME op.status \in {KeepField, item.status}, op.content \in {KeepField, item.content}
      PROVE  a = list
  <2>1. st = item.status /\ ct = item.content
    BY <1>8
  <2>2. new = list[j]
    BY <1>1, <2>1 DEF ListOk, new
  <2> QED BY <1>2, <1>3, <2>2
<1> QED BY <1>7, <1>8 DEF a

-----------------------------------------------------------------------------
(* Every list has different ids                                            *)

\* An entry whose lists are lists of the tools.
EntryOk(x) ==
    \/ \E e : x = SaveEngine(e)
    \/ \E l : ListOk(l) /\ x = SaveTodos(l)
    \/ \E told, a : (\A seen \in told : ListOk(seen.todos)) /\ x = ToolResult(told, a)

EntriesOk(s) == IsList(s) /\ \A i \in 1..Len(s) : EntryOk(s[i])

PlaceOk(b) == ListOk(b.todos) /\ \A seen \in b.told : ListOk(seen.todos)

ListsInv ==
    /\ PlaceOk(branch) /\ EntriesOk(appends)
    /\ live.up => ListOk(live.todos)

\* Entries after others.
LEMMA EntriesTogether ==
    ASSUME NEW s, NEW t, EntriesOk(s), EntriesOk(t)
    PROVE  EntriesOk(s \o t)
<1>1. PICK S : s \in Seq(S)
  BY DEF EntriesOk, IsList
<1>2. PICK T : t \in Seq(T)
  BY DEF EntriesOk, IsList
<1>3. s \in Seq(S \cup T) /\ t \in Seq(S \cup T)
  BY <1>1, <1>2
<1>4. s \o t \in Seq(S \cup T) /\ Len(s \o t) = Len(s) + Len(t) /\ Len(s) \in Nat /\ Len(t) \in Nat
  BY <1>3
<1>5. ASSUME NEW i \in 1..Len(s \o t) PROVE EntryOk((s \o t)[i])
  <2>1. CASE i <= Len(s)
    <3>1. i \in 1..Len(s) /\ (s \o t)[i] = s[i]
      BY <2>1, <1>3, <1>4
    <3> QED BY <3>1 DEF EntriesOk
  <2>2. CASE i > Len(s)
    <3>1. i - Len(s) \in 1..Len(t) /\ (s \o t)[i] = t[i - Len(s)]
      BY <2>2, <1>3, <1>4
    <3> QED BY <3>1 DEF EntriesOk
  <2> QED BY <2>1, <2>2, <1>4
<1> QED BY <1>4, <1>5 DEF EntriesOk, IsList

\* Up to three entries.
LEMMA FewEntries ==
    ASSUME NEW x, NEW y, NEW z, EntryOk(x), EntryOk(y), EntryOk(z)
    PROVE  /\ EntriesOk(<<>>) /\ EntriesOk(<<x>>) /\ EntriesOk(<<x, y>>)
           /\ EntriesOk(<<x, y, z>>)
<1> DEFINE S == {x, y, z}
<1>1. <<>> \in Seq(S) /\ <<x>> \in Seq(S) /\ <<x, y>> \in Seq(S) /\ <<x, y, z>> \in Seq(S)
  OBVIOUS
<1>2. \A w \in S : EntryOk(w)
  OBVIOUS
<1>3. ASSUME NEW s, s \in Seq(S) PROVE EntriesOk(s)
  <2>1. \A i \in 1..Len(s) : s[i] \in S
    BY <1>3
  <2> HIDE DEF S
  <2> QED BY <1>2, <1>3, <2>1 DEF EntriesOk, IsList
<1> HIDE DEF S
<1> QED BY <1>1, <1>3

\* A tool call.
LEMMA ToolCallLists ==
    ASSUME ListsInv, NEW m, NEW s, ListOk(m.todos), EntriesOk(s), s # <<>>, ToolCall(m, s)
    PROVE  ListsInv'
<1>1. EntriesOk(Tail(s))
  <2>1. IsList(Tail(s)) /\ Len(Tail(s)) = Len(s) - 1 /\ Len(s) \in Nat \ {0}
        /\ \A k \in 1..(Len(s) - 1) : Tail(s)[k] = s[k + 1]
    BY ListTail DEF EntriesOk
  <2>2. \A k \in 1..(Len(s) - 1) : k + 1 \in 1..Len(s)
    BY <2>1
  <2> QED BY <2>1, <2>2 DEF EntriesOk
<1>2. EntriesOk(appends') /\ live' = m /\ branch' = branch
  BY <1>1 DEF ToolCall
<1> QED BY <1>2 DEF ListsInv

\* An entry is appended.
LEMMA AppendsList ==
    ASSUME NEW b, SavedOk(b), PlaceOk(b), NEW x, EntryOk(x)
    PROVE  PlaceOk(Appended(b, x))
<1>1. ASSUME NEW e, x = SaveEngine(e) PROVE PlaceOk(Appended(b, x))
  <2>1. Appended(b, x) = Saved(b.todos, e, b.told, b.answered)
    BY <1>1, AppendsEntry
  <2> QED BY <2>1 DEF PlaceOk, Saved
<1>2. ASSUME NEW l, ListOk(l), x = SaveTodos(l) PROVE PlaceOk(Appended(b, x))
  <2>1. Appended(b, x) = Saved(l, b.engine, b.told, b.answered)
    BY <1>2, AppendsEntry
  <2> QED BY <1>2, <2>1 DEF PlaceOk, Saved
<1>3. ASSUME NEW told, NEW a, \A seen \in told : ListOk(seen.todos), x = ToolResult(told, a)
      PROVE  PlaceOk(Appended(b, x))
  <2>1. Appended(b, x) = Saved(b.todos, b.engine, told, b.answered \cup a)
    BY <1>3, AppendsEntry
  <2> QED BY <1>3, <2>1 DEF PlaceOk, Saved
<1> QED BY <1>1, <1>2, <1>3 DEF EntryOk

\* The entries of the tools.
LEMMA EntriesAreOk ==
    /\ \A e : EntryOk(SaveEngine(e))
    /\ \A l : ListOk(l) => EntryOk(SaveTodos(l))
    /\ \A rev, l, a : ListOk(l) => EntryOk(ToolResult(Telling(rev, l), a))
<1>1. ASSUME NEW rev, NEW l, NEW a, ListOk(l) PROVE EntryOk(ToolResult(Telling(rev, l), a))
  <2>1. \A seen \in Telling(rev, l) : ListOk(seen.todos)
    BY <1>1 DEF Telling
  <2> QED BY <2>1 DEF EntryOk
<1>2. \A e : EntryOk(SaveEngine(e))
  BY DEF EntryOk
<1>3. \A l : ListOk(l) => EntryOk(SaveTodos(l))
  BY DEF EntryOk
<1> QED BY <1>1, <1>2, <1>3

\* A call that only saves the engine.
LEMMA EngineLists ==
    ASSUME ListsInv, TodoIdle, ToolCall(live, <<SaveEngine(ToolEngine(live))>>)
    PROVE  ListsInv'
<1> DEFINE x == SaveEngine(ToolEngine(live))
<1>1. EntryOk(x) /\ <<x>> # <<>> /\ ListOk(live.todos)
  BY EntriesAreOk DEF ListsInv, TodoIdle
<1> HIDE DEF x
<1>2. EntriesOk(<<x>>)
  BY <1>1, FewEntries
<1>3. ToolCall(live, <<x>>)
  BY DEF x
<1> QED BY <1>1, <1>2, <1>3, ToolCallLists

\* The process with another engine has the same list.
LEMMA SameList ==
    ASSUME NEW m, IsLive(m), NEW e
    PROVE  WithToolEngine(m, e).todos = m.todos
<1> DEFINE r == LiveOne(m.up, m.todos, m.revision, e, m.locked)
<1>1. m.captured = Unsaved
  BY DEF IsLive
<1>2. WithToolEngine(m, e) = WithEngine(m, e)
  BY <1>1, Zenon DEF WithToolEngine, WithEngine
<1>3. WithEngine(m, e) = r
  <2>1. m = LiveOne(m.up, m.todos, m.revision, m.engine, m.locked)
    BY IsLiveOne
  <2>2. WithEngine(LiveOne(m.up, m.todos, m.revision, m.engine, m.locked), e) = r
    BY LiveOneFields
  <2> QED BY <2>1, <2>2, Zenon
<1>4. r.todos = m.todos
  BY DEF LiveOne, LiveRecord
<1> HIDE DEF r
<1> QED BY <1>2, <1>3, <1>4

\* The lists todo_write is called with.
LEMMA PlansAreLists == \A list \in Plans : ListOk(list)
<1> TAKE list \in Plans
<1>1. list \in Seq(ToSet(list))
  BY PlansAssumption
<1>2. IsList(list) /\ DOMAIN list = 1..Len(list)
  BY <1>1 DEF IsList
<1> QED BY <1>2, PlansAssumption DEF ListOk

\* The tools.
LEMMA WriteLists ==
    ASSUME TodoInv, ListsInv, NEW list \in Plans, TodoWrite(list)
    PROVE  ListsInv'
<1> DEFINE n == SetTodos(live, list)
           m == [n EXCEPT !.locked = TRUE]
           x == SaveEngine(n.engine)
           y == SaveTodos(n.todos)
           z == ToolResult(Telling(n.revision, list), {})
<1>1. TodoIdle /\ ToolCall(m, <<x, y>> \o <<z>>)
  BY DEF TodoWrite, SetEntries
<1>2. IsLive(live) /\ ListOk(list)
  BY <1>1, IdleIsSaved, PlansAreLists
<1>3. IsLive(n) /\ n.todos = list
  BY <1>2, SetsTodos
<1> HIDE DEF n
<1>4. m.todos = list
  <2>1. m = WithLock(n, TRUE)
    BY DEF WithLock
  <2>2. WithLock(n, TRUE).todos = n.todos
    BY <1>3, LocksLive, Zenon
  <2> QED BY <1>3, <2>1, <2>2, Zenon
<1> HIDE DEF m
<1>5. EntryOk(x) /\ EntryOk(y) /\ EntryOk(z)
  BY <1>2, <1>3, EntriesAreOk
<1> HIDE DEF x, y, z
<1>6. EntriesOk(<<x, y>>) /\ EntriesOk(<<z>>)
  BY <1>5, FewEntries
<1>7. EntriesOk(<<x, y>> \o <<z>>) /\ <<x, y>> \o <<z>> # <<>>
  BY <1>6, EntriesTogether
<1> DEFINE s == <<x, y>> \o <<z>>
<1> HIDE DEF s
<1>8. EntriesOk(s) /\ s # <<>> /\ ToolCall(m, s) /\ ListOk(m.todos)
  BY <1>1, <1>2, <1>4, <1>7 DEF s
<1> QED BY <1>8, ToolCallLists

\* todo_read leaves the list.
LEMMA ReadLists == ASSUME TodoInv, ListsInv, TodoRead PROVE ListsInv'
<1> DEFINE seen == RecordReadSnapshot(live.engine, live.revision, live.todos)
           m == WithToolEngine(live, seen)
           x == SaveEngine(live.engine)
           y == SaveEngine(seen)
           z == ToolResult(Telling(live.revision, live.todos), {})
<1>1. TodoIdle /\ ToolCall(m, <<x, y, z>>)
  BY IdleIsSaved DEF TodoRead
<1>2. IsLive(live) /\ ListOk(live.todos)
  BY <1>1, IdleIsSaved DEF ListsInv, TodoIdle
<1>3. m.todos = live.todos
  BY <1>2, SameList
<1> HIDE DEF m
<1>4. EntryOk(x) /\ EntryOk(y) /\ EntryOk(z)
  BY <1>2, EntriesAreOk
<1> HIDE DEF x, y, z
<1>5. EntriesOk(<<x, y, z>>) /\ <<x, y, z>> # <<>>
  BY <1>4, FewEntries
<1> QED BY <1>1, <1>2, <1>3, <1>5, ToolCallLists

\* So does an update that finds the list as it is to be.
LEMMA IsThereLists ==
    ASSUME TodoInv, ListsInv, NEW op, NEW expected, UpdateIsThere(op, expected)
    PROVE  ListsInv'
<1> DEFINE applied == RecordApplied(live.engine, UpdateKey(op, expected), live.revision)
           m == WithToolEngine(live, applied)
           x == SaveEngine(live.engine)
           y == SaveEngine(applied)
<1>1. TodoIdle /\ ToolCall(m, <<x, y>>)
  BY IdleIsSaved DEF UpdateIsThere
<1>2. IsLive(live) /\ ListOk(live.todos)
  BY <1>1, IdleIsSaved DEF ListsInv, TodoIdle
<1>3. m.todos = live.todos
  BY <1>2, SameList
<1> HIDE DEF m
<1>4. EntryOk(x) /\ EntryOk(y)
  BY EntriesAreOk
<1> HIDE DEF x, y
<1>5. EntriesOk(<<x, y>>) /\ <<x, y>> # <<>>
  BY <1>4, FewEntries
<1> QED BY <1>1, <1>2, <1>3, <1>5, ToolCallLists

\* The item of an update that fits.
LEMMA FitsItem ==
    ASSUME NEW op, NEW expected, UpdateFits(op, expected)
    PROVE  \E item \in ToSet(live.todos) :
             /\ item.id = op.id
             /\ expected # live.revision => Suits(ToolEngine(live), expected, item, op)
BY DEF UpdateFits

\* An update keeps the ids of the list.
LEMMA AppliesLists ==
    ASSUME TodoInv, ListsInv, NEW op, NEW expected, UpdateApplies(op, expected)
    PROVE  ListsInv'
<1> DEFINE list == ApplyOp(live.todos, op)
           n == SetTodos(live, list)
           recorded == RecordState(n.engine, n.revision, n.todos)
           applied == RecordApplied(recorded, UpdateKey(op, expected), n.revision)
           m == WithToolEngine(n, applied)
           v == SaveEngine(live.engine)
           w == SaveEngine(n.engine)
           x == SaveTodos(n.todos)
           y == SaveEngine(recorded)
           z == SaveEngine(applied)
           r == ToolResult(Telling(n.revision, n.todos), {<<op, expected>>})
<1>1. TodoIdle
  BY DEF UpdateApplies
<1>2. IsLive(live) /\ ListOk(live.todos) /\ ToolEngine(live) = live.engine
  BY <1>1, IdleIsSaved DEF ListsInv, TodoIdle
<1>3. ListOk(list)
  <2>1. PICK item \in ToSet(live.todos) : item.id = op.id
    BY FitsItem DEF UpdateApplies
  <2> QED BY <1>2, <2>1, AppliedList
<1>4. IsLive(n) /\ n.todos = list
  BY <1>2, SetsTodos
<1>5. ToolEngine(n) = n.engine
  BY <1>4 DEF ToolEngine, IsLive
<1>6. ToolCall(m, <<v>> \o <<w, x>> \o <<y, z, r>>)
  BY <1>2, <1>5, Zenon DEF UpdateApplies, SetEntries
<1> HIDE DEF n, list
<1>7. m.todos = n.todos
  BY <1>4, SameList
<1> HIDE DEF m
<1>8. EntryOk(v) /\ EntryOk(w) /\ EntryOk(x) /\ EntryOk(y) /\ EntryOk(z) /\ EntryOk(r)
  BY <1>3, <1>4, EntriesAreOk
<1> HIDE DEF v, w, x, y, z, r
<1>9. EntriesOk(<<v>>) /\ EntriesOk(<<w, x>>) /\ EntriesOk(<<y, z, r>>)
  BY <1>8, FewEntries
<1>10. EntriesOk(<<v>> \o <<w, x>> \o <<y, z, r>>) /\ <<v>> \o <<w, x>> \o <<y, z, r>> # <<>>
  <2>1. EntriesOk(<<v>> \o <<w, x>>)
    BY <1>9, EntriesTogether
  <2>2. EntriesOk(<<v>> \o <<w, x>> \o <<y, z, r>>)
    BY <1>9, <2>1, EntriesTogether
  <2> QED BY <2>2
<1> DEFINE s == <<v>> \o <<w, x>> \o <<y, z, r>>
<1> HIDE DEF s
<1>11. EntriesOk(s) /\ s # <<>> /\ ToolCall(m, s) /\ ListOk(m.todos)
  BY <1>3, <1>4, <1>6, <1>7, <1>10 DEF s
<1> QED BY <1>11, ToolCallLists

\* A process is opened.
LEMMA StartLists == ASSUME TodoInv, ListsInv, NEW s, TodoProcessStarts(s) PROVE ListsInv'
<1> DEFINE e == RestoredEngine(1, branch)
           m == OpenSession(1, branch.todos, e, Unsaved)
<1>1. s = 1 /\ ends[s] = branch /\ SavedOk(branch)
  BY DEF TodoProcessStarts, TodoInv
<1>2. /\ live' = m /\ branch' = branch
      /\ appends' = <<SaveEngine(e)>> \/ appends' = <<>>
  BY <1>1 DEF TodoProcessStarts, OpensSession
<1>3. m.todos = branch.todos
  <2>1. IsEngine(e)
    BY <1>1, RestoresEngine
  <2> HIDE DEF e
  <2> QED BY <2>1, OpensLive
<1> HIDE DEF m, e
<1>4. EntriesOk(appends')
  <2> DEFINE x == SaveEngine(e)
  <2>1. EntryOk(x)
    BY EntriesAreOk
  <2> HIDE DEF x
  <2>2. EntriesOk(<<>>) /\ EntriesOk(<<x>>)
    BY <2>1, FewEntries
  <2> QED BY <1>2, <2>2 DEF x
<1> QED BY <1>2, <1>3, <1>4 DEF ListsInv, PlaceOk

\* The lists of an old session are those of todo_write.
LEMMA ListsStart == ASSUME TodoInit PROVE ListsInv
<1>1. /\ branch \in OldSessions \cup {NothingSaved} /\ appends = <<>> /\ live.up = FALSE
  BY DEF TodoInit, NoProcess
<1>2. PICK list \in Plans \cup {<<>>} : branch = Saved(list, Unsaved, {}, {})
  BY <1>1 DEF OldSessions, NothingSaved
<1>3. ListOk(<<>>) /\ EntriesOk(<<>>)
  BY DEF ListOk, EntriesOk, IsList
<1>4. branch.todos = list /\ branch.told = {}
  BY <1>2 DEF Saved
<1> QED BY <1>1, <1>2, <1>3, <1>4, PlansAreLists DEF ListsInv, PlaceOk

\* ListsInv is inductive, together with TodoInv.
LEMMA ListsKept ==
    ASSUME TodoInv, ListsInv, [TodoNext]_todoVars
    PROVE  ListsInv'
<1>1. CASE AppendNext
  <2>1. /\ live.up /\ appends # <<>> /\ branch' = Appended(branch, Head(appends))
        /\ appends' = Tail(appends) /\ live' = live /\ SavedOk(branch)
    BY <1>1 DEF AppendNext, TodoInv
  <2>2. /\ Head(appends) = appends[1] /\ IsList(Tail(appends)) /\ Len(appends) \in Nat \ {0}
        /\ Len(Tail(appends)) = Len(appends) - 1
        /\ \A k \in 1..(Len(appends) - 1) : Tail(appends)[k] = appends[k + 1]
    BY <2>1, ListTail DEF ListsInv, EntriesOk
  <2>3. EntryOk(Head(appends))
    BY <2>2 DEF ListsInv, EntriesOk
  <2>4. \A k \in 1..(Len(appends) - 1) : k + 1 \in 1..Len(appends)
    BY <2>2
  <2>5. EntriesOk(Tail(appends))
    BY <2>2, <2>4 DEF ListsInv, EntriesOk
  <2>6. PlaceOk(branch')
    BY <2>1, <2>3, AppendsList DEF ListsInv
  <2> QED BY <2>1, <2>5, <2>6 DEF ListsInv
<1>2. CASE TodoRead
  BY <1>2, ReadLists
<1>3. CASE ToolEnds
  <2>1. /\ branch' = Appended(branch, SaveEngine(live.engine)) /\ SavedOk(branch)
        /\ live' = live /\ appends' = appends
    BY <1>3 DEF ToolEnds, TodoInv
  <2>2. EntryOk(SaveEngine(live.engine))
    BY EntriesAreOk
  <2>3. PlaceOk(branch')
    BY <2>1, <2>2, AppendsList DEF ListsInv
  <2> QED BY <2>1, <2>3 DEF ListsInv
<1>4. CASE UserTurn
  <2>1. live' = WithLock(live, FALSE) /\ branch' = branch /\ appends' = appends /\ TodoIdle
    BY <1>4 DEF UserTurn, WithLock
  <2>2. IsLive(live) /\ live.up
    BY <2>1, IdleIsSaved DEF TodoIdle
  <2>3. WithLock(live, FALSE).todos = live.todos
    BY <2>2, LocksLive, Zenon
  <2> QED BY <2>1, <2>2, <2>3 DEF ListsInv, PlaceOk
<1>5. CASE TodoProcessDies
  <2>1. EntriesOk(<<>>) /\ live'.up = FALSE /\ appends' = <<>> /\ branch' = branch
    BY <1>5 DEF EntriesOk, IsList, TodoProcessDies, NoProcess
  <2> QED BY <2>1 DEF ListsInv
<1>6. CASE \E list \in Plans : TodoWrite(list)
  BY <1>6, WriteLists
<1>7. ASSUME NEW op, NEW expected,
             \/ UpdateAgain(op, expected) \/ UpdateApplies(op, expected)
             \/ UpdateIsThere(op, expected) \/ UpdateChangesNothing(op, expected)
      PROVE  ListsInv'
  <2>1. CASE UpdateAgain(op, expected)
    BY <2>1, EngineLists DEF UpdateAgain
  <2>2. CASE UpdateApplies(op, expected)
    BY <2>2, AppliesLists
  <2>3. CASE UpdateIsThere(op, expected)
    BY <2>3, IsThereLists
  <2>4. CASE UpdateChangesNothing(op, expected)
    BY <2>4, EngineLists DEF UpdateChangesNothing
  <2> QED BY <1>7, <2>1, <2>2, <2>3, <2>4
<1>8. CASE \E s \in TodoSessions : TodoProcessStarts(s)
  BY <1>8, StartLists
<1>9. CASE UNCHANGED todoVars
  BY <1>9 DEF todoVars, ListsInv
<1> QED BY <1>1, <1>2, <1>3, <1>4, <1>5, <1>6, <1>7, <1>8, <1>9 DEF TodoNext

-----------------------------------------------------------------------------
(* Updates spare others                                                    *)

\* An update that is applied was not applied before, and spares what changed since.
LEMMA AppliedSpares ==
    ASSUME TodoInv, ListsInv, NEW op, NEW expected, UpdateApplies(op, expected)
    PROVE  /\ <<op, expected>> \notin branch.answered
           /\ \A seen \in branch.told : seen.revision = expected =>
                ~Overwrites(op, seen.todos, expected \in DOMAIN ToolEngine(live).snapshots)
<1> DEFINE e == live.engine
           list == live.todos
<1>1. TodoIdle
  BY DEF UpdateApplies
<1>2. /\ ToolEngine(live) = e /\ Knows(e, branch)
      /\ \A seen \in branch.told : seen.revision = live.revision => seen.todos = list
  BY <1>1, IdleIsSaved DEF AtEnd
<1>3. ListOk(list) /\ \A seen \in branch.told : ListOk(seen.todos)
  BY <1>1 DEF ListsInv, PlaceOk, TodoIdle
<1>4. <<op, expected>> \notin branch.answered
  <2>1. <<1, op, expected>> \notin e.ledger
    BY <1>2 DEF UpdateApplies, UpdateKey, Knows
  <2>2. \A a \in branch.answered : <<1, a[1], a[2]>> \in e.ledger
    BY <1>2 DEF Knows
  <2>3. <<op, expected>>[1] = op /\ <<op, expected>>[2] = expected
    OBVIOUS
  <2> QED BY <2>1, <2>2, <2>3
<1>5. PICK item \in ToSet(list) :
        /\ item.id = op.id
        /\ expected # live.revision => Suits(e, expected, item, op)
  BY <1>2, FitsItem DEF UpdateApplies
<1>6. ~(op.status \in {KeepField, item.status} /\ op.content \in {KeepField, item.content})
  <2>1. ApplyOp(list, op) # list
    <3>1. SetTodos(live, ApplyOp(list, op)).todos = ApplyOp(list, op)
      BY <1>1, IdleIsSaved, SetsTodos
    <3> QED BY <3>1 DEF UpdateApplies
  <2> QED BY <1>3, <1>5, <2>1, AppliedList
<1>7. ASSUME NEW seen \in branch.told, seen.revision = expected,
             Overwrites(op, seen.todos, expected \in DOMAIN e.snapshots)
      PROVE  FALSE
  <2> DEFINE held == expected \in DOMAIN e.snapshots
  <2>1. PICK was \in ToSet(seen.todos), is \in ToSet(list) :
          /\ was.id = op.id /\ is.id = op.id
          /\ \/ op.status = KeepField /\ op.content # KeepField /\ was.content # is.content
             \/ held /\ op.status \notin {KeepField, was.status, is.status} /\ was.status # is.status
    BY <1>7 DEF Overwrites
  <2>2. is = item /\ item.status # KeepField
    BY <1>3, <1>5, <2>1, ItemsOf
  <2>3. expected # live.revision
    <3>1. ASSUME expected = live.revision PROVE was = is
      <4>1. seen.todos = list
        BY <1>2, <1>7, <3>1
      <4> QED BY <1>3, <2>1, <4>1, ItemsOf
    <3> QED BY <2>1, <3>1
  <2> DEFINE before == {t \in ToSet(IF held THEN e.snapshots[expected] ELSE <<>>) : t.id = op.id}
  <2>4. before = IF held THEN {was} ELSE {}
    <3>1. CASE held
      <4>1. e.snapshots[expected] = seen.todos
        BY <1>2, <1>7, <3>1 DEF Knows
      <4> QED BY <1>3, <1>7, <2>1, <3>1, <4>1, ItemsOf
    <3>2. CASE ~held
      <4>1. ToSet(<<>>) = {}
        BY DEF ToSet
      <4> QED BY <3>2, <4>1
    <3> QED BY <3>1, <3>2
  <2>5. \/ op.status = item.status
        \/ /\ op.status = KeepField \/ \A t \in before : t.status \in {item.status, op.status}
           /\ op.content = KeepField \/ item.content = op.content
                \/ \E t \in before : t.content = item.content
    BY <1>5, <2>3 DEF Suits
  <2> HIDE DEF before
  <2>6. CASE op.status = KeepField /\ op.content # KeepField /\ was.content # is.content
    BY <1>6, <2>2, <2>4, <2>5, <2>6
  <2>7. CASE held /\ op.status \notin {KeepField, was.status, is.status} /\ was.status # is.status
    BY <2>2, <2>4, <2>5, <2>7
  <2> QED BY <2>1, <2>6, <2>7
<1> QED BY <1>2, <1>4, <1>7

\* rebase and the ledger of the engine, also over restarts: an update that was answered is
\* never applied again, and none that is based on the list the model was told last
\* overwrites what changed since.
THEOREM UpdatesSpare == TodoSpec => UpdatesSpareOthers
<1> DEFINE Spares ==
      \A op \in Updates, expected \in ToldRevisions : UpdateApplies(op, expected) =>
        /\ <<op, expected>> \notin branch.answered
        /\ \A seen \in branch.told : seen.revision = expected =>
             ~Overwrites(op, seen.todos, expected \in DOMAIN ToolEngine(live).snapshots)
<1>1. TodoInit => TodoInv /\ ListsInv
  BY TodoStarts, ListsStart
<1>2. TodoInv /\ ListsInv /\ [TodoNext]_todoVars => (TodoInv /\ ListsInv)'
  BY TodoKept, ListsKept
<1>3. TodoInv /\ ListsInv => [Spares]_todoVars
  BY AppliedSpares
<1>4. TodoSpec => [][Spares]_todoVars
  <2> HIDE DEF Spares
  <2> QED BY <1>1, <1>2, <1>3, PTL DEF TodoSpec
<1> QED BY <1>4 DEF UpdatesSpareOthers
=============================================================================
