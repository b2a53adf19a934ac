------------------------------ MODULE Workspace ------------------------------
(***************************************************************************)
(* packages/coding-agent/src/core/safety: processes that change files of   *)
(* one workspace, each in a transaction under an exclusive lease, next to  *)
(* a user who edits the same files and an operator who rolls transactions  *)
(* back from the command line.                                             *)
(*                                                                         *)
(* Each process makes one call of performMutation.  The content of a file  *)
(* is Old, UserText, the process whose transaction wrote it, or Torn, when *)
(* its write was cut short.  A file is read and written in two steps, so   *)
(* that anybody else may come in between.                                  *)
(*                                                                         *)
(* The disk may fail.  An error is known by the process it hits and by its *)
(* site: the lease file, the journal of events, the start of the           *)
(* transaction (its first record, and the checkpoint), its later records,  *)
(* and the files of the workspace.                                         *)
(***************************************************************************)
EXTENDS Integers, FiniteSets

CONSTANTS
    Processes,      \* processes that call performMutation
    Paths,          \* numbered in the order of the edits
    edits,          \* the batch of each process, a function from paths to kinds
    MaxUserEdits,   \* bound on the edits of the user
    MaxRecoveries,  \* bound on the rollbacks an operator asks for
    MaxErrors       \* bound on the errors; one that happened may happen again

Kinds == {"create_file", "replace_file", "replace_expected", "delete_file"}

ASSUME WorkspaceAssumption ==
    /\ {MaxUserEdits, MaxRecoveries, MaxErrors} \subseteq Nat /\ Paths \subseteq Nat \ {0}
    /\ \A p \in Processes :
          DOMAIN edits[p] \subseteq Paths /\ \A x \in DOMAIN edits[p] : edits[p][x] \in Kinds
    /\ {"none", "dead"} \cap Processes = {}              \* other owners of a lease
    /\ {"old", "user", "missing", "torn"} \cap Processes = {}    \* other contents of a file

VARIABLES
    ws,           \* the files of the workspace
    lease,        \* the lease file: its owner, and whether its record is complete
    at,           \* where the call of performMutation of each process is
    checked,      \* has the process checked the precondition of its next edit?
    checkpoint,   \* the content of the target files before the transaction
    wrote,        \* appliedSha: what the process has written so far
    saved,        \* the record of the transaction as it was last persisted
    undo,         \* the rollbacks under way, by the process or by an operator
    recoveries, userEdits,
    touched,      \* files of the batch that others changed since the checkpoint
    outdated,     \* transactions whose record lags behind the files for good
    stolen,       \* has a recovery removed a lease it had not read?
    errors,       \* the errors so far: which process, and at which site
    spoiled       \* files that the transaction failed to write or to restore

leaseVars == <<lease, stolen>>
transactionVars == <<checked, checkpoint, wrote>>
bounds == <<recoveries, userEdits>>
marks == <<touched, outdated, spoiled>>
workspaceVars == <<ws, leaseVars, at, transactionVars, saved, undo, bounds, marks, errors>>

Old == "old"
UserText == "user"
Missing == "missing"
Torn == "torn"
None == "none"
Dead == "dead"          \* a process that ended with the lease in its hands
NoLease == [owner |-> None, complete |-> FALSE]
Lease(p, complete) == [owner |-> p, complete |-> complete]

Nothing == <<>>         \* a function whose domain is empty
Record(stage, applied) == [stage |-> stage, applied |-> applied]
Unreadable == Record(None, Nothing)     \* read answers null, as for no record
NoUndo == [on |-> FALSE]
Rollbacks == Processes \X {"self", "operator"}

Alive(p) == p # Dead /\ at[p] # "crashed"

Least(paths) == CHOOSE x \in paths : \A y \in paths : x <= y

Running(p) == at[p] \notin {"idle", "refused", "done", "crashed"}

\* From the creation of the lease to its release.
Holding == {"opened", "leased", "begun", "applying", "undoing", "applied", "confirming",
            "rejecting", "catching", "undoing again", "releasing", "releasing after error"}

WorkspaceInit ==
    /\ ws \in [Paths -> {Old, Missing}]
    /\ lease \in {NoLease, Lease(Dead, TRUE)}
    /\ at = [p \in Processes |-> "idle"]
    /\ checked = [p \in Processes |-> FALSE]
    /\ checkpoint = [p \in Processes |-> Nothing]
    /\ wrote = [p \in Processes |-> Nothing]
    /\ saved = [p \in Processes |-> Record(None, Nothing)]
    /\ undo = [r \in Rollbacks |-> NoUndo]
    /\ recoveries = 0 /\ userEdits = 0
    /\ touched = [p \in Processes |-> {}]
    /\ outdated = {} /\ stolen = FALSE
    /\ errors = {} /\ spoiled = [p \in Processes |-> {}]

\* Nothing or something fails for p, at every one of the sites.
Fails(p, sites) ==
    /\ errors' = errors \union ({p} \X sites)
    /\ errors' = errors \/ Cardinality(errors') <= MaxErrors

Goes(p, place) == at' = [at EXCEPT ![p] = place]

\* x is changed by somebody the transactions of others do not know of.
Touches(others, x) ==
    touched' = [p \in Processes |->
        IF p \in others /\ x \in DOMAIN checkpoint[p] THEN touched[p] \union {x} ELSE touched[p]]

Spoils(p, x) == spoiled' = [spoiled EXCEPT ![p] = @ \union {x}]

\* The file is truncated, or created, and its content does not get there.
Tears(p, x) == ws' = [ws EXCEPT ![x] = Torn] /\ Spoils(p, x) /\ Touches(Processes \ {p}, x)

(***************************************************************************)
(* The lease.  A record that cannot be read counts as none.  The lease of  *)
(* a process that is gone is held until its last heartbeat is old enough,  *)
(* which is left to chance; that of a live process is never stale enough.  *)
(***************************************************************************)
ReadLease(p) ==
    /\ at[p] = "idle"
    /\ \/ ~lease.complete /\ Goes(p, "creating")
       \/ lease.complete /\ Goes(p, "refused")
       \/ lease.complete /\ ~Alive(lease.owner) /\ Goes(p, "recovering")
    /\ UNCHANGED <<ws, leaseVars, transactionVars, saved, undo, bounds, marks, errors>>

\* The file is removed by its name, whatever it holds by now.
UnlinkStaleLease(p) ==
    /\ at[p] = "recovering" /\ Goes(p, "creating")
    /\ lease' = NoLease
    /\ stolen' = (stolen \/ (lease # NoLease /\ Alive(lease.owner)))
    /\ UNCHANGED <<ws, transactionVars, saved, undo, bounds, marks, errors>>

\* Mutant: the file is written without the flag wx.
CreateLease_Overwrites(p) ==
    /\ at[p] = "creating" /\ lease' = Lease(p, FALSE) /\ Goes(p, "opened")
    /\ UNCHANGED <<ws, stolen, transactionVars, saved, undo, bounds, marks, errors>>

\* The flag wx lets one process create the file; it is empty until its
\* record is written.
CreateLease(p) ==
    /\ at[p] = "creating"
    /\ \/ lease = NoLease /\ lease' = Lease(p, FALSE) /\ Goes(p, "opened")
       \/ lease # NoLease /\ lease' = lease /\ Goes(p, "refused")
    /\ UNCHANGED <<ws, stolen, transactionVars, saved, undo, bounds, marks, errors>>

WriteLease(p) ==
    /\ at[p] = "opened" /\ Goes(p, "leased")
    /\ lease' = IF lease.owner = p THEN Lease(p, TRUE) ELSE lease
    /\ UNCHANGED <<ws, stolen, transactionVars, saved, undo, bounds, marks, errors>>

\* A stale lease that cannot be removed is not noticed.  When the file cannot
\* be created or written acquire answers io_error, and what it has created
\* stays: an incomplete record, which counts as none but is in the way.
AcquireFails(p) ==
    /\ \/ at[p] = "recovering" /\ Goes(p, "creating")
       \/ at[p] \in {"creating", "opened"} /\ Goes(p, "refused")
    /\ Fails(p, {"lease"})
    /\ UNCHANGED <<ws, leaseVars, transactionVars, saved, undo, bounds, marks>>

(***************************************************************************)
(* Rollback, of the process itself or of an operator, from the record it   *)
(* was given.                                                              *)
(***************************************************************************)
Rollback(applied) ==
    [on |-> TRUE, applied |-> applied, todo |-> DOMAIN applied, conflict |-> FALSE,
     path |-> 0, seen |-> None]

\* Mutant: the content is not compared.
Drifted_Never(current, applied) == FALSE

\* Somebody changed the file after the transaction wrote it.
Drifted(current, applied) ==
    current # Missing /\ applied # Missing /\ current # applied

RollbackReads(r) ==
    /\ undo[r].on /\ undo[r].path = 0
    /\ undo[r].todo # {}
    /\ LET u == undo[r]  x == Least(u.todo) IN
          undo' = [undo EXCEPT ![r] =
              IF Drifted(ws[x], u.applied[x])
              THEN [u EXCEPT !.todo = u.todo \ {x}, !.conflict = TRUE]
              ELSE [u EXCEPT !.path = x, !.seen = ws[x]]]
    /\ UNCHANGED <<ws, leaseVars, at, transactionVars, saved, bounds, marks, errors>>

\* The owner of the transaction does not know of a restore by an operator.
Unaware(r) == Processes \ (IF r[2] = "self" \/ ~Running(r[1]) THEN {r[1]} ELSE {})

IsRestored(r) == undo' = [undo EXCEPT ![r].todo = @ \ {undo[r].path}, ![r].path = 0, ![r].seen = None]

RollbackRestores(r) ==
    /\ undo[r].on /\ undo[r].path # 0
    /\ LET p == r[1]  x == undo[r].path IN
       /\ ws' = [ws EXCEPT ![x] = checkpoint[p][x]]
       /\ Touches(Unaware(r), x)
    /\ IsRestored(r)
    /\ UNCHANGED <<leaseVars, at, transactionVars, saved, bounds, outdated, spoiled, errors>>

\* Errors that the rollback does not notice: the file is removed when the
\* blob cannot be read, and stays as it is when it cannot be removed.
RestoreGoesWrong(r) ==
    /\ undo[r].on /\ undo[r].path # 0 /\ Fails(r[1], {"file"})
    /\ LET x == undo[r].path IN
       /\ \E content \in {ws[x], Missing} \ {checkpoint[r[1]][x]} : ws' = [ws EXCEPT ![x] = content]
       /\ Spoils(r[1], x) /\ Touches(Unaware(r), x)
    /\ IsRestored(r)
    /\ UNCHANGED <<leaseVars, at, transactionVars, saved, bounds, outdated>>

\* A failed apply is rolled back by apply and again by performMutation, which
\* ignores what the second rollback throws.
RollbackReturns(r, threw) ==
    /\ undo' = [undo EXCEPT ![r] = NoUndo]
    /\ LET p == r[1] IN
       \/ r[2] = "operator" /\ UNCHANGED at
       \/ r[2] = "self" /\ at[p] = "undoing" /\ Goes(p, "catching")
       \/ r[2] = "self" /\ at[p] = "rejecting" /\ Goes(p, IF threw THEN "catching" ELSE "releasing")
       \/ r[2] = "self" /\ at[p] = "undoing again" /\ Goes(p, "releasing after error")
       \/ r[2] = "self" /\ at[p] = "undoing late" /\ Goes(p, "releasing late")

RolledBack(r) ==
    Record(IF undo[r].conflict THEN "recovery_required" ELSE "rolled_back", undo[r].applied)

RollbackEnds(r) ==
    /\ undo[r].on /\ undo[r].todo = {}
    /\ saved' = [saved EXCEPT ![r[1]] = RolledBack(r)]
    /\ RollbackReturns(r, FALSE)
    /\ UNCHANGED <<ws, leaseVars, transactionVars, bounds, marks, errors>>

\* A rollback that is cut short leaves some files of a confirmed transaction
\* restored.
Halfway(p) == outdated' = outdated \union (IF saved'[p].stage = "confirmed" THEN {p} ELSE {})

\* The checkpoint does not verify, a file cannot be written, or the record.
RollbackFails(r) ==
    /\ undo[r].on
    /\ LET p == r[1]  x == undo[r].path IN
       \/ /\ undo[r].todo # {} /\ Fails(p, {"file"}) /\ saved' = saved
          /\ \/ UNCHANGED <<ws, touched, spoiled>>
             \/ x # 0 /\ checkpoint[p][x] # Missing /\ Tears(p, x)
       \/ /\ undo[r].todo = {} /\ Fails(p, {"record"}) /\ UNCHANGED <<ws, touched, spoiled>>
          /\ \E record \in {saved[p], Unreadable, RolledBack(r)} : saved' = [saved EXCEPT ![p] = record]
    /\ Halfway(r[1]) /\ RollbackReturns(r, TRUE)
    /\ UNCHANGED <<leaseVars, transactionVars, bounds>>

\* jensen workspace rollback: whatever the stage of the transaction, as
\* long as it has a checkpoint.
OperatorRollsBack(p) ==
    /\ recoveries < MaxRecoveries /\ recoveries' = recoveries + 1
    /\ saved[p].stage \notin {None, "prepared"} /\ undo[<<p, "operator">>] = NoUndo
    /\ undo' = [undo EXCEPT ![<<p, "operator">>] = Rollback(saved[p].applied)]
    /\ outdated' = outdated \union
          (IF saved[p].applied # wrote[p] \/ at[p] = "applying" THEN {p} ELSE {})
    /\ UNCHANGED <<ws, leaseVars, at, transactionVars, saved, userEdits, touched, spoiled, errors>>

(***************************************************************************)
(* performMutation, once it has the lease.                                 *)
(***************************************************************************)
Persists(p, stage) == saved' = [saved EXCEPT ![p] = Record(stage, wrote[p])]

Begin(p) ==
    /\ at[p] = "leased" /\ Goes(p, "begun") /\ Persists(p, "prepared")
    /\ UNCHANGED <<ws, leaseVars, transactionVars, undo, bounds, marks, errors>>

Checkpoint(p) ==
    /\ at[p] = "begun" /\ Goes(p, "applying") /\ Persists(p, "checkpointed")
    /\ checkpoint' = [checkpoint EXCEPT ![p] = [x \in DOMAIN edits[p] |-> ws[x]]]
    /\ UNCHANGED <<ws, leaseVars, checked, wrote, undo, bounds, marks, errors>>

\* The first record cannot be written, or the checkpoint not made, for a file
\* that is too large or looks like a secret: the error passes the outer catch,
\* which releases the lease for other errors only.
StartFails(p) ==
    /\ at[p] \in {"leased", "begun"} /\ Goes(p, "done") /\ Fails(p, {"start"})
    /\ UNCHANGED <<ws, leaseVars, transactionVars, saved, undo, bounds, marks>>

ToApply(p) == DOMAIN edits[p] \ DOMAIN wrote[p]

\* Files are written before files are deleted.
NextEdit(p) ==
    LET writes == {x \in ToApply(p) : edits[p][x] # "delete_file"}
    IN  Least(IF writes # {} THEN writes ELSE ToApply(p))

\* expectedSha256 is the hash of Old; a file that is gone passes.
CheckExpected(p) ==
    /\ at[p] = "applying" /\ ToApply(p) # {} /\ ~checked[p]
    /\ edits[p][NextEdit(p)] = "replace_expected" /\ ws[NextEdit(p)] \in {Old, Missing}
    /\ checked' = [checked EXCEPT ![p] = TRUE]
    /\ UNCHANGED <<ws, leaseVars, at, checkpoint, wrote, saved, undo, bounds, marks, errors>>

Content(p, x) == IF edits[p][x] = "delete_file" THEN Missing ELSE p

CanApply(p, x) ==
    /\ edits[p][x] = "create_file" => ws[x] = Missing
    /\ edits[p][x] = "replace_expected" => checked[p]

ApplyEdit(p) ==
    /\ at[p] = "applying" /\ ToApply(p) # {}
    /\ LET x == NextEdit(p) IN
       /\ CanApply(p, x)
       /\ ws' = [ws EXCEPT ![x] = Content(p, x)]
       /\ wrote' = [wrote EXCEPT ![p] = [y \in DOMAIN @ \union {x} |-> Content(p, y)]]
       /\ Touches(Processes \ {p}, x)
    /\ checked' = [checked EXCEPT ![p] = FALSE]
    /\ UNCHANGED <<leaseVars, at, checkpoint, saved, undo, bounds, outdated, spoiled, errors>>

\* Mutant: appliedPaths is set after the rollback.
ApplyFails_NoPaths(p) ==
    /\ at[p] = "applying" /\ ToApply(p) # {} /\ Goes(p, "undoing")
    /\ undo' = [undo EXCEPT ![<<p, "self">>] = Rollback(Nothing)]
    /\ UNCHANGED <<ws, leaseVars, transactionVars, saved, bounds, marks, errors>>

\* The precondition of an edit does not hold, or its file cannot be opened.
ApplyFails(p) ==
    /\ at[p] = "applying" /\ ToApply(p) # {} /\ Goes(p, "undoing")
    /\ undo' = [undo EXCEPT ![<<p, "self">>] = Rollback(wrote[p])]
    /\ UNCHANGED <<ws, leaseVars, transactionVars, saved, bounds, marks, errors>>

\* The file that the process would be writing now, for an edit.
Opens(p, x) ==
    /\ at[p] = "applying" /\ ToApply(p) # {} /\ x = NextEdit(p)
    /\ edits[p][x] # "delete_file" /\ CanApply(p, x)

\* The write fails when the file is open: appliedSha and changed are not set,
\* so that no rollback will look at it.
WriteFails(p) ==
    /\ \E x \in Paths : Opens(p, x) /\ Tears(p, x)
    /\ Fails(p, {"file"}) /\ Goes(p, "undoing")
    /\ undo' = [undo EXCEPT ![<<p, "self">>] = Rollback(wrote[p])]
    /\ UNCHANGED <<leaseVars, transactionVars, saved, bounds, outdated>>

ApplyEnds(p) ==
    /\ at[p] = "applying" /\ ToApply(p) = {} /\ Goes(p, "applied") /\ Persists(p, "applied")
    /\ UNCHANGED <<ws, leaseVars, transactionVars, undo, bounds, marks, errors>>

\* The gate is chosen by the caller; its answer is a choice.
Validate(p) ==
    /\ at[p] = "applied"
    /\ \/ Goes(p, "confirming") /\ undo' = undo
       \/ /\ Goes(p, "rejecting")
          /\ undo' = [undo EXCEPT ![<<p, "self">>] = Rollback(wrote[p])]
    /\ UNCHANGED <<ws, leaseVars, transactionVars, saved, bounds, marks, errors>>

\* Mutant: a confirmed transaction keeps the lease.
Confirm_NoRelease(p) ==
    /\ at[p] = "confirming" /\ Goes(p, "done") /\ Persists(p, "confirmed")
    /\ UNCHANGED <<ws, leaseVars, transactionVars, undo, bounds, marks, errors>>

Confirm(p) ==
    /\ at[p] = "confirming" /\ Goes(p, "releasing") /\ Persists(p, "confirmed")
    /\ UNCHANGED <<ws, leaseVars, transactionVars, undo, bounds, marks, errors>>

\* The record cannot be written after the batch or for confirm, or it can but
\* the status of the checkpoint cannot.
RecordFails(p) ==
    /\ \/ at[p] = "applying" /\ ToApply(p) = {}
       \/ at[p] = "confirming"
    /\ \E record \in {saved[p], Unreadable} \union
             (IF at[p] = "confirming" THEN {Record("confirmed", wrote[p])} ELSE {}) :
          saved' = [saved EXCEPT ![p] = record]
    /\ Fails(p, {"record"}) /\ Goes(p, "catching")
    /\ UNCHANGED <<ws, leaseVars, transactionVars, undo, bounds, marks>>

Releasing == {"releasing", "releasing after error", "releasing late"}

\* The file of the lease, unless it cannot be read or removed.
GivesUp(p, sites) ==
    /\ lease.complete /\ "lease" \notin sites => lease.owner = p
    /\ lease' = IF lease.complete /\ "lease" \notin sites THEN NoLease ELSE lease
    /\ Fails(p, sites)

Release(p) ==
    /\ at[p] \in Releasing /\ Goes(p, "done")
    /\ \E sites \in SUBSET {"lease"} : GivesUp(p, sites)
    /\ UNCHANGED <<ws, stolen, transactionVars, saved, undo, bounds, marks>>

\* The lease of another run: the error leads to one more rollback.
ReleaseRefused(p) ==
    /\ at[p] \in Releasing /\ lease.complete /\ lease.owner # p
    /\ Goes(p, IF at[p] = "releasing" THEN "catching" ELSE "done")
    /\ UNCHANGED <<ws, leaseVars, transactionVars, saved, undo, bounds, marks, errors>>

\* The inner catch of performMutation.
RollsBackAgain(p, place) ==
    Goes(p, place) /\ undo' = [undo EXCEPT ![<<p, "self">>] = Rollback(wrote[p])]

Catch(p) ==
    /\ at[p] = "catching" /\ RollsBackAgain(p, "undoing again")
    /\ UNCHANGED <<ws, leaseVars, transactionVars, saved, bounds, marks, errors>>

\* The lease is gone, and the event that says so cannot be written: what was
\* confirmed is rolled back without a lease.
ReleaseUnrecorded(p) ==
    /\ at[p] = "releasing" /\ RollsBackAgain(p, "undoing late")
    /\ \E sites \in SUBSET {"lease"} : GivesUp(p, sites \union {"journal"})
    /\ UNCHANGED <<ws, stolen, transactionVars, saved, bounds, marks>>

\* Before any edit.
Unstarted(p) == at[p] = "applying" /\ wrote[p] = Nothing /\ ~checked[p]

\* appendEvent fails: before the inner try and in its catch performMutation
\* ends with the lease in its hands, and within it the catch takes over.
JournalFails(p) ==
    /\ \/ /\ Unstarted(p) \/ at[p] \in {"leased", "catching", "releasing after error", "releasing late"}
          /\ Goes(p, "done")
       \/ /\ Unstarted(p) \/ at[p] \in {"applied", "releasing"}
          /\ Goes(p, "catching")
    /\ Fails(p, {"journal"})
    /\ UNCHANGED <<ws, leaseVars, transactionVars, saved, undo, bounds, marks>>

(***************************************************************************)
(* The environment: a process dies, the user saves or removes a file.      *)
(***************************************************************************)
\* The files that the process may be writing: for an edit or for a rollback.
Writing(p) ==
    {x \in Paths : \/ Opens(p, x)
                   \/ /\ undo[<<p, "self">>].on /\ undo[<<p, "self">>].path = x
                      /\ checkpoint[p][x] # Missing}

\* Is it writing its record?
Persisting(p) ==
    \/ at[p] = "applying" /\ ToApply(p) = {}
    \/ at[p] = "confirming"
    \/ undo[<<p, "self">>].on /\ undo[<<p, "self">>].todo = {}

Crash(p) ==
    /\ at[p] # "crashed" /\ (Running(p) \/ lease.owner = p)
    /\ Goes(p, "crashed")
    /\ \/ UNCHANGED <<ws, saved, touched, spoiled>>
       \/ saved' = saved /\ \E x \in Writing(p) : Tears(p, x)
       \/ Persisting(p) /\ saved' = [saved EXCEPT ![p] = Unreadable] /\ UNCHANGED <<ws, touched, spoiled>>
    /\ IF undo[<<p, "self">>].on THEN Halfway(p) ELSE UNCHANGED outdated
    /\ undo' = [undo EXCEPT ![<<p, "self">>] = NoUndo]
    /\ UNCHANGED <<leaseVars, transactionVars, bounds, errors>>

UserEdits(x) ==
    /\ userEdits < MaxUserEdits /\ userEdits' = userEdits + 1
    /\ \E text \in {UserText, Missing} \ {ws[x]} : ws' = [ws EXCEPT ![x] = text]
    /\ Touches(Processes, x)
    /\ UNCHANGED <<leaseVars, at, transactionVars, saved, undo, recoveries, outdated, spoiled, errors>>

WorkspaceNext ==
    \/ \E p \in Processes :
          \/ ReadLease(p) \/ UnlinkStaleLease(p) \/ CreateLease(p) \/ WriteLease(p) \/ AcquireFails(p)
          \/ Begin(p) \/ Checkpoint(p) \/ StartFails(p)
          \/ CheckExpected(p) \/ ApplyEdit(p) \/ ApplyFails(p) \/ WriteFails(p) \/ ApplyEnds(p)
          \/ Validate(p) \/ Confirm(p) \/ RecordFails(p) \/ Catch(p) \/ JournalFails(p)
          \/ Release(p) \/ ReleaseRefused(p) \/ ReleaseUnrecorded(p)
          \/ OperatorRollsBack(p) \/ Crash(p)
    \/ \E r \in Rollbacks :
          RollbackReads(r) \/ RollbackRestores(r) \/ RestoreGoesWrong(r) \/ RollbackEnds(r) \/ RollbackFails(r)
    \/ \E x \in Paths : UserEdits(x)

WorkspaceSpec == WorkspaceInit /\ [][WorkspaceNext]_workspaceVars

(***************************************************************************)
(* Properties                                                              *)
(***************************************************************************)
\* acquire: two processes are never between the creation of the lease and
\* its release at the same time, whoever crashed before, unless a recovery
\* unlinked the lease another recovery had just made (lease.ts:99).
LeaseIsExclusive ==
    ~stolen => Cardinality({p \in Processes : at[p] \in Holding}) <= 1

\* performMutation leaves the lease behind only when its process died, or when
\* the lease file, the journal or the start of the transaction failed
\* (manager.ts:294-302, 353, 355, 361): no precondition, validation, failed
\* edit, record or rollback keeps the workspace locked while the process lives.
LeaseIsReleased ==
    lease.owner \in Processes /\ at[lease.owner] \notin Holding \union {"crashed"} =>
        \E site \in {"lease", "journal", "start"} : <<lease.owner, site>> \in errors

\* "Any failure rolls back and releases the lease" (manager.ts:239), without that
\* exception.
AnyFailureReleases ==
    lease.owner \in Processes => at[lease.owner] \in Holding \union {"crashed"}

Settled(p) ==
    /\ saved[p].stage \in {"confirmed", "rolled_back", "recovery_required"}
    /\ \A r \in Rollbacks : r[1] = p => ~undo[r].on

\* What the durable record says of a transaction is true of the files that
\* nobody else touched: all of them hold the new content when it says
\* confirmed, and all the old one when it says it was rolled back, however
\* far apply came, however often it was rolled back, which of its writes
\* failed and whoever died.  There are two exceptions.  A file whose write or
\* restore was cut short stays torn: appliedSha does not name it, and the
\* rollback reports success without it (transaction.ts:211, 226, 355).  And a
\* record lags behind: when it is rolled back although the process died, or was
\* busy, between the first write and the record of what it wrote
\* (transaction.ts:248), or when the rollback of a confirmed transaction was
\* cut short.
TransactionIsAtomic ==
    \A p \in Processes : Settled(p) /\ ~stolen /\ p \notin outdated =>
        \A x \in DOMAIN edits[p] \ (touched[p] \union spoiled[p]) :
            ws[x] = IF saved[p].stage = "confirmed" THEN Content(p, x) ELSE checkpoint[p][x]

\* "Partial apply triggers rollback" (transaction.ts:95), for the files whose
\* write failed half way as well.
FailedWritesAreUndone ==
    \A p \in Processes : Settled(p) /\ ~stolen /\ p \notin outdated =>
        \A x \in spoiled[p] \ touched[p] : saved[p].stage = "rolled_back" => ws[x] = checkpoint[p][x]

\* rollback overwrites a text of the user, with what the checkpoint holds or
\* with half of it, only when the user saved it after the rollback had read
\* the file, or when the transaction had deleted the file
\* (transaction.ts:345-347): every other edit is reported as a conflict.
RollbackSparesUserEdits ==
    [][\A r \in Rollbacks : undo[r].on /\ undo[r].path # 0 /\ undo'[r] # undo[r] =>
          LET x == undo[r].path IN
          ws[x] = UserText /\ ws'[x] # UserText =>
              undo[r].seen # UserText \/ undo[r].applied[x] = Missing]_workspaceVars

\* "Rollback is idempotent and never silently overwrites unrelated
\* post-transaction user changes" (docs/safe-autonomous-execution.md:91): a
\* transaction needs recovery only when somebody else changed one of its
\* files.  After a failed apply the second rollback takes what the first one
\* restored for an edit of the user.
RecoveryNeedsDrift ==
    \A p \in Processes : saved[p].stage = "recovery_required" => touched[p] # {}
=============================================================================
