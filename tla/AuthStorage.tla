----------------------------- MODULE AuthStorage -----------------------------
(***************************************************************************)
(* packages/coding-agent/src/core/auth-storage.ts: credentials in a file   *)
(* that several processes share, and the refresh of the token of an OAuth  *)
(* provider under a file lock.                                             *)
(*                                                                         *)
(* Tokens are numbered as they are issued.  The provider takes each        *)
(* refresh token once and issues the next one.  The file holds the token   *)
(* and one other credential, which stands for those of all other           *)
(* providers.  The lock is the one of the library proper-lockfile: a lock  *)
(* whose holder died is taken over when it is old enough; withLock waits   *)
(* for a shorter time than the holder of withLockAsync takes to renew it,  *)
(* so a refresh that takes long may lose the lock.                         *)
(*                                                                         *)
(* writeFileSync truncates the file before it writes: a write that dies or *)
(* fails leaves a part, which does not parse, or an empty file, which      *)
(* parseStorageData reads as {}.                                           *)
(***************************************************************************)
EXTENDS Integers, FiniteSets

CONSTANTS
    Processes,       \* processes that use the file
    Keys,            \* values of the other credential
    MaxTokens,       \* bound on the tokens issued, and on the calls that change credentials
    MaxFaults        \* bound on the crashes, failed writes, lost answers and slow refreshes

ASSUME AuthAssumption ==
    /\ {MaxTokens, MaxFaults} \subseteq Nat /\ Keys \subseteq Nat \ {0}
    /\ {"free", "orphaned"} \cap Processes = {}   \* values of lock

VARIABLES
    file,         \* auth.json: a record of credentials, Absent or Torn
    lock,         \* holder of the lock, Free or Orphaned
    at,           \* where the call of getApiKey of each process is
    data,         \* AuthStorage.data of each process
    snapshot,     \* what the refresh of each process read under the lock
    persisting,   \* what the withLock call of each process is writing, or Nothing
    loadError,    \* did the last reload of the process fail?
    issued,       \* number of tokens issued
    expired,      \* tokens up to this one are no longer valid
    used,         \* tokens that were presented to the provider for a refresh
    faults,       \* what went wrong: crash, torn, tokenLost, lockLost, fileReplaced
    written,      \* the other credential as it was last changed in the file
    erased        \* has a write that died or failed erased it since?

provider == <<issued, expired, used>>
history == <<faults, written, erased>>
process == <<at, data, snapshot, loadError>>
authVars == <<file, lock, process, persisting, provider, history>>

Free == "free"
Orphaned == "orphaned"    \* the holder died
Torn == [torn |-> TRUE]
Absent == [absent |-> TRUE]
Nothing == [nothing |-> TRUE]
NoToken == 0
NoKey == 0
Credentials(token, key) == [token |-> token, key |-> key]
NoCredentials == Credentials(NoToken, NoKey)
Readable == file \notin {Torn, Absent}

\* writeFileSync has opened the file; one that is empty is read as {}.
Truncated == NoCredentials
Persisting(p) == persisting[p] # Nothing
Writing(p) == at[p] = "writing" \/ Persisting(p)

\* Date.now() < cred.expires
Valid(token) == token # NoToken /\ token > expired

AuthInit ==
    /\ file \in {Absent, Credentials(1, NoKey)}
    /\ lock = Free /\ issued = 1 /\ expired = 0 /\ used = {}
    /\ faults = {} /\ written = NoKey /\ erased = FALSE
    /\ at = [p \in Processes |-> "down"]
    /\ data = [p \in Processes |-> NoCredentials]
    /\ snapshot = data /\ loadError = [p \in Processes |-> FALSE]
    /\ persisting = [p \in Processes |-> Nothing]

MayFault == Cardinality(faults) < MaxFaults

-----------------------------------------------------------------------------
(* Constructor: ensureFileExists and reload *)

\* existsSync; the file is then created without the lock.
Start(p) ==
    /\ at[p] = "down"
    /\ at' = [at EXCEPT ![p] = IF file = Absent THEN "creating" ELSE "loading"]
    /\ UNCHANGED <<file, lock, data, snapshot, loadError, persisting, provider, history>>

CreateFile(p) ==
    /\ at[p] = "creating"
    /\ file' = NoCredentials
    /\ faults' = IF file = Absent THEN faults ELSE faults \cup {"fileReplaced"}
    /\ at' = [at EXCEPT ![p] = "loading"]
    /\ UNCHANGED <<lock, data, snapshot, loadError, persisting, provider, written, erased>>

\* reload: data stays as it is when the lock is not given or the file not parsed.
Reload(p) ==
    /\ IF lock = Free /\ Readable
         THEN data' = [data EXCEPT ![p] = file] /\ loadError' = [loadError EXCEPT ![p] = FALSE]
         ELSE data' = data /\ loadError' = [loadError EXCEPT ![p] = TRUE]

Load(p) ==
    /\ at[p] = "loading" /\ Reload(p)
    /\ at' = [at EXCEPT ![p] = "idle"]
    /\ UNCHANGED <<file, lock, snapshot, persisting, provider, history>>

-----------------------------------------------------------------------------
(* set, remove, login and logout *)

\* Where other code of the same process may run.
Awaiting == {"idle", "waiting", "refreshing", "releasing", "givingUp"}

\* Once the last token is issued nobody changes credentials any more: the bound of the
\* model on such calls.
MayCall(p) == at[p] \in Awaiting /\ ~Persisting(p) /\ issued < MaxTokens

\* The library removes only a lock that is still its own.
Released(p) == IF lock = p THEN Free ELSE lock

CanPersist(p) == ~loadError[p] /\ lock = Free /\ Readable

\* persistProviderChange: the change is merged into what the file holds now, and the
\* file is truncated; without the lock, or after a failed reload, the change stays in
\* memory.  Nothing else of the process runs before EndPersist.
Persist(p, new) ==
    IF CanPersist(p)
      THEN lock' = p /\ file' = Truncated /\ persisting' = [persisting EXCEPT ![p] = new]
      ELSE UNCHANGED <<lock, file, persisting>>

SetKey(p, key) ==
    /\ MayCall(p) /\ data[p].key # key
    /\ data' = [data EXCEPT ![p].key = key]
    /\ Persist(p, [file EXCEPT !.key = key])
    /\ IF CanPersist(p) THEN written' = key /\ erased' = FALSE ELSE UNCHANGED <<written, erased>>
    /\ UNCHANGED <<at, snapshot, loadError, provider, faults>>

\* Mutant: the credentials in memory are written, not merged into the file.
Login_NoMerge(p) ==
    /\ MayCall(p)
    /\ issued' = issued + 1
    /\ data' = [data EXCEPT ![p].token = issued']
    /\ Persist(p, data'[p])
    /\ UNCHANGED <<at, snapshot, loadError, expired, used, history>>

Login(p) ==
    /\ MayCall(p)
    /\ issued' = issued + 1
    /\ data' = [data EXCEPT ![p].token = issued']
    /\ Persist(p, [file EXCEPT !.token = issued'])
    /\ UNCHANGED <<at, snapshot, loadError, expired, used, history>>

Logout(p) ==
    /\ MayCall(p) /\ data[p].token # NoToken
    /\ data' = [data EXCEPT ![p].token = NoToken]
    /\ Persist(p, [file EXCEPT !.token = NoToken])
    /\ UNCHANGED <<at, snapshot, loadError, provider, history>>

\* withLock has written the file, and gives up the lock.
EndPersist(p) ==
    /\ Persisting(p)
    /\ file' = persisting[p] /\ lock' = Released(p)
    /\ persisting' = [persisting EXCEPT ![p] = Nothing]
    /\ UNCHANGED <<process, provider, history>>

-----------------------------------------------------------------------------
(* getApiKey *)

\* getApiKey returns the valid token that data holds, if there is one.
Return(p) == at' = [at EXCEPT ![p] = "idle"]

GetApiKey(p) ==
    /\ at[p] = "idle" /\ ~Persisting(p)
    /\ IF data[p].token = NoToken \/ Valid(data[p].token)
         THEN Return(p)
         ELSE at' = [at EXCEPT ![p] = "waiting"]
    /\ UNCHANGED <<file, lock, data, snapshot, loadError, persisting, provider, history>>

\* Mutant: the lock is not held while the provider is asked.
RefreshWithLock_Unlocked(p) ==
    /\ at[p] = "waiting" /\ lock = Free /\ Readable
    /\ data' = [data EXCEPT ![p] = file] /\ loadError' = [loadError EXCEPT ![p] = FALSE]
    /\ IF file.token = NoToken \/ Valid(file.token)
         THEN at' = [at EXCEPT ![p] = "releasing"] /\ UNCHANGED snapshot
         ELSE /\ at' = [at EXCEPT ![p] = "refreshing"]
              /\ snapshot' = [snapshot EXCEPT ![p] = file]
    /\ UNCHANGED <<file, lock, persisting, provider, history>>

\* refreshOAuthTokenWithLock up to the request: the file is read under the lock, and a
\* token that another process refreshed is used.
RefreshWithLock(p) ==
    /\ at[p] = "waiting" /\ lock = Free /\ Readable
    /\ lock' = p
    /\ data' = [data EXCEPT ![p] = file] /\ loadError' = [loadError EXCEPT ![p] = FALSE]
    /\ IF file.token = NoToken \/ Valid(file.token)
         THEN at' = [at EXCEPT ![p] = "releasing"] /\ UNCHANGED snapshot
         ELSE /\ at' = [at EXCEPT ![p] = "refreshing"]
              /\ snapshot' = [snapshot EXCEPT ![p] = file]
    /\ UNCHANGED <<file, persisting, provider, history>>

\* The file that was locked cannot be parsed.
ParseFails(p) ==
    /\ at[p] = "waiting" /\ lock = Free /\ ~Readable
    /\ lock' = p /\ at' = [at EXCEPT ![p] = "givingUp"]
    /\ UNCHANGED <<file, data, snapshot, loadError, persisting, provider, history>>

\* Mutant: a lock whose holder died is waited for without end.
LockFails_OnlyHeld(p) ==
    /\ at[p] = "waiting" /\ lock \in Processes
    /\ at' = [at EXCEPT ![p] = "failed"]
    /\ UNCHANGED <<file, lock, data, snapshot, loadError, persisting, provider, history>>

\* The retries are over.
LockFails(p) ==
    /\ at[p] = "waiting" /\ lock # Free
    /\ at' = [at EXCEPT ![p] = "failed"]
    /\ UNCHANGED <<file, lock, data, snapshot, loadError, persisting, provider, history>>

\* The provider answers.  data is the object that was read under the lock, with what
\* set() and remove() of this process changed meanwhile; the token of the answer
\* replaces the one in it.
TokenRefreshed(p) ==
    /\ at[p] = "refreshing" /\ issued < MaxTokens /\ snapshot[p].token \notin used
    /\ used' = used \cup {snapshot[p].token} /\ issued' = issued + 1
    /\ data' = [data EXCEPT ![p].token = issued']
    /\ at' = [at EXCEPT ![p] = "refreshed"]
    /\ UNCHANGED <<file, lock, snapshot, loadError, persisting, expired, history>>

\* The provider refuses the token or cannot be reached, or its answer is lost.
RefreshFails(p) ==
    /\ at[p] = "refreshing"
    /\ at' = [at EXCEPT ![p] = "givingUp"]
    /\ \/ UNCHANGED <<used, faults>>
       \/ /\ MayFault /\ snapshot[p].token \notin used
          /\ used' = used \cup {snapshot[p].token} /\ faults' = faults \cup {"tokenLost"}
    /\ UNCHANGED <<file, lock, data, snapshot, loadError, persisting, issued, expired, written, erased>>

\* throwIfCompromised: the loss of the lock is noticed when the lock is next renewed,
\* which may be before or after the file is written.
LockCompromised(p) ==
    /\ at[p] = "refreshed" /\ lock # p
    /\ at' = [at EXCEPT ![p] = "givingUp"]
    /\ UNCHANGED <<file, lock, data, snapshot, loadError, persisting, provider, history>>

\* writeFileSync is under way.
BeginWrite(p) ==
    /\ at[p] = "refreshed"
    /\ file' = Truncated /\ at' = [at EXCEPT ![p] = "writing"]
    /\ IF data[p].key # snapshot[p].key
         THEN written' = data[p].key /\ erased' = FALSE
         ELSE UNCHANGED <<written, erased>>
    /\ UNCHANGED <<lock, data, snapshot, loadError, persisting, provider, faults>>

EndWrite(p) ==
    /\ at[p] = "writing"
    /\ file' = data[p] /\ at' = [at EXCEPT ![p] = "releasing"]
    /\ UNCHANGED <<lock, data, snapshot, loadError, persisting, provider, history>>

\* A write fails after the file was truncated: withLock gives up the lock, the refresh
\* has failed.
WriteFails(p) ==
    /\ Writing(p) /\ MayFault
    /\ file' \in {file, Torn}
    /\ faults' = faults \cup {"torn"} /\ erased' = TRUE
    /\ IF Persisting(p)
         THEN persisting' = [persisting EXCEPT ![p] = Nothing] /\ lock' = Released(p) /\ UNCHANGED at
         ELSE at' = [at EXCEPT ![p] = "givingUp"] /\ UNCHANGED <<persisting, lock>>
    /\ UNCHANGED <<data, snapshot, loadError, provider, written>>

\* release() is awaited, on every way out of withLockAsync.
Release(p) ==
    /\ at[p] \in {"releasing", "givingUp"}
    /\ lock' = Released(p)
    /\ at' = [at EXCEPT ![p] = IF at[p] = "releasing" THEN "idle" ELSE "failed"]
    /\ snapshot' = [snapshot EXCEPT ![p] = NoCredentials]
    /\ UNCHANGED <<file, data, loadError, persisting, provider, history>>

\* Mutant: a failed refresh is reported without looking at the file again.
Recheck_NoReload(p) ==
    /\ at[p] = "failed" /\ Return(p)
    /\ UNCHANGED <<file, lock, data, snapshot, loadError, persisting, provider, history>>

\* The refresh failed: the file is read again, since another process may have
\* succeeded.
Recheck(p) ==
    /\ at[p] = "failed" /\ Reload(p)
    /\ Return(p)
    /\ UNCHANGED <<file, lock, snapshot, persisting, provider, history>>

-----------------------------------------------------------------------------
\* Time passes: the tokens issued so far expire.
Expire ==
    /\ expired < issued /\ expired' = issued
    /\ UNCHANGED <<file, lock, process, persisting, issued, used, history>>

Dies(p) ==
    /\ at' = [at EXCEPT ![p] = "down"]
    /\ data' = [data EXCEPT ![p] = NoCredentials] /\ snapshot' = [snapshot EXCEPT ![p] = NoCredentials]
    /\ loadError' = [loadError EXCEPT ![p] = FALSE]
    /\ persisting' = [persisting EXCEPT ![p] = Nothing]

\* A process dies, perhaps in a write, or with the lock that a reload holds for a moment.
Crash(p) ==
    /\ at[p] # "down" /\ MayFault /\ Dies(p)
    /\ faults' = faults \cup {IF Writing(p) THEN "torn"
                              ELSE IF at[p] = "refreshed" THEN "tokenLost" ELSE "crash"}
    /\ erased' = (erased \/ Writing(p))
    /\ \/ lock' = IF lock = p THEN Orphaned ELSE lock
       \/ at[p] \in {"loading", "failed"} /\ lock = Free /\ lock' = Orphaned
    /\ \/ UNCHANGED file
       \/ Writing(p) /\ file' = Torn
    /\ UNCHANGED <<provider, written>>

\* The process dies when withLock has written the file and not yet given up the lock.
DiesBeforeUnlock(p) ==
    /\ Persisting(p) /\ MayFault /\ Dies(p)
    /\ file' = persisting[p] /\ lock' = IF lock = p THEN Orphaned ELSE lock
    /\ faults' = faults \cup {"crash"}
    /\ UNCHANGED <<provider, written, erased>>

\* An orphaned lock is no longer renewed and may be taken over after some time.
LockGetsStale ==
    /\ lock = Orphaned /\ lock' = Free
    /\ UNCHANGED <<file, process, persisting, provider, history>>

\* A refresh takes so long that withLock of another call takes its lock for stale, uses
\* it and removes it.
LockTaken ==
    /\ MayFault /\ lock \in Processes /\ at[lock] = "refreshing"
    /\ lock' = Free /\ faults' = faults \cup {"lockLost"}
    /\ UNCHANGED <<file, process, persisting, provider, written, erased>>

Progress(p) ==
    \/ EndPersist(p)
    \/ /\ ~Persisting(p)
       /\ \/ Start(p) \/ CreateFile(p) \/ Load(p)
          \/ RefreshWithLock(p) \/ ParseFails(p) \/ LockFails(p)
          \/ TokenRefreshed(p) \/ RefreshFails(p) \/ LockCompromised(p)
          \/ BeginWrite(p) \/ EndWrite(p) \/ Release(p) \/ Recheck(p)

AuthNext ==
    \/ Expire \/ LockGetsStale \/ LockTaken
    \/ \E p \in Processes :
         \/ Progress(p) \/ GetApiKey(p) \/ Login(p) \/ Logout(p)
         \/ Crash(p) \/ DiesBeforeUnlock(p) \/ WriteFails(p)
         \/ \E key \in Keys : SetKey(p, key)

AuthSpec == AuthInit /\ [][AuthNext]_authVars

\* A process goes on with what it began, and a request to the provider ends.
AuthFairness == \A p \in Processes : WF_authVars(Progress(p))

FairAuthSpec == AuthSpec /\ AuthFairness

-----------------------------------------------------------------------------
\* "Refresh OAuth token with backend locking to prevent race conditions" (line 366):
\* the token in the file was not presented yet, or the process that presented it
\* holds the lock and will replace it.  No interleaving of refreshes, logins, logouts
\* and crashes leaves a used token behind, unless the new one was lost before it was
\* written or the lock was taken from a slow refresh.
StoredTokenIsUnused ==
    (Readable /\ file.token \in used /\ faults \cap {"tokenLost", "lockLost"} = {}) =>
        \E p \in Processes : lock = p /\ at[p] = "refreshed" /\ snapshot[p].token = file.token

\* The credentials of other providers survive refreshes, logins and crashes: whenever
\* nobody is writing, what was last written is in the file, also when it was set while a
\* refresh was under way.  A write that dies or fails after the truncation may erase it,
\* and it then stays erased until it is set again: no older value comes back.  The
\* exceptions are a lock taken from a slow refresh, and two processes that create the
\* file at the same time.
OtherCredentialsKept ==
    (/\ Readable /\ \A p \in Processes : ~Writing(p)
     /\ faults \cap {"lockLost", "fileReplaced"} = {}) =>
        file.key = IF erased THEN NoKey ELSE written

\* A process whose refresh failed does not report a failure while the file holds a
\* valid token of another process, unless it cannot read the file: the lock was
\* orphaned, or the one who holds it has found or stored that token and awaits the
\* release.  When the lock was taken from a slow refresh, its holder may store a token
\* while another process holds the lock, and a third one cannot read it then.
LoserUsesWinner ==
    [][\A p \in Processes :
         (/\ at[p] = "failed" /\ at'[p] = "idle" /\ ~Valid(data'[p].token)
          /\ Readable /\ Valid(file.token) /\ "lockLost" \notin faults)
           => lock = Orphaned \/ \E q \in Processes : lock = q /\ at[q] = "releasing"]_authVars

\* Line 466, "credentials preserved for retry": a refresh that failed has lost none.
CredentialsPreserved ==
    (/\ Readable /\ \A p \in Processes : ~Writing(p)
     /\ faults \cap {"lockLost", "fileReplaced"} = {}) => file.key = written

\* getApiKey returns, whatever the other processes do and wherever they die.
GetApiKeyReturns ==
    \A p \in Processes : at[p] = "waiting" ~> at[p] \in {"idle", "down"}
=============================================================================
