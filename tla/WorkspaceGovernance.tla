------------------------- MODULE WorkspaceGovernance -------------------------
(***************************************************************************)
(* One workspace and what may happen to the people and the data in it at   *)
(* the same time: invitations, role changes, removals and transfers of the *)
(* ownership, the deletion of accounts by the job account.delete, legal    *)
(* holds, and the workspace's one document with its file: its retention    *)
(* and its removal by a member.                                            *)
(*                                                                         *)
(* Statements of one transaction are one step where a row lock or a        *)
(* conditional update makes them so, and steps of their own where          *)
(* PostgreSQL lets another transaction commit in between.  A deletion      *)
(* holds locks on the account and on the workspaces it listed; foreign     *)
(* keys make new memberships, invitations and legal holds wait for them,   *)
(* and what waited goes on after the commit.  A request that passed its    *)
(* checks may take its last step any time later: after the workspace was   *)
(* closed, or its user erased.  The job queue is the one of JobQueue,      *)
(* reduced to what a handler sees: attempts in a row, and two at a time    *)
(* when one outlived its lease.  Grace periods and retention periods may   *)
(* be over at any time.                                                    *)
(***************************************************************************)
EXTENDS Naturals, FiniteSets

CONSTANTS
  Users,
  Founder,          \* the owner of the workspace at first
  Members,          \* its other members at first
  Leavers,          \* users who ask, once, for the deletion of their account
  Slots,            \* attempts of account.delete at a time
  MaxAttempts,      \* attempts of a request and of a job (3)
  MaxHolds,         \* bound: legal holds placed
  MaxChanges,       \* bound: invitations, role changes and removals, transfers, subscriptions
  MaxFaults         \* bound: failed database calls, stalls and crashes

NoUser == "nobody"

ASSUME WorkspaceGovernanceAssumption ==
  /\ Founder \in Users /\ NoUser \notin Users
  /\ IsFiniteSet(Users)
  /\ Members \subseteq Users \ {Founder}
  /\ Leavers \subseteq Users
  /\ MaxAttempts \in Nat \ {0}
  /\ MaxHolds \in Nat /\ MaxChanges \in Nat /\ MaxFaults \in Nat

VARIABLES
  role,             \* workspace_memberships.role: owner or another; "none" without a row
  active,           \* members whose status is active
  invited,          \* users with a pending invitation
  stray,            \* users whose invitation was inserted after the workspace had closed
  change,           \* a role change or removal between its read and its write
  closed,           \* workspaces.deleted_at
  paid,             \* does the subscription keep its owner from leaving?
  erased,           \* users.deleted_at
  request,          \* account_privacy_requests of each leaver
  job,              \* the job account.delete of the request
  attempt,          \* the attempts of the jobs: their place and what they read
  holds, placed,    \* active legal holds, holds ever placed
  doc,              \* the documents row
  deletion,         \* the row of retention_file_deletions
  stored,           \* is the file in the storage?
  drain,            \* the place of drainFileDeletions
  removal,          \* the place of a request to remove the document
  raced,            \* memberships changed between a check of them and its use
  late,             \* leavers who cancelled while an attempt was under way
  changes, faults

memberVars == <<role, active, invited, stray, change, paid, raced>>
requestVars == <<request, job, late>>
holdVars == <<holds, placed>>
fileVars == <<doc, deletion, stored, drain, removal>>
vars == <<memberVars, closed, erased, requestVars, attempt, holdVars, fileVars, changes, faults>>

Final == {"completed", "cancelled", "failed"}
Places == {"find", "begin", "blockers", "owned", "members", "check", "files", "commit",
           "complete", "failure"}
Idle == [place |-> "idle", user |-> NoUser, owns |-> FALSE, listed |-> FALSE,
         refs |-> FALSE, current |-> FALSE]
NoChange == [kind |-> "none", user |-> NoUser]

TypeOK ==
  /\ role \in [Users -> {"none", "owner", "member"}]
  /\ active \subseteq Users /\ \A u \in active : role[u] # "none"
  /\ invited \subseteq Users /\ stray \subseteq Users
  /\ change \in [kind : {"none", "role", "remove"}, user : Users \cup {NoUser}]
  /\ closed \in BOOLEAN /\ paid \in BOOLEAN
  /\ erased \subseteq Leavers
  /\ request \in [Leavers -> [status : {"none", "scheduled", "processing"} \cup Final,
                              attempts : 0 .. MaxAttempts]]
  /\ job \in [Leavers -> [status : {"none", "queued", "running"}, attempts : 0 .. MaxAttempts]]
  /\ attempt \in [Slots -> [place : {"idle"} \cup Places, user : Leavers \cup {NoUser},
                            owns : BOOLEAN, listed : BOOLEAN, refs : BOOLEAN,
                            current : BOOLEAN]]
  /\ holds \in 0 .. MaxHolds /\ placed \in holds .. MaxHolds
  /\ doc \in BOOLEAN
  /\ deletion \in {"none", "pending", "completed"}
  /\ stored \in BOOLEAN
  /\ drain \in {"idle", "delete", "complete"}
  /\ removal \in {"idle", "file", "row"}
  /\ raced \in BOOLEAN
  /\ late \subseteq Leavers
  /\ changes \in 0 .. MaxChanges /\ faults \in 0 .. MaxFaults

Init ==
  /\ role = [u \in Users |-> IF u = Founder THEN "owner"
                         ELSE IF u \in Members THEN "member" ELSE "none"]
  /\ active = Members \cup {Founder} /\ invited = {} /\ stray = {}
  /\ change = NoChange
  /\ closed = FALSE /\ paid = FALSE
  /\ erased = {}
  /\ request = [u \in Leavers |-> [status |-> "none", attempts |-> 0]]
  /\ job = [u \in Leavers |-> [status |-> "none", attempts |-> 0]]
  /\ attempt = [x \in Slots |-> Idle]
  /\ holds = 0 /\ placed = 0
  /\ doc = TRUE /\ deletion = "none" /\ stored = TRUE
  /\ drain = "idle" /\ removal = "idle"
  /\ raced = FALSE /\ late = {}
  /\ changes = 0 /\ faults = 0

Change == changes < MaxChanges /\ changes' = changes + 1 /\ UNCHANGED faults
Fault == faults < MaxFaults /\ faults' = faults + 1 /\ UNCHANGED changes

User(x) == attempt[x].user
IsAt(x, place) == attempt[x].place = place
Goto(x, place) == attempt' = [attempt EXCEPT ![x].place = place]

\* Attempts in the transaction of eraseAccount, past its lock and its check.
Erasing == {x \in Slots : attempt[x].place \in {"files", "commit"}}
WorkspaceLocked == \E x \in Erasing : attempt[x].listed
UserLocked(u) == \E x \in Erasing : User(x) = u

\* Attempts that have read the memberships and rely on what they read.
Relying == {x \in Slots : attempt[x].place \in {"members", "check", "files", "commit"}}

-----------------------------------------------------------------------------
(* Members                                                                 *)

\* createInvitation: the inserted row waits for the lock of the workspace; whether the
\* workspace was closed since the request began is not asked.  The address of an erased
\* account is nobody's.
Invite(u) ==
  /\ ~WorkspaceLocked
  /\ u \notin active \cup invited \cup erased
  /\ invited' = invited \cup {u}
  /\ stray' = IF closed THEN stray \cup {u} ELSE stray
  /\ Change
  /\ UNCHANGED <<role, active, change, paid, raced, closed, erased, requestVars, attempt,
                 holdVars, fileVars>>

\* acceptInvitationRecord: any former membership, an inactive one too, refuses it.  Neither
\* the workspace nor the account is asked for its deletion, which an acceptance that has
\* begun may outlive.
Accept(u) ==
  /\ ~WorkspaceLocked /\ ~UserLocked(u)
  /\ u \in invited /\ role[u] = "none"
  /\ invited' = invited \ {u}
  /\ role' = [role EXCEPT ![u] = "member"]
  /\ active' = active \cup {u}
  /\ raced' = (raced \/ Relying # {})
  /\ UNCHANGED <<stray, change, paid, closed, erased, requestVars, attempt, holdVars, fileVars,
                 changes, faults>>

\* updateMemberRole and removeMember read the membership without a lock ...
StartChange(kind, u) ==
  /\ change = NoChange
  /\ role[u] = "member"
  /\ change' = [kind |-> kind, user |-> u]
  /\ Change
  /\ UNCHANGED <<role, active, invited, stray, paid, raced, closed, erased, requestVars, attempt,
                 holdVars, fileVars>>

\* ... and write it, whatever the role is by then.
FinishChange ==
  LET u == change.user IN
  /\ change # NoChange
  /\ IF change.kind = "remove"
     THEN role' = [role EXCEPT ![u] = "none"] /\ active' = active \ {u}
     ELSE /\ role' = [role EXCEPT ![u] = IF @ = "none" THEN @ ELSE "member"]
          /\ UNCHANGED active
  /\ change' = NoChange
  /\ raced' = (raced \/ Relying # {})
  /\ UNCHANGED <<invited, stray, paid, closed, erased, requestVars, attempt, holdVars, fileVars,
                 changes, faults>>

\* transfer: both memberships and their accounts are locked and checked, the memberships are
\* updated.  What others have read of the roles may be in use.
Transfer(a, b) ==
  /\ ~UserLocked(a) /\ ~UserLocked(b)
  /\ a # b /\ {a, b} \subseteq active
  /\ role[a] = "owner" /\ role[b] # "owner"
  /\ role' = [role EXCEPT ![a] = "member", ![b] = "owner"]
  /\ raced' = (raced \/ change.user = b \/ Relying # {})
  /\ Change
  /\ UNCHANGED <<active, invited, stray, change, paid, closed, erased, requestVars, attempt,
                 holdVars, fileVars>>

\* The subscription of the workspace starts or ends (PaymentWebhooks).
Subscribe ==
  /\ paid' = ~paid
  /\ Change
  /\ UNCHANGED <<role, active, invited, stray, change, raced, closed, erased, requestVars, attempt,
                 holdVars, fileVars>>

-----------------------------------------------------------------------------
(* Legal holds, retention and the removal of the document                  *)

PlaceHold ==
  /\ ~WorkspaceLocked
  /\ placed < MaxHolds
  /\ placed' = placed + 1 /\ holds' = holds + 1
  /\ UNCHANGED <<memberVars, closed, erased, requestVars, attempt, fileVars, changes, faults>>

ReleaseHold ==
  /\ holds > 0 /\ holds' = holds - 1
  /\ UNCHANGED <<memberVars, closed, erased, requestVars, attempt, placed, fileVars, changes, faults>>

\* enforce: under the lock of the workspace, and blocked by a hold.
Enforce ==
  /\ ~WorkspaceLocked
  /\ holds = 0
  /\ doc /\ doc' = FALSE
  /\ deletion' = "pending"
  /\ UNCHANGED <<stored, drain, removal, memberVars, closed, erased, requestVars, attempt, holdVars,
                 changes, faults>>

\* pendingFileDeletions: none under a hold.
PendingDeletions == drain = "idle" /\ deletion = "pending" /\ holds = 0

\* drainFileDeletions reads the pending deletions, then deletes the files, whatever was
\* placed since, and completes the rows; an error or a crash leaves a row pending (the third
\* error of one row, beyond the bound on faults, would leave it failed).
Drain ==
  /\ \/ PendingDeletions /\ drain' = "delete" /\ UNCHANGED <<deletion, stored, faults>>
     \/ drain = "delete" /\ drain' = "complete" /\ stored' = FALSE /\ UNCHANGED <<deletion, faults>>
     \/ /\ drain = "complete" /\ drain' = "idle"
        /\ deletion' = "completed" /\ UNCHANGED <<stored, faults>>
     \/ /\ drain # "idle" /\ drain' = "idle"
        /\ faults < MaxFaults /\ faults' = faults + 1
        /\ UNCHANGED <<deletion, stored>>
  /\ UNCHANGED <<doc, removal, memberVars, closed, erased, requestVars, attempt, holdVars, changes>>

\* DELETE of the document by a member: the row is found and its index entries are deleted ...
StartRemoval ==
  /\ removal = "idle" /\ ~closed /\ doc
  /\ removal' = "file"
  /\ UNCHANGED <<doc, deletion, stored, drain, memberVars, closed, erased, requestVars, attempt,
                 holdVars, changes, faults>>

\* ... then the file and at last the row, no legal hold being looked at; the request may
\* fail before either, or having done it.
Remove ==
  /\ \/ removal = "file" /\ removal' = "row" /\ stored' = FALSE /\ UNCHANGED <<doc, faults>>
     \/ removal = "row" /\ removal' = "idle" /\ doc' = FALSE /\ UNCHANGED <<stored, faults>>
     \/ /\ removal # "idle" /\ removal' = "idle"
        /\ faults < MaxFaults /\ faults' = faults + 1
        /\ \/ UNCHANGED <<doc, stored>>
           \/ removal = "file" /\ stored' = FALSE /\ UNCHANGED doc
           \/ removal = "row" /\ doc' = FALSE /\ UNCHANGED stored
  /\ UNCHANGED <<deletion, drain, memberVars, closed, erased, requestVars, attempt, holdVars,
                 changes>>

-----------------------------------------------------------------------------
(* Requests for the deletion of an account                                 *)

\* deletionBlockers: an owned workspace with other members or a paid subscription, a
\* membership in a workspace under a legal hold.
Blocked(u) ==
  /\ u \in active /\ ~closed
  /\ \/ role[u] = "owner" /\ (Cardinality(active) > 1 \/ paid)
     \/ holds > 0

\* request: the blockers are read before the transaction of requestDeletion.
RequestDeletion(u) ==
  /\ request[u].status = "none"
  /\ ~Blocked(u)
  /\ request' = [request EXCEPT ![u].status = "scheduled"]
  /\ UNCHANGED <<job, late, memberVars, closed, erased, attempt, holdVars, fileVars, changes, faults>>

\* cancelDeletion waits for the lock of the account; an erased account has no session.
Cancel(u) ==
  /\ request[u].status = "scheduled"
  /\ ~UserLocked(u) /\ u \notin erased
  /\ request' = [request EXCEPT ![u].status = "cancelled"]
  /\ late' = IF \E x \in Slots : User(x) = u THEN late \cup {u} ELSE late
  /\ UNCHANGED <<job, memberVars, closed, erased, attempt, holdVars, fileVars, changes, faults>>

\* The scheduler creates the job of a due request, at most one at a time.
Tick(u) ==
  /\ request[u].status = "scheduled" /\ request[u].attempts < MaxAttempts
  /\ job[u].status = "none"
  /\ job' = [job EXCEPT ![u] = [status |-> "queued", attempts |-> 0]]
  /\ UNCHANGED <<request, late, memberVars, closed, erased, attempt, holdVars, fileVars,
                 changes, faults>>

\* A worker claims the job.  Slots are names of attempts: one that is idle will do.
Claim(x, u) ==
  /\ IsAt(x, "idle")
  /\ x = CHOOSE y \in Slots : IsAt(y, "idle")
  /\ job[u].status = "queued"
  /\ job' = [job EXCEPT ![u] = [status |-> "running", attempts |-> @.attempts + 1]]
  /\ attempt' = [attempt EXCEPT ![x] =
       [Idle EXCEPT !.place = "find", !.user = u, !.current = TRUE]]
  /\ UNCHANGED <<request, late, memberVars, closed, erased, holdVars, fileVars, changes, faults>>

\* Mutant: a job is queued again however often it was tried.
AttemptFailedForever(u) ==
  job' = [job EXCEPT ![u].status = IF @ = "running" THEN "queued" ELSE "none"]

AttemptFailed(u) ==
  job' = [job EXCEPT ![u].status = IF @ = "running" /\ job[u].attempts < MaxAttempts
                                   THEN "queued" ELSE "none"]

\* The attempt ends: the queue takes its result if the lease is still its own.
End(x, succeeded) ==
  /\ attempt' = [attempt EXCEPT ![x] = Idle]
  /\ IF ~attempt[x].current THEN UNCHANGED job
     ELSE IF succeeded THEN job' = [job EXCEPT ![User(x)].status = "none"]
     ELSE AttemptFailed(User(x))

\* The lease of an attempt expires because its worker crashed or has stalled.
Expire(u) ==
  /\ job[u].status = "running"
  /\ AttemptFailed(u)
  /\ IF \E x \in Slots : User(x) = u /\ attempt[x].current THEN Fault
                                                           ELSE UNCHANGED <<changes, faults>>
  /\ attempt' = [x \in Slots |->
       IF User(x) = u THEN [attempt[x] EXCEPT !.current = FALSE] ELSE attempt[x]]
  /\ UNCHANGED <<request, late, memberVars, closed, erased, holdVars, fileVars>>

-----------------------------------------------------------------------------
(* execute, one attempt of account.delete, a step for each awaited call    *)

onlyAttempt == <<memberVars, closed, erased, holdVars, fileVars, late, changes, faults>>

\* Mutant: a request that was cancelled or has failed is executed.
FindAlways(x) ==
  /\ IsAt(x, "find")
  /\ IF request[User(x)].status = "completed"
     THEN End(x, TRUE)
     ELSE Goto(x, "begin") /\ UNCHANGED job
  /\ UNCHANGED <<request, onlyAttempt>>

\* findByRequestId: a request that is over is skipped.
Find(x) ==
  /\ IsAt(x, "find")
  /\ IF request[User(x)].status \in Final
     THEN End(x, TRUE)
     ELSE Goto(x, "begin") /\ UNCHANGED job
  /\ UNCHANGED <<request, onlyAttempt>>

\* beginDeletion: a request that is no longer scheduled is returned as it is.
Begin(x) ==
  /\ IsAt(x, "begin")
  /\ request' = [request EXCEPT ![User(x)].status = IF @ = "scheduled" THEN "processing" ELSE @]
  /\ Goto(x, "blockers")
  /\ UNCHANGED <<job, onlyAttempt>>

\* The blockers, the owned workspaces without other members, the active memberships and the
\* references of the files are read before the transaction.
ReadBlockers(x) ==
  /\ IsAt(x, "blockers")
  /\ Goto(x, IF Blocked(User(x)) THEN "failure"
             ELSE IF User(x) \in erased THEN "complete" ELSE "owned")
  /\ UNCHANGED <<request, job, onlyAttempt>>

ReadOwned(x) ==
  /\ IsAt(x, "owned")
  /\ attempt' = [attempt EXCEPT ![x] =
       [@ EXCEPT !.place = "members",
                 !.owns = role[User(x)] = "owner" /\ active = {User(x)}]]
  /\ UNCHANGED <<request, job, onlyAttempt>>

ReadMemberships(x) ==
  /\ IsAt(x, "members")
  /\ attempt' = [attempt EXCEPT ![x] =
       [@ EXCEPT !.place = "check", !.listed = User(x) \in active, !.refs = attempt[x].owns /\ doc]]
  /\ UNCHANGED <<request, job, onlyAttempt>>

AfterCheck(x) == IF attempt[x].refs THEN "files" ELSE "commit"

\* Mutant: the blockers are not looked at again under the lock.
CheckOnce(x) ==
  /\ IsAt(x, "check")
  /\ ~UserLocked(User(x)) /\ (attempt[x].listed => ~WorkspaceLocked)
  /\ Goto(x, AfterCheck(x))
  /\ UNCHANGED <<request, job, onlyAttempt>>

\* The transaction of eraseAccount: the locks and the blockers again ...
Check(x) ==
  /\ IsAt(x, "check")
  /\ ~UserLocked(User(x)) /\ (attempt[x].listed => ~WorkspaceLocked)
  /\ Goto(x, IF Blocked(User(x)) THEN "failure" ELSE AfterCheck(x))
  /\ UNCHANGED <<request, job, onlyAttempt>>

\* ... the files, which no rollback brings back ...
DeleteFiles(x) ==
  /\ IsAt(x, "files")
  /\ stored' = FALSE
  /\ Goto(x, "commit")
  /\ UNCHANGED <<request, job, memberVars, closed, erased, holdVars, doc, deletion, drain, removal,
                 late, changes, faults>>

\* ... and the rows: the workspaces that were found owned are closed, the memberships
\* become inactive, the account a tombstone.  Other attempts may rely on these memberships.
Erase(x) ==
  LET u == User(x)
      others == {y \in Relying : User(y) # u} IN
  /\ closed' = (closed \/ attempt[x].owns)
  /\ invited' = IF attempt[x].owns THEN {} ELSE invited
  /\ doc' = (doc /\ ~attempt[x].owns)
  /\ active' = active \ {u}
  /\ raced' = (raced \/ (u \in active /\ others # {}))
  /\ erased' = erased \cup {u}
  /\ UNCHANGED <<role, stray, change, paid, holdVars, deletion, stored, drain, removal>>

Commit(x) ==
  /\ IsAt(x, "commit")
  /\ Erase(x)
  /\ Goto(x, "complete")
  /\ UNCHANGED <<requestVars, changes, faults>>

\* completeDeletion: a request that is not being processed is a conflict.
Complete(x) ==
  /\ IsAt(x, "complete")
  /\ IF request[User(x)].status = "processing"
     THEN request' = [request EXCEPT ![User(x)].status = "completed"] /\ End(x, TRUE)
     ELSE Goto(x, "failure") /\ UNCHANGED <<request, job>>
  /\ UNCHANGED onlyAttempt

\* Mutant: failed attempts of the request are not counted.
RecordFailureUncounted(u) ==
  request' = [request EXCEPT ![u] =
    IF @.status = "processing" THEN [@ EXCEPT !.status = "scheduled"] ELSE @]

RecordFailure(u) ==
  request' = [request EXCEPT ![u] =
    IF @.status # "processing" THEN @
    ELSE [status |-> IF @.attempts + 1 >= MaxAttempts THEN "failed" ELSE "scheduled",
          attempts |-> @.attempts + 1]]

\* recordDeletionFailure, and the attempt of the job fails.
Fail(x) ==
  /\ IsAt(x, "failure")
  /\ RecordFailure(User(x))
  /\ End(x, FALSE)
  /\ UNCHANGED onlyAttempt

\* A call throws, having committed or not: before the try block, and in the recording of
\* the failure, the attempt ends; the transaction of eraseAccount is rolled back.
CallFails(x) ==
  /\ Fault
  /\ \/ /\ attempt[x].place \in {"find", "begin", "failure"}
        /\ \/ UNCHANGED request
           \/ /\ IsAt(x, "begin")
              /\ request' = [request EXCEPT ![User(x)].status =
                               IF @ = "scheduled" THEN "processing" ELSE @]
           \/ IsAt(x, "failure") /\ RecordFailure(User(x))
        /\ End(x, FALSE)
        /\ UNCHANGED <<memberVars, closed, erased, holdVars, fileVars>>
     \/ /\ attempt[x].place \in {"blockers", "owned", "members", "check", "files"}
        /\ Goto(x, "failure")
        /\ \/ UNCHANGED stored
           \/ IsAt(x, "files") /\ stored' = FALSE
        /\ UNCHANGED <<request, job, memberVars, closed, erased, holdVars, doc, deletion, drain,
                       removal>>
     \/ /\ IsAt(x, "commit")
        /\ Erase(x) \/ UNCHANGED <<memberVars, closed, erased, holdVars, fileVars>>
        /\ Goto(x, "failure")
        /\ UNCHANGED <<request, job>>
     \/ /\ IsAt(x, "complete")
        /\ \/ UNCHANGED request
           \/ /\ request[User(x)].status = "processing"
              /\ request' = [request EXCEPT ![User(x)].status = "completed"]
        /\ Goto(x, "failure")
        /\ UNCHANGED <<job, memberVars, closed, erased, holdVars, fileVars>>
  /\ UNCHANGED late

\* The worker dies: the lease of its attempt expires later.
Crash(x) ==
  /\ ~IsAt(x, "idle")
  /\ Fault
  /\ attempt' = [attempt EXCEPT ![x] = Idle]
  /\ UNCHANGED <<requestVars, memberVars, closed, erased, holdVars, fileVars>>

-----------------------------------------------------------------------------
Execute(x) ==
  \/ Find(x) \/ Begin(x) \/ ReadBlockers(x) \/ ReadOwned(x) \/ ReadMemberships(x)
  \/ Check(x) \/ DeleteFiles(x) \/ Commit(x) \/ Complete(x) \/ Fail(x)

Next ==
  \/ \E u \in Users : Invite(u) \/ Accept(u)
  \/ \E u \in Users, kind \in {"role", "remove"} : StartChange(kind, u)
  \/ \E a, b \in Users : Transfer(a, b)
  \/ FinishChange \/ Subscribe
  \/ PlaceHold \/ ReleaseHold \/ Enforce \/ Drain \/ StartRemoval \/ Remove
  \/ \E u \in Leavers : RequestDeletion(u) \/ Cancel(u) \/ Tick(u) \/ Expire(u)
  \/ \E x \in Slots, u \in Leavers : Claim(x, u)
  \/ \E x \in Slots : Execute(x) \/ CallFails(x) \/ Crash(x)

Spec == Init /\ [][Next]_vars

\* The scheduler ticks, the queue hands out its jobs and recovers leases (JobQueue), and a
\* handler proceeds.
FairSpec ==
  /\ Spec
  /\ \A u \in Leavers : /\ WF_vars(Tick(u))
                        /\ WF_vars(Expire(u))
                        /\ WF_vars(\E x \in Slots : Claim(x, u))
  /\ \A x \in Slots : WF_vars(Execute(x))

-----------------------------------------------------------------------------
(* Properties                                                              *)

Owners == {u \in active : role[u] = "owner"}

\* A workspace never has two active owners.  While it is open it has one, and once it is
\* closed nobody is in it but members whose invitation was inserted after that, unless
\* memberships changed between a check of them and the write that relies on it: a transfer
\* in updateMemberRole and removeMember, any change, another member's erasure included, in
\* eraseAccount.
OwnerKept ==
  /\ Cardinality(Owners) <= 1
  /\ raced \/ IF closed THEN Owners = {} /\ active \subseteq stray ELSE Owners # {}

\* In an open workspace under a legal hold neither the retention nor the deletion of an
\* account removes the document, its file or a member's account, unless memberships changed
\* in that way, and except for a file whose deletion was under way when the hold was placed;
\* only a request to remove this document does.
HoldsPreserve ==
  [][holds > 0 /\ ~closed /\ ~raced =>
       /\ doc' = doc \/ removal = "row"
       /\ active \cap erased' \subseteq erased
       /\ stored' = stored \/ removal = "file" \/ (drain = "delete" /\ deletion = "pending")]_vars

\* A request is completed only when the account is erased, and an account is erased although
\* its user cancelled only if the cancellation came while an attempt was under way
\* (execute does not look at what beginDeletion returns).
ErasureIsWanted ==
  \A u \in Leavers :
    /\ request[u].status = "completed" => u \in erased
    /\ u \in erased /\ request[u].status = "cancelled" => u \in late

\* The last attempt of a job died while it processed the request: no scheduler looks at it.
Stranded(u) == request[u].status = "processing" /\ job[u].status = "none"

\* A request is completed, cancelled or failed in the end, however often attempts fail, or
\* stranded by crashes of all the attempts of a job.
DeletionSettles ==
  \A u \in Leavers :
    request[u].status = "scheduled" ~> request[u].status \in Final \/ Stranded(u)
=============================================================================
