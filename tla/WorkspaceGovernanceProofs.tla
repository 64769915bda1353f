----------------------- MODULE WorkspaceGovernanceProofs -----------------------
(***************************************************************************)
(* Who owns a workspace, what a legal hold keeps and which accounts are    *)
(* erased, for every number of users, attempts, changes, holds and faults. *)
(* The inductive invariant adds to the checked ones what an attempt of     *)
(* account.delete may rely on at each place (Relies, Wanted): what it read *)
(* before its transaction is still so, unless memberships raced with it.   *)
(***************************************************************************)
EXTENDS WorkspaceGovernance, FiniteSetTheorems, TLAPS

\* The members' part of the types.
MembersType ==
  /\ role \in [Users -> {"none", "owner", "member"}]
  /\ active \subseteq Users /\ \A u \in active : role[u] # "none"
  /\ invited \subseteq Users /\ stray \subseteq Users
  /\ change \in [kind : {"none", "role", "remove"}, user : Users \cup {NoUser}]
  /\ change = NoChange \/ (change.kind \in {"role", "remove"} /\ change.user \in Users)

\* The Boolean columns.
Flags ==
  /\ closed \in BOOLEAN /\ paid \in BOOLEAN /\ raced \in BOOLEAN
  /\ doc \in BOOLEAN /\ stored \in BOOLEAN

RequestSet == [Leavers -> [status : {"none", "scheduled", "processing"} \cup Final,
                           attempts : 0 .. MaxAttempts]]
JobSet == [Leavers -> [status : {"none", "queued", "running"}, attempts : 0 .. MaxAttempts]]

AttemptSet == [place : {"idle"} \cup Places, user : Leavers \cup {NoUser},
               owns : BOOLEAN, listed : BOOLEAN, refs : BOOLEAN, current : BOOLEAN]

\* A request that is not over and a job that is queued have an attempt left.
RequestsType ==
  /\ request \in RequestSet /\ job \in JobSet
  /\ \A u \in Leavers : request[u].status \notin Final => request[u].attempts < MaxAttempts
  /\ \A u \in Leavers : job[u].status = "queued" => job[u].attempts < MaxAttempts
  /\ late \subseteq Leavers

AttemptsType ==
  /\ attempt \in [Slots -> AttemptSet]
  /\ \A x \in Slots : attempt[x].place # "idle" => User(x) \in Leavers

\* Holds, files and tombstones; a drain works on a pending deletion.
DataType ==
  /\ erased \subseteq Leavers
  /\ holds \in 0 .. MaxHolds /\ placed \in holds .. MaxHolds
  /\ deletion \in {"none", "pending", "completed"}
  /\ drain \in {"idle", "delete", "complete"}
  /\ removal \in {"idle", "file", "row"}
  /\ drain # "idle" => deletion = "pending"

CountersOK == changes \in 0 .. MaxChanges /\ faults \in 0 .. MaxFaults

\* TypeOK in parts, and what else keeps the types.
Types == Flags /\ MembersType /\ RequestsType /\ AttemptsType /\ DataType /\ CountersOK

\* One active member is the owner.
OneOwner == \E o \in active : \A u \in active : role[u] = "owner" <=> u = o

\* What an attempt read is still so.
Relies(x) ==
  LET u == User(x) IN
  /\ x \in Relying => (attempt[x].owns <=> role[u] = "owner" /\ active = {u})
  /\ attempt[x].place \in {"check", "files", "commit"} /\ u \in active => attempt[x].listed
  /\ x \in Erasing /\ u \in active => holds = 0 /\ (role[u] = "owner" => attempt[x].owns)

\* While nothing raced: who owns the workspace, and what change and attempts read of it.
People ==
  /\ \A u, v \in Users : role[u] = "owner" /\ role[v] = "owner" => u = v
  /\ closed => invited \subseteq stray
  /\ ~raced /\ closed => \A u \in active : role[u] # "owner" /\ u \in stray
  /\ ~raced /\ ~closed => OneOwner
  /\ ~raced /\ change # NoChange => role[change.user] # "owner"
  /\ ~raced /\ ~closed => \A x \in Slots : Relies(x)
  /\ \A x \in Slots : /\ attempt[x].place \in {"check", "files", "commit"} =>
                           (attempt[x].refs => attempt[x].owns)
                      /\ attempt[x].place = "files" => attempt[x].refs

\* An attempt past its check of the request executes a request that was not cancelled
\* before, and one that completes it has erased the account.
Wanted(x) ==
  /\ attempt[x].place \notin {"idle", "find"} /\ request[User(x)].status = "cancelled"
       => User(x) \in late
  /\ attempt[x].place = "complete" => User(x) \in erased

Wishes == ErasureIsWanted /\ \A x \in Slots : Wanted(x)

\* The inductive invariant.
GovernanceInv == Types /\ People /\ Wishes

\* Two groups of actions.
Membership ==
  \/ \E u \in Users : Invite(u) \/ Accept(u)
  \/ \E u \in Users, kind \in {"role", "remove"} : StartChange(kind, u)
  \/ \E a, b \in Users : Transfer(a, b)
  \/ FinishChange \/ Subscribe
Holding == PlaceHold \/ ReleaseHold \/ Enforce \/ Drain \/ StartRemoval \/ Remove

-----------------------------------------------------------------------------
(* Types                                                                   *)

LEMMA CountersType ==
  ASSUME TypeOK, Change \/ Fault \/ UNCHANGED <<changes, faults>>
  PROVE  changes' \in 0 .. MaxChanges /\ faults' \in 0 .. MaxFaults
BY WorkspaceGovernanceAssumption DEF TypeOK, Change, Fault

LEMMA TypesParts == Types => TypeOK
BY DEF Types, TypeOK, Flags, MembersType, RequestsType, AttemptsType, DataType, CountersOK,
   RequestSet, JobSet, AttemptSet

LEMMA FlagsType ==
  ASSUME Flags, [Next]_vars
  PROVE  Flags'
<1> USE DEF Flags
<1>1. CASE UNCHANGED <<memberVars, closed, doc, stored>>
  BY <1>1, Zenon DEF memberVars
<1>2. ASSUME NEW x \in Slots, Erase(x), UNCHANGED stored PROVE Flags'
  BY <1>2, Zenon DEF Erase
<1>3. ASSUME NEW u \in Users, Invite(u) \/ Accept(u) PROVE Flags'
  BY <1>3, Zenon DEF Invite, Accept, fileVars
<1>4. ASSUME NEW u \in Users, NEW kind \in {"role", "remove"}, StartChange(kind, u) PROVE Flags'
  BY <1>4, Zenon DEF StartChange, fileVars
<1>5. ASSUME NEW a \in Users, NEW b \in Users, Transfer(a, b) PROVE Flags'
  BY <1>5, Zenon DEF Transfer, fileVars
<1>6. CASE FinishChange \/ Subscribe
  BY <1>6, Zenon DEF FinishChange, Subscribe, fileVars
<1>7. CASE PlaceHold \/ ReleaseHold \/ Enforce \/ Drain \/ StartRemoval \/ Remove
  BY <1>7, Zenon DEF PlaceHold, ReleaseHold, Enforce, Drain, StartRemoval, Remove, memberVars,
     fileVars
<1>8. ASSUME NEW u \in Leavers, RequestDeletion(u) \/ Cancel(u) \/ Tick(u) \/ Expire(u)
      PROVE  Flags'
  BY <1>1, <1>8, Zenon DEF RequestDeletion, Cancel, Tick, Expire, fileVars
<1>9. ASSUME NEW x \in Slots, NEW u \in Leavers, Claim(x, u) PROVE Flags'
  BY <1>1, <1>9, Zenon DEF Claim, fileVars
<1>10. ASSUME NEW x \in Slots, Execute(x) PROVE Flags'
  <2>1. CASE UNCHANGED onlyAttempt
    BY <1>1, <2>1, Zenon DEF onlyAttempt, fileVars
  <2>2. CASE DeleteFiles(x)
    BY <2>2, Zenon DEF DeleteFiles, memberVars
  <2>3. CASE Commit(x)
    BY <1>2, <2>3, Zenon DEF Commit, Erase
  <2>4. QED
    BY <1>10, <2>1, <2>2, <2>3, Zenon DEF Execute, Find, Begin, ReadBlockers, ReadOwned,
       ReadMemberships, Check, Complete, Fail
<1>11. ASSUME NEW x \in Slots, CallFails(x) PROVE Flags'
  <2>1. CASE UNCHANGED <<memberVars, closed, erased, holdVars, fileVars>>
    BY <1>1, <2>1, Zenon DEF fileVars
  <2>2. CASE Erase(x)
    BY <1>2, <2>2, Zenon DEF Erase
  <2>3. CASE /\ UNCHANGED stored \/ stored' = FALSE
             /\ UNCHANGED <<memberVars, closed, doc>>
    BY <2>3, Zenon DEF memberVars
  <2>4. QED
    BY <1>11, <2>1, <2>2, <2>3, Zenon DEF CallFails
<1>12. ASSUME NEW x \in Slots, Crash(x) PROVE Flags'
  BY <1>1, <1>12, Zenon DEF Crash, fileVars
<1>13. CASE UNCHANGED vars
  BY <1>1, <1>13, Zenon DEF vars, fileVars
<1>14. QED
  BY <1>3, <1>4, <1>5, <1>6, <1>7, <1>8, <1>9, <1>10, <1>11, <1>12, <1>13, Zenon DEF Next

LEMMA FailedJobType ==
  ASSUME RequestsType, NEW u \in Leavers, AttemptFailed(u)
  PROVE  /\ job' \in JobSet
         /\ \A v \in Leavers : job'[v].status = "queued" => job'[v].attempts < MaxAttempts
BY WorkspaceGovernanceAssumption DEF RequestsType, JobSet, AttemptFailed

LEMMA EndType ==
  ASSUME RequestsType, AttemptsType, NEW x \in Slots, User(x) \in Leavers, NEW s \in BOOLEAN,
         End(x, s)
  PROVE  /\ job' \in JobSet
         /\ \A v \in Leavers : job'[v].status = "queued" => job'[v].attempts < MaxAttempts
         /\ AttemptsType'
<1>1. AttemptsType'
  BY DEF End, AttemptsType, AttemptSet, Idle, User, Places
<1>2. CASE UNCHANGED job
  BY <1>1, <1>2 DEF RequestsType
<1>3. CASE job' = [job EXCEPT ![User(x)].status = "none"]
  BY <1>1, <1>3 DEF RequestsType, JobSet
<1>4. CASE AttemptFailed(User(x))
  BY <1>1, <1>4, FailedJobType
<1>5. QED
  BY <1>2, <1>3, <1>4 DEF End

\* A new status, which is not a way back from a final one.
LEMMA StatusType ==
  ASSUME RequestsType, NEW u \in Leavers,
         NEW s \in {"none", "scheduled", "processing"} \cup Final,
         s \notin Final => request[u].status \notin Final,
         request' = [request EXCEPT ![u].status = s]
  PROVE  /\ request' \in RequestSet
         /\ \A v \in Leavers : request'[v].status \notin Final
                                 => request'[v].attempts < MaxAttempts
BY DEF RequestsType, RequestSet

LEMMA RecordType ==
  ASSUME RequestsType, NEW u \in Leavers, RecordFailure(u)
  PROVE  /\ request' \in RequestSet
         /\ \A v \in Leavers : request'[v].status \notin Final
                                 => request'[v].attempts < MaxAttempts
<1> DEFINE a == request[u].attempts
<1>1. request[u].attempts \in 0 .. MaxAttempts /\ MaxAttempts \in Nat
  BY WorkspaceGovernanceAssumption DEF RequestsType, RequestSet
<1>2. CASE request[u].status # "processing"
  <2>1. request' = [request EXCEPT ![u] = request[u]]
    BY <1>2 DEF RecordFailure
  <2>2. QED
    BY <2>1 DEF RequestsType, RequestSet
<1>3. CASE request[u].status = "processing"
  <2>1. a < MaxAttempts
    BY <1>3 DEF RequestsType, Final
  <2>2. request' = [request EXCEPT ![u] =
          [status |-> IF a + 1 >= MaxAttempts THEN "failed" ELSE "scheduled",
           attempts |-> a + 1]]
    BY <1>3 DEF RecordFailure
  <2>3. QED
    BY <1>1, <2>1, <2>2 DEF RequestsType, RequestSet, Final
<1>4. QED
  BY <1>2, <1>3

\* An attempt reads something, and goes on for the same user.
LEMMA ReadType ==
  ASSUME AttemptsType, NEW x \in Slots, attempt[x].place # "idle", NEW r \in AttemptSet,
         r.user = attempt[x].user, attempt' = [attempt EXCEPT ![x] = r]
  PROVE  AttemptsType'
BY DEF AttemptsType, AttemptSet, User

LEMMA GotoType ==
  ASSUME AttemptsType, NEW x \in Slots, attempt[x].place # "idle", NEW p \in Places, Goto(x, p)
  PROVE  AttemptsType'
BY DEF AttemptsType, AttemptSet, Goto, User, Places
LEMMA StutterTypes ==
  ASSUME Types, Flags', UNCHANGED vars
  PROVE  Types'
BY DEF Types, MembersType, RequestsType, AttemptsType, DataType, CountersOK, User, vars,
   memberVars, requestVars, holdVars, fileVars

LEMMA MembershipTypes ==
  ASSUME Types, Flags', Membership
  PROVE  Types'
<1> USE DEF Types
<1>0. UNCHANGED <<erased, requestVars, attempt, holdVars, fileVars>>
  BY DEF Membership, Invite, Accept, StartChange, Transfer, FinishChange, Subscribe
<1>1. RequestsType' /\ AttemptsType' /\ DataType'
  BY <1>0 DEF RequestsType, AttemptsType, DataType, requestVars, holdVars, fileVars, User
<1>2. CountersOK'
  BY CountersType, TypesParts DEF CountersOK, Membership, Invite, Accept, StartChange, Transfer,
     FinishChange, Subscribe
<1>3. ASSUME NEW u \in Users, Invite(u) PROVE MembersType'
  BY <1>3 DEF Invite, MembersType
<1>4. ASSUME NEW u \in Users, Accept(u) PROVE MembersType'
  BY <1>4 DEF Accept, MembersType
<1>5. ASSUME NEW u \in Users, NEW kind \in {"role", "remove"}, StartChange(kind, u)
      PROVE  MembersType'
  BY <1>5 DEF StartChange, MembersType
<1>6. ASSUME NEW a \in Users, NEW b \in Users, Transfer(a, b) PROVE MembersType'
  BY <1>6 DEF Transfer, MembersType
<1>7. ASSUME FinishChange PROVE MembersType'
  <2>1. change.user \in Users
    BY <1>7 DEF FinishChange, MembersType
  <2>3. change' \in [kind : {"none", "role", "remove"}, user : Users \cup {NoUser}]
    BY <1>7 DEF FinishChange, NoChange
  <2>4. CASE change.kind = "remove"
    BY <1>7, <2>1, <2>3, <2>4 DEF FinishChange, MembersType
  <2>5. CASE change.kind # "remove"
    BY <1>7, <2>1, <2>3, <2>5 DEF FinishChange, MembersType
  <2>6. QED
    BY <2>4, <2>5
<1>8. ASSUME Subscribe PROVE MembersType'
  <2>1. UNCHANGED <<role, active, invited, stray, change>>
    BY <1>8 DEF Subscribe
  <2>2. QED
    BY <2>1 DEF MembersType
<1>9. MembersType'
  BY <1>3, <1>4, <1>5, <1>6, <1>7, <1>8 DEF Membership
<1>10. QED
  BY <1>1, <1>2, <1>9

LEMMA HoldingTypes ==
  ASSUME Types, Flags', Holding
  PROVE  Types'
<1> USE DEF Types
<1>0. UNCHANGED <<memberVars, closed, erased, requestVars, attempt>>
  BY DEF Holding, PlaceHold, ReleaseHold, Enforce, Drain, StartRemoval, Remove
<1>1. RequestsType' /\ AttemptsType' /\ MembersType'
  BY <1>0 DEF RequestsType, AttemptsType, MembersType, requestVars, memberVars, User
<1>2. CountersOK'
  BY WorkspaceGovernanceAssumption DEF CountersOK, Holding, PlaceHold, ReleaseHold, Enforce, Drain, StartRemoval, Remove
<1>3. holds \in Nat /\ placed \in Nat /\ MaxHolds \in Nat /\ holds <= placed /\ placed <= MaxHolds
  BY WorkspaceGovernanceAssumption DEF DataType
<1>4. ASSUME PlaceHold PROVE DataType'
  BY <1>0, <1>3, <1>4 DEF PlaceHold, DataType, fileVars
<1>5. ASSUME ReleaseHold PROVE DataType'
  BY <1>0, <1>3, <1>5 DEF ReleaseHold, DataType, fileVars
<1>6. ASSUME Enforce PROVE DataType'
  BY <1>0, <1>3, <1>6 DEF Enforce, DataType, holdVars
<1>7. ASSUME Drain PROVE DataType'
  BY <1>0, <1>3, <1>7 DEF Drain, PendingDeletions, DataType, holdVars
<1>8. ASSUME StartRemoval \/ Remove PROVE DataType'
  BY <1>0, <1>3, <1>8 DEF StartRemoval, Remove, DataType, holdVars
<1>9. DataType'
  BY <1>4, <1>5, <1>6, <1>7, <1>8 DEF Holding
<1>10. QED
  BY <1>1, <1>2, <1>9

LEMMA DeletionTypes ==
  ASSUME Types, Flags', NEW u \in Leavers, RequestDeletion(u) \/ Cancel(u) \/ Tick(u) \/ Expire(u)
  PROVE  Types'
<1> USE WorkspaceGovernanceAssumption DEF Types
<1>0. UNCHANGED <<memberVars, closed, erased, holdVars, fileVars>>
  BY DEF RequestDeletion, Cancel, Tick, Expire
<1>1. MembersType' /\ DataType'
  BY <1>0 DEF MembersType, DataType, memberVars, holdVars, fileVars
<1>2. CountersOK'
  BY CountersType, TypesParts DEF CountersOK, RequestDeletion, Cancel, Tick, Expire
<1>3. CASE RequestDeletion(u)
  <2>1. RequestsType'
    BY <1>3, StatusType DEF RequestDeletion, RequestsType, Final
  <2>2. QED
    BY <1>1, <1>2, <1>3, <2>1 DEF RequestDeletion, AttemptsType, User
<1>4. CASE Cancel(u)
  <2>1. RequestsType'
    BY <1>4, StatusType DEF Cancel, RequestsType, Final
  <2>2. QED
    BY <1>1, <1>2, <1>4, <2>1 DEF Cancel, AttemptsType, User
<1>5. CASE Tick(u)
  <2>1. RequestsType'
    BY <1>5 DEF Tick, RequestsType, JobSet
  <2>2. QED
    BY <1>1, <1>2, <1>5, <2>1 DEF Tick, AttemptsType, User
<1>6. CASE Expire(u)
  <2>1. RequestsType'
    BY <1>6, FailedJobType DEF Expire, RequestsType
  <2>2. AttemptsType'
    BY <1>6 DEF Expire, AttemptsType, AttemptSet, User
  <2>3. QED
    BY <1>1, <1>2, <2>1, <2>2
<1>7. QED
  BY <1>3, <1>4, <1>5, <1>6

LEMMA EraseType ==
  ASSUME MembersType, AttemptsType, DataType, NEW x \in Slots, User(x) \in Leavers, Erase(x)
  PROVE  MembersType' /\ DataType'
<1>1. MembersType'
  BY DEF Erase, MembersType, AttemptsType
<1>2. DataType'
  BY DEF Erase, DataType, holdVars
<1>3. QED
  BY <1>1, <1>2

\* What an attempt does to the requests, the jobs and itself.
LEMMA ExecuteTypes ==
  ASSUME Types, Flags', NEW x \in Slots, Execute(x)
  PROVE  Types'
<1> USE WorkspaceGovernanceAssumption DEF Types
<1>0. User(x) \in Leavers /\ attempt[x].place # "idle"
  BY DEF Execute, Find, Begin, ReadBlockers, ReadOwned, ReadMemberships, Check, DeleteFiles,
     Commit, Complete, Fail, IsAt, AttemptsType
<1> DEFINE Kept == MembersType' /\ DataType' /\ CountersOK'
<1>1. ASSUME UNCHANGED onlyAttempt PROVE Kept /\ late' = late
  BY <1>1 DEF onlyAttempt, MembersType, DataType, CountersOK, memberVars, holdVars, fileVars
<1>2. CASE Find(x)
  <2>1. UNCHANGED <<request, onlyAttempt>>
    BY <1>2 DEF Find
  <2>2. CASE End(x, TRUE)
    <3>1. RequestsType' /\ AttemptsType'
      BY <1>0, <1>1, <2>1, <2>2, EndType DEF RequestsType
    <3>2. QED
      BY <1>1, <2>1, <3>1
  <2>3. CASE Goto(x, "begin") /\ UNCHANGED job
    <3>1. RequestsType' /\ AttemptsType'
      BY <1>0, <1>1, <2>1, <2>3, GotoType DEF RequestsType, Places
    <3>2. QED
      BY <1>1, <2>1, <3>1
  <2>4. QED
    BY <1>2, <2>2, <2>3 DEF Find
<1>3. CASE Begin(x)
  <2>1. AttemptsType'
    BY <1>0, <1>3, GotoType DEF Begin, Places
  <2>2. RequestsType'
    <3> DEFINE s == IF request[User(x)].status = "scheduled" THEN "processing"
                    ELSE request[User(x)].status
    <3>1. request' = [request EXCEPT ![User(x)].status = s]
      BY <1>3 DEF Begin
    <3>2. s \in {"none", "scheduled", "processing"} \cup Final
      BY <1>0 DEF RequestsType, RequestSet
    <3>3. s \notin Final => request[User(x)].status \notin Final
      BY DEF Final
    <3> HIDE DEF s
    <3>4. QED
      BY <1>0, <1>1, <1>3, <3>1, <3>2, <3>3, StatusType DEF Begin, RequestsType
  <2>3. QED
    BY <1>1, <1>3, <2>1, <2>2 DEF Begin
<1>4. CASE ReadBlockers(x) \/ Check(x)
  <2>1. \E p \in Places : Goto(x, p)
    BY <1>4 DEF ReadBlockers, Check, AfterCheck, Places
  <2>2. AttemptsType'
    BY <1>0, <2>1, GotoType
  <2>3. QED
    BY <1>1, <1>4, <2>2 DEF ReadBlockers, Check, RequestsType
<1>5. CASE ReadOwned(x)
  <2> DEFINE a == attempt[x]
  <2>1. PICK b \in BOOLEAN :
          attempt' = [attempt EXCEPT ![x] = [a EXCEPT !.place = "members", !.owns = b]]
    BY <1>5, Zenon DEF ReadOwned
  <2>2. a \in AttemptSet
    BY DEF AttemptsType, AttemptSet
  <2>3. /\ [a EXCEPT !.place = "members", !.owns = b] \in AttemptSet
        /\ [a EXCEPT !.place = "members", !.owns = b].user = a.user
    BY <2>2 DEF AttemptSet, Places
  <2>4. AttemptsType'
    BY <1>0, <2>1, <2>3, ReadType
  <2>5. QED
    BY <1>1, <1>5, <2>4 DEF ReadOwned, RequestsType
<1>6. CASE ReadMemberships(x)
  <2> DEFINE a == attempt[x]
             c == User(x) \in active
             d == a.owns /\ doc
  <2>1. a \in AttemptSet
    BY DEF AttemptsType, AttemptSet
  <2>0. c \in BOOLEAN
    BY SMT
  <2>2. d \in BOOLEAN
    BY Zenon
  <2>3. attempt' = [attempt EXCEPT ![x] =
          [a EXCEPT !.place = "check", !.listed = c, !.refs = d]]
    BY <1>6 DEF ReadMemberships
  <2> HIDE DEF c, d
  <2>4. /\ [a EXCEPT !.place = "check", !.listed = c, !.refs = d] \in AttemptSet
        /\ [a EXCEPT !.place = "check", !.listed = c, !.refs = d].user = a.user
    BY <2>0, <2>1, <2>2 DEF AttemptSet, Places
  <2>5. AttemptsType'
    BY <1>0, <2>3, <2>4, ReadType
  <2>6. QED
    BY <1>1, <1>6, <2>5 DEF ReadMemberships, RequestsType
<1>7. CASE DeleteFiles(x)
  <2>1. AttemptsType'
    BY <1>0, <1>7, GotoType DEF DeleteFiles, Places
  <2>2. RequestsType' /\ MembersType' /\ DataType' /\ CountersOK'
    BY <1>7 DEF DeleteFiles, RequestsType, MembersType, DataType, CountersOK, memberVars, holdVars
  <2>3. QED
    BY <2>1, <2>2
<1>8. CASE Commit(x)
  <2>1. AttemptsType'
    BY <1>0, <1>8, GotoType DEF Commit, Places
  <2>2. RequestsType' /\ CountersOK'
    BY <1>8 DEF Commit, RequestsType, CountersOK, requestVars
  <2>3. QED
    BY <1>0, <1>8, <2>1, <2>2, EraseType DEF Commit
<1>9. CASE Complete(x)
  <2>1. UNCHANGED onlyAttempt
    BY <1>9 DEF Complete
  <2>2. CASE request[User(x)].status = "processing"
    <3>1. End(x, TRUE) /\ request' = [request EXCEPT ![User(x)].status = "completed"]
      BY <1>9, <2>2 DEF Complete
    <3>2. /\ request' \in RequestSet
          /\ \A v \in Leavers : request'[v].status \notin Final
                                   => request'[v].attempts < MaxAttempts
      BY <1>0, <3>1, StatusType DEF Final
    <3>3. RequestsType' /\ AttemptsType'
      BY <1>0, <1>1, <2>1, <3>1, <3>2, EndType DEF RequestsType
    <3>4. QED
      BY <1>1, <2>1, <3>3
  <2>3. CASE request[User(x)].status # "processing"
    <3>1. AttemptsType' /\ UNCHANGED <<request, job>>
      BY <1>0, <1>9, <2>3, GotoType DEF Complete, Places
    <3>2. QED
      BY <1>1, <2>1, <3>1 DEF RequestsType
  <2>4. QED
    BY <2>2, <2>3
<1>10. CASE Fail(x)
  <2>1. UNCHANGED onlyAttempt /\ RecordFailure(User(x)) /\ End(x, FALSE)
    BY <1>10 DEF Fail
  <2>2. RequestsType' /\ AttemptsType'
    BY <1>0, <1>1, <2>1, EndType, RecordType DEF RequestsType
  <2>3. QED
    BY <1>1, <2>1, <2>2
<1>11. QED
  BY <1>2, <1>3, <1>4, <1>5, <1>6, <1>7, <1>8, <1>9, <1>10 DEF Execute

LEMMA ClaimTypes ==
  ASSUME Types, Flags', NEW x \in Slots, NEW u \in Leavers, Claim(x, u)
  PROVE  Types'
<1> USE WorkspaceGovernanceAssumption DEF Types
<1>1. MembersType' /\ DataType' /\ CountersOK'
  BY DEF Claim, MembersType, DataType, CountersOK, memberVars, holdVars, fileVars
<1>2. AttemptsType'
  BY DEF Claim, AttemptsType, AttemptSet, Idle, User, Places
<1>3. job[u].attempts \in Nat /\ job[u].attempts < MaxAttempts
  BY DEF Claim, RequestsType, JobSet
<1>4. job' = [job EXCEPT ![u] = [status |-> "running", attempts |-> job[u].attempts + 1]]
  BY DEF Claim
<1>5. RequestsType'
  BY <1>3, <1>4 DEF Claim, RequestsType, JobSet
<1>6. QED
  BY <1>1, <1>2, <1>5

LEMMA CallFailsTypes ==
  ASSUME Types, Flags', NEW x \in Slots, CallFails(x)
  PROVE  Types'
<1> USE WorkspaceGovernanceAssumption DEF Types
<1>0. User(x) \in Leavers /\ attempt[x].place # "idle" /\ Fault /\ late' = late
  BY DEF CallFails, IsAt, AttemptsType
<1>1. CountersOK'
  BY <1>0, CountersType, TypesParts DEF CountersOK
<1>2. ASSUME UNCHANGED <<memberVars, closed, erased, holdVars, fileVars>>
      PROVE  MembersType' /\ DataType'
  BY <1>2 DEF MembersType, DataType, memberVars, holdVars, fileVars
<1>3. CASE /\ attempt[x].place \in {"find", "begin", "failure"}
           /\ \/ UNCHANGED request
              \/ /\ IsAt(x, "begin")
                 /\ request' = [request EXCEPT ![User(x)].status =
                                  IF @ = "scheduled" THEN "processing" ELSE @]
              \/ IsAt(x, "failure") /\ RecordFailure(User(x))
           /\ End(x, FALSE)
           /\ UNCHANGED <<memberVars, closed, erased, holdVars, fileVars>>
  <2>1. /\ request' \in RequestSet
        /\ \A v \in Leavers : request'[v].status \notin Final
                                 => request'[v].attempts < MaxAttempts
    <3>1. CASE UNCHANGED request
      BY <3>1 DEF RequestsType
    <3>2. CASE RecordFailure(User(x))
      BY <1>0, <3>2, RecordType
    <3>3. CASE request' = [request EXCEPT ![User(x)].status =
                 IF @ = "scheduled" THEN "processing" ELSE @]
      <4> DEFINE s == IF request[User(x)].status = "scheduled" THEN "processing"
                      ELSE request[User(x)].status
      <4>1. request' = [request EXCEPT ![User(x)].status = s]
        BY <3>3
      <4>2. s \in {"none", "scheduled", "processing"} \cup Final
        BY <1>0 DEF RequestsType, RequestSet
      <4>3. s \notin Final => request[User(x)].status \notin Final
        BY DEF Final
      <4> HIDE DEF s
      <4>4. QED
        BY <1>0, <4>1, <4>2, <4>3, StatusType
    <3>4. QED
      BY <1>3, <3>1, <3>2, <3>3
  <2>2. RequestsType' /\ AttemptsType'
    BY <1>0, <1>3, <2>1, EndType DEF RequestsType
  <2>3. QED
    BY <1>1, <1>2, <1>3, <2>2
<1>4. CASE /\ attempt[x].place \in {"blockers", "owned", "members", "check", "files"}
           /\ Goto(x, "failure")
           /\ \/ UNCHANGED stored
              \/ IsAt(x, "files") /\ stored' = FALSE
           /\ UNCHANGED <<request, job, memberVars, closed, erased, holdVars, doc, deletion, drain,
                          removal>>
  <2>1. AttemptsType'
    BY <1>0, <1>4, GotoType DEF Places
  <2>2. RequestsType' /\ MembersType' /\ DataType'
    BY <1>0, <1>4 DEF RequestsType, MembersType, DataType, memberVars, holdVars
  <2>3. QED
    BY <1>1, <2>1, <2>2
<1>5. CASE /\ IsAt(x, "commit")
           /\ Erase(x) \/ UNCHANGED <<memberVars, closed, erased, holdVars, fileVars>>
           /\ Goto(x, "failure")
           /\ UNCHANGED <<request, job>>
  <2>1. AttemptsType'
    BY <1>0, <1>5, GotoType DEF Places
  <2>2. RequestsType'
    BY <1>0, <1>5 DEF RequestsType
  <2>3. MembersType' /\ DataType'
    BY <1>0, <1>2, <1>5, EraseType
  <2>4. QED
    BY <1>1, <2>1, <2>2, <2>3
<1>6. CASE /\ IsAt(x, "complete")
           /\ \/ UNCHANGED request
              \/ /\ request[User(x)].status = "processing"
                 /\ request' = [request EXCEPT ![User(x)].status = "completed"]
           /\ Goto(x, "failure")
           /\ UNCHANGED <<job, memberVars, closed, erased, holdVars, fileVars>>
  <2>1. AttemptsType'
    BY <1>0, <1>6, GotoType DEF Places
  <2>2. RequestsType'
    <3>1. CASE UNCHANGED request
      BY <1>0, <1>6, <3>1 DEF RequestsType
    <3>2. CASE request' = [request EXCEPT ![User(x)].status = "completed"]
      BY <1>0, <1>6, <3>2, StatusType DEF RequestsType, Final
    <3>3. QED
      BY <1>6, <3>1, <3>2
  <2>3. QED
    BY <1>1, <1>2, <1>6, <2>1, <2>2
<1>7. QED
  BY <1>3, <1>4, <1>5, <1>6 DEF CallFails

LEMMA CrashTypes ==
  ASSUME Types, Flags', NEW x \in Slots, Crash(x)
  PROVE  Types'
<1> USE DEF Types
<1>1. CountersOK'
  BY CountersType, TypesParts DEF CountersOK, Crash
<1>2. MembersType' /\ DataType' /\ RequestsType'
  BY DEF Crash, MembersType, DataType, RequestsType, memberVars, requestVars, holdVars, fileVars
<1>3. AttemptsType'
  BY DEF Crash, AttemptsType, AttemptSet, Idle, User
<1>4. QED
  BY <1>1, <1>2, <1>3

LEMMA NextTypes ==
  ASSUME Types, [Next]_vars
  PROVE  Types'
<1>1. QED
  BY FlagsType, StutterTypes, MembershipTypes, HoldingTypes, DeletionTypes, ExecuteTypes, ClaimTypes,
     CallFailsTypes, CrashTypes DEF Next, Membership, Holding, Types
-----------------------------------------------------------------------------
(* Members and what attempts rely on                                       *)

\* An attempt is where it was, or at a place where it relies on nothing.
Steady(y) ==
  \/ /\ attempt'[y].place = attempt[y].place /\ attempt'[y].user = attempt[y].user
     /\ attempt'[y].owns = attempt[y].owns /\ attempt'[y].listed = attempt[y].listed
     /\ attempt'[y].refs = attempt[y].refs
  \/ attempt'[y].place \notin {"members", "check", "files", "commit"}

LEMMA SteadyPeople ==
  ASSUME People, UNCHANGED <<role, active, invited, stray, change, closed, raced, holds>>,
         \A y \in Slots : Steady(y)
  PROVE  People'
<1>1. \A y \in Slots : Relies(y) => Relies(y)'
  BY DEF Steady, Relies, Relying, Erasing, User
<1>2. OneOwner => OneOwner'
  BY DEF OneOwner
<1>3. QED
  BY <1>1, <1>2 DEF People, Steady

LEMMA MembershipPeople ==
  ASSUME Types, People, Membership
  PROVE  People'
<1> USE DEF Types
<1>0. UNCHANGED <<attempt, holds, closed>> /\ (closed => invited \subseteq stray)
  BY DEF Membership, Invite, Accept, StartChange, Transfer, FinishChange, Subscribe, holdVars,
     People
<1>1. Relying' = Relying /\ Erasing' = Erasing
  BY <1>0 DEF Relying, Erasing
<1>2. ASSUME Relying = {} PROVE \A x \in Slots : Relies(x)'
  BY <1>1, <1>2, <1>0 DEF Relies, Relying, Erasing
<1>3. ASSUME UNCHANGED <<role, active>> PROVE \A x \in Slots : Relies(x) => Relies(x)'
  BY <1>0, <1>1, <1>3 DEF Relies, User
<1>4. \A x \in Slots : /\ attempt'[x].place \in {"check", "files", "commit"} =>
                            (attempt'[x].refs => attempt'[x].owns)
                       /\ attempt'[x].place = "files" => attempt'[x].refs
  BY <1>0 DEF People
<1>5. ASSUME NEW u \in Users, Invite(u) PROVE People'
  <2>1. /\ UNCHANGED <<role, active, change, raced>>
        /\ invited' = invited \cup {u} /\ stray' = IF closed THEN stray \cup {u} ELSE stray
    BY <1>5 DEF Invite
  <2>2. OneOwner => OneOwner'
    BY <2>1 DEF OneOwner
  <2>3. QED
    BY <1>0, <1>3, <1>4, <2>1, <2>2 DEF People
<1>6. ASSUME NEW u \in Users, Accept(u) PROVE People'
  <2>1. /\ u \in invited /\ role[u] = "none" /\ UNCHANGED <<stray, change>>
        /\ role' = [role EXCEPT ![u] = "member"] /\ active' = active \cup {u}
        /\ invited' = invited \ {u}
        /\ ~raced' => ~raced /\ Relying = {}
    BY <1>0, <1>6 DEF Accept
  <2>2. \A v \in Users : role'[v] = "owner" <=> role[v] = "owner"
    BY <2>1 DEF MembersType
  <2>3. ~raced' /\ ~closed => OneOwner'
    BY <1>0, <2>1, <2>2 DEF People, OneOwner, MembersType
  <2>4. ~raced' /\ change' # NoChange => role'[change'.user] # "owner"
    BY <2>1, <2>2 DEF People, MembersType
  <2>5. QED
    BY <1>0, <1>2, <1>4, <2>1, <2>3, <2>4 DEF People
<1>7. ASSUME NEW u \in Users, NEW kind \in {"role", "remove"}, StartChange(kind, u)
      PROVE  People'
  <2>1. /\ UNCHANGED <<role, active, invited, stray, raced>>
        /\ change' = [kind |-> kind, user |-> u] /\ role[u] = "member"
    BY <1>7 DEF StartChange
  <2>2. OneOwner => OneOwner'
    BY <2>1 DEF OneOwner
  <2>3. QED
    BY <1>0, <1>3, <1>4, <2>1, <2>2 DEF People
<1>8. ASSUME NEW a \in Users, NEW b \in Users, Transfer(a, b) PROVE People'
  <2>1. /\ a # b /\ a \in active /\ b \in active /\ role[a] = "owner"
        /\ role' = [role EXCEPT ![a] = "member", ![b] = "owner"]
        /\ UNCHANGED <<active, invited, stray, change>>
        /\ ~raced' => ~raced /\ change.user # b /\ Relying = {}
    BY <1>8 DEF Transfer
  <2>2. \A v \in Users : role'[v] = IF v = b THEN "owner" ELSE IF v = a THEN "member" ELSE role[v]
    BY <2>1 DEF MembersType
  <2>3. ~raced' => ~closed
    BY <2>1 DEF People
  <2>4. ~raced' => OneOwner'
    BY <2>1, <2>2, <2>3 DEF People, OneOwner, MembersType
  <2>5. ~raced' /\ change' # NoChange => role'[change'.user] # "owner"
    BY <2>1, <2>2 DEF People, MembersType
  <2>6. \A v, w \in Users : role'[v] = "owner" /\ role'[w] = "owner" => v = w
    BY <2>1, <2>2 DEF People, MembersType
  <2>7. QED
    BY <1>0, <1>2, <1>4, <2>1, <2>3, <2>4, <2>5, <2>6 DEF People
<1>9. ASSUME FinishChange PROVE People'
  <2> DEFINE u == change.user
  <2>1. /\ u \in Users /\ change # NoChange
        /\ change' = NoChange /\ UNCHANGED <<invited, stray>>
        /\ ~raced' => ~raced /\ Relying = {}
    BY <1>9 DEF FinishChange, MembersType
  <2>2. ~raced' => role[u] # "owner"
    BY <2>1 DEF People
  <2>3. /\ active' = active \/ active' = active \ {u}
        /\ \A v \in Users : v # u => role'[v] = role[v]
        /\ role'[u] # "owner" \/ role'[u] = role[u]
    BY <1>9, <2>1 DEF FinishChange, MembersType
  <2>4. ~raced' /\ OneOwner => OneOwner'
    <3> SUFFICES ASSUME ~raced', OneOwner PROVE OneOwner'
      OBVIOUS
    <3>1. PICK o \in active : \A v \in active : role[v] = "owner" <=> v = o
      BY DEF OneOwner
    <3>2. o # u /\ o \in active' /\ active' \subseteq active /\ active \subseteq Users
      BY <2>2, <2>3, <3>1 DEF MembersType
    <3>3. \A v \in active' : role'[v] = "owner" <=> v = o
      BY <2>1, <2>2, <2>3, <3>1, <3>2
    <3>4. QED
      BY <3>2, <3>3 DEF OneOwner
  <2>5. \A v \in Users : role'[v] = "owner" => role[v] = "owner"
    BY <2>3
  <2>6. ~raced' /\ closed => \A v \in active' : role'[v] # "owner" /\ v \in stray
    BY <2>1, <2>3, <2>5 DEF People, MembersType
  <2>7. QED
    BY <1>0, <1>2, <1>4, <2>1, <2>4, <2>5, <2>6 DEF People
<1>10. ASSUME Subscribe PROVE People'
  <2>1. UNCHANGED <<role, active, invited, stray, change, raced>>
    BY <1>10 DEF Subscribe
  <2>2. QED
    BY <1>0, <2>1, SteadyPeople DEF Steady
<1>11. QED
  BY <1>5, <1>6, <1>7, <1>8, <1>9, <1>10 DEF Membership

LEMMA HoldingPeople ==
  ASSUME Types, People, Holding
  PROVE  People'
<1>0. UNCHANGED <<role, active, invited, stray, change, closed, raced, attempt>>
  BY DEF Holding, PlaceHold, ReleaseHold, Enforce, Drain, StartRemoval, Remove, memberVars
<1>1. CASE holds' = holds
  BY <1>0, <1>1, SteadyPeople DEF Steady
<1>2. ASSUME NEW x \in Slots, Relies(x), holds' # holds PROVE Relies(x)'
  <2>1. CASE PlaceHold
    <3>1. x \in Erasing /\ User(x) \in active => attempt[x].listed
      BY <1>2 DEF Relies, Erasing
    <3>2. ~(x \in Erasing /\ User(x) \in active)
      BY <2>1, <3>1 DEF PlaceHold, WorkspaceLocked
    <3>3. QED
      BY <1>0, <1>2, <3>2 DEF Relies, Relying, Erasing, User
  <2>2. CASE ReleaseHold
    <3>1. holds \in Nat /\ holds > 0
      BY <2>2, WorkspaceGovernanceAssumption DEF ReleaseHold, Types, DataType
    <3>2. QED
      BY <1>0, <1>2, <3>1 DEF Relies, Relying, Erasing, User
  <2>3. QED
    BY <1>2, <2>1, <2>2 DEF Holding, Enforce, Drain, StartRemoval, Remove, holdVars
<1>3. CASE holds' # holds
  BY <1>0, <1>2, <1>3 DEF People, OneOwner
<1>4. QED
  BY <1>1, <1>3

LEMMA ErasePeople ==
  ASSUME Types, People, NEW x \in Slots, attempt[x].place = "commit", Erase(x),
         \E p \in Places \ {"members", "check", "files", "commit"} : Goto(x, p)
  PROVE  People'
<1> DEFINE u == User(x)
<1>0. /\ closed' = (closed \/ attempt[x].owns)
      /\ invited' = IF attempt[x].owns THEN {} ELSE invited
      /\ active' = active \ {u}
      /\ UNCHANGED <<role, stray, change, holds>>
      /\ ~raced' => ~raced /\ (u \in active => \A y \in Relying : User(y) = u)
  BY DEF Erase, holdVars
<1>1. /\ \A y \in Slots \ {x} : attempt'[y] = attempt[y]
      /\ attempt'[x].place \notin {"members", "check", "files", "commit"}
  BY DEF Goto, Types, AttemptsType
<1>2. x \in Relying /\ x \in Erasing
  BY DEF Relying, Erasing
<1>3. closed' => invited' \subseteq stray'
  BY <1>0 DEF People
<1>4. \A y \in Slots : /\ attempt'[y].place \in {"check", "files", "commit"} =>
                            (attempt'[y].refs => attempt'[y].owns)
                       /\ attempt'[y].place = "files" => attempt'[y].refs
  BY <1>1 DEF People
<1>5. ASSUME ~raced', change # NoChange PROVE role'[change'.user] # "owner"
  BY <1>0, <1>5 DEF People
<1>6. ASSUME ~raced', closed', NEW v \in active' PROVE role'[v] # "owner" /\ v \in stray'
  <2>1. CASE closed
    BY <1>0, <1>6, <2>1 DEF People
  <2>2. CASE ~closed
    BY <1>0, <1>2, <1>6, <2>2 DEF People, Relies
  <2>3. QED
    BY <2>1, <2>2
<1>7. ASSUME ~raced', ~closed' PROVE OneOwner'
  <2>1. ~closed /\ ~attempt[x].owns /\ OneOwner /\ Relies(x)
    BY <1>0, <1>7 DEF People
  <2>2. u \in active => role[u] # "owner"
    BY <1>2, <2>1 DEF Relies
  <2>3. QED
    BY <1>0, <2>1, <2>2 DEF OneOwner
<1>8. ASSUME ~raced', ~closed', NEW y \in Slots PROVE Relies(y)'
  <2>1. ~closed /\ ~attempt[x].owns /\ Relies(x) /\ Relies(y)
    BY <1>0, <1>8 DEF People
  <2>2. CASE attempt'[y].place \notin {"members", "check", "files", "commit"}
    BY <2>2 DEF Relies, Relying, Erasing
  <2>3. CASE attempt'[y].place \in {"members", "check", "files", "commit"}
    <3>1. y # x /\ attempt'[y] = attempt[y] /\ y \in Relying
      BY <1>1, <2>3 DEF Relying
    <3>2. CASE u \notin active
      <4>1. active' = active
        BY <1>0, <3>2
      <4>2. QED
        BY <1>0, <2>1, <3>1, <4>1 DEF Relies, Relying, Erasing, User
    <3>3. CASE u \in active
      <4>1. User(y) = u /\ u \notin active'
        BY <1>0, <1>8, <3>1, <3>3
      <4>2. ~attempt[y].owns
        BY <1>2, <2>1, <3>1, <4>1 DEF Relies
      <4>3. QED
        BY <1>0, <3>1, <4>1, <4>2 DEF Relies, Relying, Erasing, User
    <3>4. QED
      BY <3>2, <3>3
  <2>4. QED
    BY <2>2, <2>3
<1>9. QED
  BY <1>0, <1>3, <1>4, <1>5, <1>6, <1>7, <1>8 DEF People

LEMMA ExecutePeople ==
  ASSUME Types, People, NEW x \in Slots, Execute(x)
  PROVE  People'
<1> DEFINE u == User(x)
           Still == UNCHANGED <<role, active, invited, stray, change, closed, raced, holds>>
<1>0. attempt \in [Slots -> AttemptSet] /\ attempt[x].place # "idle"
  BY DEF Execute, Find, Begin, ReadBlockers, ReadOwned, ReadMemberships, Check, DeleteFiles,
     Commit, Complete, Fail, IsAt, Types, AttemptsType, AttemptSet
<1>1. CASE Find(x) \/ Begin(x) \/ ReadBlockers(x) \/ Complete(x) \/ Fail(x)
  <2>1. Still
    BY <1>1 DEF Find, Begin, ReadBlockers, Complete, Fail, onlyAttempt, memberVars, holdVars
  <2>2. \/ attempt' = [attempt EXCEPT ![x] = Idle]
        \/ \E p \in {"begin", "blockers", "failure", "complete", "owned"} : Goto(x, p)
    BY <1>1 DEF Find, Begin, ReadBlockers, Complete, Fail, End
  <2>3. \A y \in Slots : Steady(y)
    BY <1>0, <2>2 DEF Steady, Goto, Idle, AttemptSet
  <2>4. QED
    BY <2>1, <2>3, SteadyPeople
<1>2. ASSUME Still, \A y \in Slots \ {x} : attempt'[y] = attempt[y],
             ~raced /\ ~closed /\ Relies(x) => Relies(x)',
             attempt'[x].place \in {"check", "files", "commit"} =>
                            (attempt'[x].refs => attempt'[x].owns),
             attempt'[x].place = "files" => attempt'[x].refs
      PROVE  People'
  <2>1. \A y \in Slots \ {x} : Relies(y) => Relies(y)'
    BY <1>2 DEF Relies, Relying, Erasing, User
  <2>2. OneOwner => OneOwner'
    BY <1>2 DEF OneOwner
  <2>3. QED
    BY <1>2, <2>1, <2>2 DEF People
<1>3. CASE ReadOwned(x)
  <2>1. Still
    BY <1>3 DEF ReadOwned, onlyAttempt, memberVars, holdVars
  <2>2. /\ \A y \in Slots \ {x} : attempt'[y] = attempt[y]
        /\ attempt'[x].place = "members" /\ attempt'[x].user = u
        /\ attempt'[x].owns <=> role[u] = "owner" /\ active = {u}
    BY <1>0, <1>3 DEF ReadOwned, User, AttemptSet
  <2>3. Relies(x)'
    BY <2>1, <2>2 DEF Relies, Erasing, User
  <2>4. QED
    BY <1>2, <2>1, <2>2, <2>3
<1>4. CASE ReadMemberships(x)
  <2>1. Still
    BY <1>4 DEF ReadMemberships, onlyAttempt, memberVars, holdVars
  <2>2. /\ \A y \in Slots \ {x} : attempt'[y] = attempt[y]
        /\ attempt'[x].place = "check" /\ attempt'[x].user = u
        /\ attempt'[x].owns = attempt[x].owns
        /\ attempt'[x].listed <=> u \in active
        /\ attempt'[x].refs <=> attempt[x].owns /\ doc
    BY <1>0, <1>4 DEF ReadMemberships, User, AttemptSet
  <2>3. x \in Relying
    BY <1>4 DEF ReadMemberships, IsAt, Relying
  <2>4. Relies(x) => Relies(x)'
    BY <2>1, <2>2, <2>3 DEF Relies, Erasing, User
  <2>5. QED
    BY <1>2, <2>1, <2>2, <2>4
<1>5. CASE Check(x)
  <2>1. Still
    BY <1>5 DEF Check, onlyAttempt, memberVars, holdVars
  <2>2. CASE Blocked(u)
    <3>1. Goto(x, "failure")
      BY <1>5, <2>2 DEF Check
    <3>2. \A y \in Slots : Steady(y)
      BY <1>0, <3>1 DEF Steady, Goto
    <3>3. QED
      BY <2>1, <3>2, SteadyPeople
  <2>3. CASE ~Blocked(u)
    <3>1. Goto(x, AfterCheck(x)) /\ attempt[x].place = "check"
      BY <1>5, <2>3 DEF Check, IsAt
    <3>2. /\ \A y \in Slots \ {x} : attempt'[y] = attempt[y]
          /\ attempt'[x].place = AfterCheck(x) /\ attempt'[x].user = u
          /\ attempt'[x].owns = attempt[x].owns /\ attempt'[x].listed = attempt[x].listed
          /\ attempt'[x].refs = attempt[x].refs
      BY <1>0, <3>1 DEF Goto, User, AttemptSet
    <3>3. attempt'[x].place \in {"files", "commit"} /\ x \in Relying
      BY <3>1, <3>2 DEF AfterCheck, Relying
    <3>4. ASSUME ~closed, u \in active, Relies(x)
          PROVE  holds = 0 /\ (role[u] = "owner" => attempt[x].owns)
      <4>1. holds \in Nat
        BY WorkspaceGovernanceAssumption DEF Types, DataType
      <4>2. holds = 0 /\ (role[u] = "owner" => ~(Cardinality(active) > 1))
        BY <2>3, <3>4, <4>1 DEF Blocked
      <4>3. IsFiniteSet(active)
        BY FS_Subset, WorkspaceGovernanceAssumption DEF Types, MembersType
      <4>4. ASSUME role[u] = "owner" PROVE active = {u}
        <5>1. Cardinality(active) \in Nat /\ Cardinality(active) <= 1
          BY <4>2, <4>3, <4>4, FS_CardinalityType
        <5>2. Cardinality({u}) = 1 /\ IsFiniteSet({u})
          BY FS_Singleton
        <5>3. {u} \subseteq active
          BY <3>4
        <5>4. Cardinality({u}) <= Cardinality(active)
          BY <4>3, <5>3, FS_Subset
        <5>5. Cardinality({u}) = Cardinality(active)
          BY <5>1, <5>2, <5>4
        <5>6. QED
          BY <4>3, <5>3, <5>5, FS_Subset
      <4>5. QED
        BY <3>3, <3>4, <4>2, <4>4 DEF Relies
    <3>5. ~raced /\ ~closed /\ Relies(x) => Relies(x)'
      BY <2>1, <3>1, <3>2, <3>3, <3>4 DEF Relies, Relying, Erasing, User
    <3>6. QED
      BY <1>2, <2>1, <3>1, <3>2, <3>5 DEF AfterCheck, People
  <2>4. QED
    BY <2>2, <2>3
<1>6. CASE DeleteFiles(x)
  <2>1. Still
    BY <1>6 DEF DeleteFiles, memberVars, holdVars
  <2>2. /\ \A y \in Slots \ {x} : attempt'[y] = attempt[y]
        /\ attempt[x].place = "files" /\ attempt'[x].place = "commit" /\ attempt'[x].user = u
        /\ attempt'[x].owns = attempt[x].owns /\ attempt'[x].listed = attempt[x].listed
        /\ attempt'[x].refs = attempt[x].refs
    BY <1>0, <1>6 DEF DeleteFiles, IsAt, Goto, User, AttemptSet
  <2>3. Relies(x) => Relies(x)'
    BY <2>1, <2>2 DEF Relies, Relying, Erasing, User
  <2>4. QED
    BY <1>2, <2>1, <2>2, <2>3 DEF People
<1>7. CASE Commit(x)
  BY <1>7, ErasePeople DEF Commit, IsAt, Places
<1>8. QED
  BY <1>1, <1>3, <1>4, <1>5, <1>6, <1>7 DEF Execute

LEMMA CallFailsPeople ==
  ASSUME Types, People, NEW x \in Slots, CallFails(x)
  PROVE  People'
<1>0. attempt \in [Slots -> AttemptSet]
  BY DEF Types, AttemptsType, AttemptSet
<1>1. CASE IsAt(x, "commit") /\ Erase(x)
  BY <1>1, ErasePeople DEF CallFails, IsAt, Places
<1>2. CASE ~(IsAt(x, "commit") /\ Erase(x))
  <2>1. UNCHANGED <<role, active, invited, stray, change, closed, raced, holds>>
    BY <1>2 DEF CallFails, memberVars, holdVars
  <2>2. attempt' = [attempt EXCEPT ![x] = Idle] \/ Goto(x, "failure")
    BY DEF CallFails, End
  <2>3. \A y \in Slots : Steady(y)
    BY <1>0, <2>2 DEF Steady, Goto, Idle, AttemptSet
  <2>4. QED
    BY <2>1, <2>3, SteadyPeople
<1>3. QED
  BY <1>1, <1>2

LEMMA NextPeople ==
  ASSUME Types, People, [Next]_vars
  PROVE  People'
<1>0. attempt \in [Slots -> AttemptSet]
  BY DEF Types, AttemptsType, AttemptSet
<1>1. ASSUME NEW u \in Leavers, RequestDeletion(u) \/ Cancel(u) \/ Tick(u) PROVE People'
  <2>1. UNCHANGED <<role, active, invited, stray, change, closed, raced, holds, attempt>>
    BY <1>1 DEF RequestDeletion, Cancel, Tick, memberVars, holdVars
  <2>2. QED
    BY <2>1, SteadyPeople DEF Steady
<1>2. ASSUME NEW u \in Leavers, Expire(u) PROVE People'
  <2>1. UNCHANGED <<role, active, invited, stray, change, closed, raced, holds>>
    BY <1>2 DEF Expire, memberVars, holdVars
  <2>2. \A y \in Slots : Steady(y)
    BY <1>0, <1>2 DEF Expire, Steady, AttemptSet
  <2>3. QED
    BY <2>1, <2>2, SteadyPeople
<1>3. ASSUME NEW x \in Slots, NEW u \in Leavers, Claim(x, u) PROVE People'
  <2>1. UNCHANGED <<role, active, invited, stray, change, closed, raced, holds>>
    BY <1>3 DEF Claim, memberVars, holdVars
  <2>2. \A y \in Slots : Steady(y)
    BY <1>0, <1>3 DEF Claim, Steady, Idle
  <2>3. QED
    BY <2>1, <2>2, SteadyPeople
<1>4. ASSUME NEW x \in Slots, Crash(x) PROVE People'
  <2>1. UNCHANGED <<role, active, invited, stray, change, closed, raced, holds>>
    BY <1>4 DEF Crash, memberVars, holdVars
  <2>2. \A y \in Slots : Steady(y)
    BY <1>0, <1>4 DEF Crash, Steady, Idle
  <2>3. QED
    BY <2>1, <2>2, SteadyPeople
<1>5. CASE UNCHANGED vars
  BY <1>5, SteadyPeople DEF vars, memberVars, holdVars, Steady
<1>6. QED
  BY <1>1, <1>2, <1>3, <1>4, <1>5, MembershipPeople, HoldingPeople, ExecutePeople,
     CallFailsPeople DEF Next, Membership, Holding

-----------------------------------------------------------------------------
(* What the leavers asked for                                              *)

\* An attempt is where nothing is asked of it, or goes on for a user who has not cancelled
\* as far as it knew, and completes only what is erased.
GoesOn(y) ==
  LET u == attempt[y].user IN
  \/ attempt'[y].place \in {"idle", "find"}
  \/ /\ attempt'[y].user = u
     /\ attempt[y].place \notin {"idle", "find"} \/ request[u].status # "cancelled"
     /\ attempt'[y].place = "complete" => attempt[y].place = "complete" \/ u \in erased'

\* Requests are cancelled by their users only and completed after the erasure.
RequestsFollow ==
  \A u \in Leavers :
    /\ request'[u].status = "cancelled" => request[u].status = "cancelled"
    /\ request'[u].status = "completed" => request[u].status = "completed" \/ u \in erased

LEMMA KeepWishes ==
  ASSUME Types, Types', Wishes, late' = late, RequestsFollow, erased \subseteq erased',
         \A u \in erased' \ erased : request[u].status = "cancelled" => u \in late,
         \A y \in Slots : GoesOn(y)
  PROVE  Wishes'
<1>0. erased' \subseteq Leavers
  BY DEF Types, DataType
<1>1. ErasureIsWanted'
  BY <1>0 DEF Wishes, ErasureIsWanted, RequestsFollow
<1>2. ASSUME NEW y \in Slots PROVE Wanted(y)'
  <2>1. attempt'[y].place # "idle" => attempt'[y].user \in Leavers
    BY DEF Types, AttemptsType, User
  <2>2. Wanted(y)
    BY DEF Wishes
  <2>3. CASE attempt'[y].place \in {"idle", "find"}
    BY <2>3 DEF Wanted
  <2>4. CASE attempt'[y].place \notin {"idle", "find"}
    BY <2>1, <2>2, <2>4 DEF Wanted, GoesOn, User, RequestsFollow
  <2>5. QED
    BY <2>3, <2>4
<1>3. QED
  BY <1>1, <1>2 DEF Wishes

LEMMA RequestsKept ==
  ASSUME Types, NEW u \in Leavers,
         \/ UNCHANGED request
         \/ RecordFailure(u)
         \/ request' = [request EXCEPT ![u].status = IF @ = "scheduled" THEN "processing" ELSE @]
         \/ request' = [request EXCEPT ![u].status = "scheduled"]
         \/ u \in erased /\ request' = [request EXCEPT ![u].status = "completed"]
  PROVE  RequestsFollow
<1>1. request \in RequestSet
  BY DEF Types, RequestsType
<1>2. QED
  BY <1>1 DEF RecordFailure, RequestSet, RequestsFollow

\* An attempt ends or goes from one place to another one.
LEMMA Ends ==
  ASSUME Types, NEW x \in Slots, attempt' = [attempt EXCEPT ![x] = Idle]
  PROVE  \A y \in Slots : GoesOn(y)
BY DEF GoesOn, Idle, Types, AttemptsType

LEMMA GoesTo ==
  ASSUME Types, NEW x \in Slots, NEW p \in Places, Goto(x, p),
         attempt[x].place \notin {"idle", "find"} \/ request[User(x)].status # "cancelled",
         p = "complete" => User(x) \in erased'
  PROVE  \A y \in Slots : GoesOn(y)
<1>1. attempt \in [Slots -> AttemptSet]
  BY DEF Types, AttemptsType, AttemptSet
<1>2. /\ \A y \in Slots \ {x} : attempt'[y] = attempt[y]
      /\ attempt'[x].place = p /\ attempt'[x].user = User(x)
  BY <1>1 DEF Goto, User, AttemptSet
<1>3. QED
  BY <1>2 DEF GoesOn, User

LEMMA ExecuteWishes ==
  ASSUME Types, Types', Wishes, NEW x \in Slots, Execute(x)
  PROVE  Wishes'
<1> DEFINE u == User(x)
<1>0. /\ attempt \in [Slots -> AttemptSet] /\ u \in Leavers /\ Wanted(x)
      /\ UNCHANGED request => RequestsFollow
  BY RequestsKept DEF Execute, Find, Begin, ReadBlockers, ReadOwned, ReadMemberships, Check,
     DeleteFiles, Commit, Complete, Fail, IsAt, Types, AttemptsType, AttemptSet, Wishes
<1>1. CASE Find(x)
  <2>1. UNCHANGED <<request, erased, late>>
    BY <1>1 DEF Find, onlyAttempt
  <2>2. CASE request[u].status \in Final
    BY <1>0, <1>1, <2>1, <2>2, Ends, KeepWishes DEF Find, End
  <2>3. CASE request[u].status \notin Final
    BY <1>0, <1>1, <2>1, <2>3, GoesTo, KeepWishes DEF Find, Final, Places
  <2>4. QED
    BY <2>2, <2>3
<1>2. CASE Begin(x)
  <2>1. UNCHANGED <<erased, late>> /\ Goto(x, "blockers") /\ attempt[x].place = "begin"
    BY <1>2 DEF Begin, IsAt, onlyAttempt
  <2>2. RequestsFollow
    BY <1>0, <1>2, RequestsKept DEF Begin
  <2>3. QED
    BY <2>1, <2>2, GoesTo, KeepWishes DEF Places
<1>3. CASE ReadBlockers(x) \/ Check(x) \/ DeleteFiles(x)
  <2>1. UNCHANGED <<request, erased, late>> /\ attempt[x].place \notin {"idle", "find"}
    BY <1>3 DEF ReadBlockers, Check, DeleteFiles, IsAt, onlyAttempt
  <2>2. \E p \in Places : Goto(x, p) /\ (p = "complete" => u \in erased)
    BY <1>3 DEF ReadBlockers, Check, DeleteFiles, AfterCheck, Places
  <2>3. QED
    BY <1>0, <2>1, <2>2, GoesTo, KeepWishes
<1>4. CASE ReadOwned(x) \/ ReadMemberships(x)
  <2>1. UNCHANGED <<request, erased, late>> /\ attempt[x].place \notin {"idle", "find"}
    BY <1>4 DEF ReadOwned, ReadMemberships, IsAt, onlyAttempt
  <2>2. /\ \A y \in Slots \ {x} : attempt'[y] = attempt[y]
        /\ attempt'[x].user = attempt[x].user /\ attempt'[x].place \in {"members", "check"}
    <3>1. CASE ReadOwned(x)
      BY <1>0, <3>1 DEF ReadOwned, AttemptSet
    <3>2. CASE ReadMemberships(x)
      BY <1>0, <3>2 DEF ReadMemberships, AttemptSet
    <3>3. QED
      BY <1>4, <3>1, <3>2
  <2>3. \A y \in Slots : GoesOn(y)
    BY <2>1, <2>2 DEF GoesOn
  <2>4. QED
    BY <1>0, <2>1, <2>3, KeepWishes
<1>5. CASE Commit(x)
  <2>1. /\ UNCHANGED <<request, late>> /\ erased' = erased \cup {u}
        /\ Goto(x, "complete") /\ attempt[x].place = "commit"
    BY <1>5 DEF Commit, Erase, requestVars, IsAt
  <2>2. request[u].status = "cancelled" => u \in late
    BY <1>0, <2>1 DEF Wanted
  <2>3. QED
    BY <1>0, <2>1, <2>2, GoesTo, KeepWishes DEF Places
<1>6. CASE Complete(x)
  <2>1. UNCHANGED <<erased, late>> /\ attempt[x].place = "complete" /\ u \in erased
    BY <1>0, <1>6 DEF Complete, IsAt, onlyAttempt, Wanted
  <2>2. CASE request[u].status = "processing"
    BY <1>0, <1>6, <2>1, <2>2, RequestsKept, Ends, KeepWishes DEF Complete, End
  <2>3. CASE request[u].status # "processing"
    BY <1>0, <1>6, <2>1, <2>3, GoesTo, KeepWishes DEF Complete, Places
  <2>4. QED
    BY <2>2, <2>3
<1>7. CASE Fail(x)
  BY <1>0, <1>7, RequestsKept, Ends, KeepWishes DEF Fail, End, onlyAttempt
<1>8. QED
  BY <1>1, <1>2, <1>3, <1>4, <1>5, <1>6, <1>7 DEF Execute

LEMMA CallFailsWishes ==
  ASSUME Types, Types', Wishes, NEW x \in Slots, CallFails(x)
  PROVE  Wishes'
<1> DEFINE u == User(x)
<1>0. u \in Leavers /\ Wanted(x) /\ late' = late
  BY DEF CallFails, IsAt, Types, AttemptsType, Wishes
<1>1. RequestsFollow
  BY <1>0, RequestsKept DEF CallFails, IsAt, Wanted
<1>2. \/ attempt' = [attempt EXCEPT ![x] = Idle]
      \/ Goto(x, "failure") /\ attempt[x].place \notin {"idle", "find"}
  BY DEF CallFails, End, IsAt
<1>3. \A y \in Slots : GoesOn(y)
  BY <1>2, Ends, GoesTo DEF Places
<1>4. \/ erased' = erased
      \/ erased' = erased \cup {u} /\ attempt[x].place = "commit"
  BY DEF CallFails, Erase, IsAt
<1>5. /\ erased \subseteq erased'
      /\ \A v \in erased' \ erased : request[v].status = "cancelled" => v \in late
  BY <1>0, <1>4 DEF Wanted
<1>6. QED
  BY <1>0, <1>1, <1>3, <1>5, KeepWishes

\* A cancellation is late if an attempt for its user is under way.
LEMMA CancelWishes ==
  ASSUME Types, Types', Wishes, NEW u \in Leavers, Cancel(u)
  PROVE  Wishes'
<1>1. /\ UNCHANGED <<erased, attempt>> /\ u \notin erased
      /\ late' = IF \E x \in Slots : User(x) = u THEN late \cup {u} ELSE late
      /\ \A v \in Leavers : request'[v].status = IF v = u THEN "cancelled" ELSE request[v].status
  BY DEF Cancel, Types, RequestsType, RequestSet
<1>2. ErasureIsWanted'
  BY <1>1 DEF Wishes, ErasureIsWanted
<1>3. \A x \in Slots : Wanted(x)'
  BY <1>1 DEF Wishes, Wanted, User, Types, AttemptsType
<1>4. QED
  BY <1>2, <1>3 DEF Wishes

LEMMA NextWishes ==
  ASSUME Types, Types', Wishes, [Next]_vars
  PROVE  Wishes'
<1>0. attempt \in [Slots -> AttemptSet]
  BY DEF Types, AttemptsType, AttemptSet
<1>1. ASSUME UNCHANGED <<request, late, erased>>, \A y \in Slots : GoesOn(y) PROVE Wishes'
  BY <1>1, KeepWishes DEF RequestsFollow
<1>3. CASE Membership \/ Holding \/ UNCHANGED vars
  <2>1. UNCHANGED <<request, late, erased, attempt>>
    BY <1>3 DEF Membership, Invite, Accept, StartChange, Transfer, FinishChange, Subscribe,
       Holding, PlaceHold, ReleaseHold, Enforce, Drain, StartRemoval, Remove, requestVars, vars
  <2>2. QED
    BY <2>1 DEF Wishes, ErasureIsWanted, Wanted, User
<1>4. ASSUME NEW u \in Leavers, RequestDeletion(u) PROVE Wishes'
  <2>1. UNCHANGED <<late, erased, attempt>> /\ RequestsFollow
    BY <1>4, RequestsKept DEF RequestDeletion
  <2>2. QED
    BY <2>1 DEF Wishes, ErasureIsWanted, Wanted, User, RequestsFollow, Types, AttemptsType
<1>5. ASSUME NEW u \in Leavers, Tick(u) PROVE Wishes'
  <2>1. UNCHANGED <<request, late, erased, attempt>>
    BY <1>5 DEF Tick
  <2>2. QED
    BY <2>1 DEF Wishes, ErasureIsWanted, Wanted, User
<1>6. ASSUME NEW u \in Leavers, Expire(u) PROVE Wishes'
  <2>1. UNCHANGED <<request, late, erased>>
    BY <1>6 DEF Expire
  <2>2. \A y \in Slots : attempt'[y].place = attempt[y].place /\ attempt'[y].user = attempt[y].user
    BY <1>0, <1>6 DEF Expire, AttemptSet
  <2>3. QED
    BY <2>1, <2>2 DEF Wishes, ErasureIsWanted, Wanted, User
<1>7. ASSUME NEW x \in Slots, NEW u \in Leavers, Claim(x, u) PROVE Wishes'
  <2>1. UNCHANGED <<request, late, erased>>
    BY <1>7 DEF Claim
  <2>2. \A y \in Slots : attempt'[y] = attempt[y] \/ attempt'[y].place = "find"
    BY <1>0, <1>7 DEF Claim, Idle
  <2>3. QED
    BY <2>1, <2>2 DEF Wishes, ErasureIsWanted, Wanted, User
<1>8. ASSUME NEW x \in Slots, Crash(x) PROVE Wishes'
  BY <1>1, <1>8, Ends DEF Crash, requestVars
<1>9. QED
  BY <1>3, <1>4, <1>5, <1>6, <1>7, <1>8, CancelWishes, ExecuteWishes, CallFailsWishes
     DEF Next, Membership, Holding

-----------------------------------------------------------------------------
(* The theorems                                                            *)

\* The strengthened invariant holds of a workspace with its founder and members.
THEOREM GovernanceInit == Init => GovernanceInv
<1> SUFFICES ASSUME Init PROVE GovernanceInv
  OBVIOUS
<1> USE WorkspaceGovernanceAssumption DEF Init
<1>1. Flags
  BY DEF Flags
<1>2. MembersType
  BY DEF MembersType, NoChange
<1>3. RequestsType
  BY DEF RequestsType, RequestSet, JobSet
<1>4. AttemptsType
  BY DEF AttemptsType, AttemptSet, Idle, User
<1>5. DataType /\ CountersOK
  BY DEF DataType, CountersOK
<1>6. OneOwner
  BY DEF OneOwner
<1>7. \A x \in Slots : Relies(x)
  BY DEF Relies, Relying, Erasing, Idle
<1>8. People
  BY <1>6, <1>7 DEF People, Idle
<1>9. Wishes
  BY DEF Wishes, ErasureIsWanted, Wanted, Idle
<1>10. QED
  BY <1>1, <1>2, <1>3, <1>4, <1>5, <1>8, <1>9 DEF GovernanceInv, Types

\* The strengthened invariant is kept by every step of members, holds, requests and attempts,
\* and by every fault.
THEOREM GovernanceInductive == GovernanceInv /\ [Next]_vars => GovernanceInv'
BY NextTypes, NextPeople, NextWishes DEF GovernanceInv

LEMMA OwnerFollows ==
  ASSUME Types, People
  PROVE  OwnerKept
<1>1. Owners = {} \/ \E o \in active : Owners = {o}
  BY DEF Owners, Types, MembersType, People
<1>2. Cardinality(Owners) <= 1
  <2>1. CASE Owners = {}
    BY <2>1, FS_EmptySet
  <2>2. ASSUME NEW o \in active, Owners = {o} PROVE Cardinality(Owners) <= 1
    BY <2>2, FS_Singleton
  <2>3. QED
    BY <1>1, <2>1, <2>2
<1>3. ASSUME ~raced, closed PROVE Owners = {} /\ active \subseteq stray
  BY <1>3 DEF People, Owners
<1>4. ASSUME ~raced, ~closed PROVE Owners # {}
  BY <1>4 DEF People, Owners, OneOwner
<1>5. QED
  BY <1>2, <1>3, <1>4 DEF OwnerKept

\* The rows, the requests and the attempts keep their types; no workspace has two active
\* owners, the open one keeps one, and only invitations inserted after its closing bring
\* members into a closed one (transfer, removeMember, createInvitation, eraseAccount), for any
\* number of users who invite, leave, delete their accounts and transfer at the same time,
\* unless memberships raced with what relied on them.
THEOREM OwnersAreKept == Spec => [](TypeOK /\ OwnerKept)
<1>1. GovernanceInv => TypeOK /\ OwnerKept
  BY TypesParts, OwnerFollows DEF GovernanceInv
<1>2. QED
  BY GovernanceInit, GovernanceInductive, <1>1, PTL DEF Spec

\* No account is erased against a cancellation that came before the attempt, and no request
\* is completed without the erasure (execute, completeDeletion).
THEOREM ErasuresAreWanted == Spec => []ErasureIsWanted
<1>1. GovernanceInv => ErasureIsWanted
  BY DEF GovernanceInv, Wishes
<1>2. QED
  BY GovernanceInit, GovernanceInductive, <1>1, PTL DEF Spec

\* What one step may do to held data.
HeldStep ==
  holds > 0 /\ ~closed /\ ~raced =>
    /\ doc' = doc \/ removal = "row"
    /\ active \cap erased' \subseteq erased
    /\ stored' = stored \/ removal = "file" \/ (drain = "delete" /\ deletion = "pending")

LEMMA HeldByAttempts ==
  ASSUME GovernanceInv, holds > 0, ~closed, ~raced, NEW x \in Slots,
         Execute(x) \/ CallFails(x)
  PROVE  HeldStep
<1> DEFINE u == User(x)
<1>0. /\ Relies(x) /\ OneOwner /\ holds # 0
      /\ attempt[x].place = "files" => attempt[x].owns
  BY WorkspaceGovernanceAssumption DEF GovernanceInv, People, Types, DataType
<1>1. x \in Erasing => u \notin active /\ ~attempt[x].owns
  <2>1. ASSUME x \in Erasing PROVE u \notin active
    BY <1>0, <2>1 DEF Relies
  <2>2. ASSUME x \in Erasing, attempt[x].owns PROVE FALSE
    BY <1>0, <2>1, <2>2 DEF Relies, Relying, Erasing
  <2>3. QED
    BY <2>1, <2>2
<1>2. attempt[x].place # "files"
  BY <1>0, <1>1 DEF Erasing
<1>3. ASSUME attempt[x].place = "commit", Erase(x) PROVE HeldStep
  <2>1. u \notin active /\ ~attempt[x].owns
    BY <1>1, <1>3 DEF Erasing
  <2>2. erased' = erased \cup {u} /\ UNCHANGED stored /\ doc' = (doc /\ ~attempt[x].owns)
    BY <1>3 DEF Erase
  <2>3. doc' = doc
    BY <2>1, <2>2, Zenon DEF GovernanceInv, Types, Flags
  <2>4. QED
    BY <2>1, <2>2, <2>3 DEF HeldStep
<1>4. CASE UNCHANGED <<doc, erased, stored>>
  BY <1>4 DEF HeldStep
<1>5. CASE Commit(x)
  BY <1>3, <1>5 DEF Commit, IsAt
<1>6. CASE Execute(x)
  <2>1. ~DeleteFiles(x)
    BY <1>2 DEF DeleteFiles, IsAt
  <2>2. Commit(x) \/ UNCHANGED onlyAttempt
    BY <1>6, <2>1 DEF Execute, Find, Begin, ReadBlockers, ReadOwned, ReadMemberships, Check,
       Complete, Fail
  <2>3. QED
    BY <1>4, <1>5, <2>2 DEF onlyAttempt, fileVars
<1>7. CASE CallFails(x)
  <2>1. \/ attempt[x].place = "commit" /\ Erase(x)
        \/ UNCHANGED <<doc, erased, stored>>
    BY <1>2, <1>7 DEF CallFails, IsAt, fileVars
  <2>2. QED
    BY <1>3, <1>4, <2>1
<1>8. QED
  BY <1>6, <1>7

\* A legal hold keeps the document, its file and the accounts of members in every step of the
\* retention and of the deletion of accounts (deletionBlockers, enforce,
\* pendingFileDeletions); a request to remove the document is the only one that does not ask.
THEOREM HoldsAreKept == Spec => HoldsPreserve
<1>1. ASSUME GovernanceInv, [Next]_vars PROVE HeldStep
  <2> SUFFICES ASSUME holds > 0, ~closed, ~raced PROVE HeldStep
    BY DEF HeldStep
  <2>1. CASE UNCHANGED <<doc, erased, stored>>
    BY <2>1 DEF HeldStep
  <2>2. CASE Membership \/ UNCHANGED vars
    BY <2>1, <2>2 DEF Membership, Invite, Accept, StartChange, Transfer, FinishChange, Subscribe,
       fileVars, vars
  <2>3. CASE PlaceHold \/ ReleaseHold
    BY <2>1, <2>3 DEF PlaceHold, ReleaseHold, fileVars
  <2>4. ~Enforce
    BY WorkspaceGovernanceAssumption DEF Enforce, GovernanceInv, Types, DataType
  <2>5. CASE Drain
    <3>1. drain # "idle" => deletion = "pending"
      BY <1>1 DEF GovernanceInv, Types, DataType
    <3>2. UNCHANGED <<doc, erased>> /\ (stored' = stored \/ drain = "delete")
      BY <2>5 DEF Drain
    <3>3. QED
      BY <3>1, <3>2 DEF HeldStep
  <2>6. ASSUME NEW u \in Leavers, RequestDeletion(u) \/ Cancel(u) \/ Tick(u) \/ Expire(u)
        PROVE  HeldStep
    BY <2>1, <2>6 DEF RequestDeletion, Cancel, Tick, Expire, fileVars
  <2>7. ASSUME NEW x \in Slots, NEW u \in Leavers, Claim(x, u) PROVE HeldStep
    BY <2>1, <2>7 DEF Claim, fileVars
  <2>8. ASSUME NEW x \in Slots, Crash(x) PROVE HeldStep
    BY <2>1, <2>8 DEF Crash, fileVars
  <2>9. CASE StartRemoval \/ Remove
    <3>1. /\ UNCHANGED erased
          /\ doc' = doc \/ removal = "row"
          /\ stored' = stored \/ removal = "file"
      BY <2>9, Zenon DEF StartRemoval, Remove
    <3>2. QED
      BY <3>1 DEF HeldStep
  <2>10. QED
    BY <1>1, <2>2, <2>3, <2>4, <2>5, <2>6, <2>7, <2>8, <2>9, HeldByAttempts DEF Next, Membership
<1>2. GovernanceInv /\ [Next]_vars
        => [holds > 0 /\ ~closed /\ ~raced =>
              /\ doc' = doc \/ removal = "row"
              /\ active \cap erased' \subseteq erased
              /\ stored' = stored \/ removal = "file" \/ (drain = "delete" /\ deletion = "pending")]_vars
  BY <1>1 DEF HeldStep
<1>3. QED
  BY GovernanceInit, GovernanceInductive, <1>2, PTL DEF Spec, HoldsPreserve
=============================================================================
