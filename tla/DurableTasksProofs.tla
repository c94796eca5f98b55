-------------------------- MODULE DurableTasksProofs --------------------------
(***************************************************************************)
(* Proofs about the consumers (TaskExecution), for any messages, workers   *)
(* and resources and any number of faults, and that the composed system    *)
(* keeps to the specifications of its two parts.                           *)
(*                                                                         *)
(* The consumers: a worker past its commit guard holds the row lock        *)
(* (Locks), a claim needs that lock to change the row, so the row is still *)
(* the worker's (GuardHoldsToCommit); a message completes only in such a   *)
(* commit, and the claim looked at the inbox under the same lock, so the   *)
(* worker that owns the row has an undone message (CurrentOwnerHasWork)    *)
(* and no message completes twice.                                         *)
(*                                                                         *)
(* The composition: a step of one part is, for the other, a step of its    *)
(* environment, so what is proved of a part holds of the whole.            *)
(***************************************************************************)
EXTENDS DurableTasks, TLAPS

-----------------------------------------------------------------------------
(* The consumers.                                                          *)

\* Whose transaction holds a row lock follows from where the workers are.
LockHolders == {"claiming"} \union Guarded

Locks ==
    /\ \A w \in Workers : pc[w] \in LockHolders => rowLock[Res(w)] = w
    /\ \A r \in Resources, w \in Workers :
          rowLock[r] = w => pc[w] \in LockHolders /\ Res(w) = r

\* A worker inside consume has a message.
Jobs == \A w \in Workers : pc[w] # "idle" => job[w] \in Messages

\* Writes and releases carry epochs that were handed out, and only a row
\* that is not released is newer than the last release.
Epochs ==
    \A r \in Resources :
        /\ fence[r] <= exec[r].epoch
        /\ freed[r] <= exec[r].epoch
        /\ exec[r].lease # "released" => exec[r].epoch > freed[r]

Inv == /\ TypeOK
       /\ Jobs
       /\ Locks
       /\ Epochs
       /\ GuardHoldsToCommit
       /\ CurrentOwnerHasWork
       /\ EffectsMatchReceipts

LEMMA ResInResources ==
    ASSUME TypeOK, Jobs, NEW w \in Workers, pc[w] # "idle"
    PROVE  job[w] \in Messages /\ Res(w) \in Resources
BY ResourceAssumption DEF Jobs, Res

LEMMA LeaseUpdateTypes ==
    ASSUME TypeOK, NEW r \in Resources, NEW lease \in Leases
    PROVE  [exec EXCEPT ![r].lease = lease] \in [Resources -> Execution]
BY DEF TypeOK, Execution

-----------------------------------------------------------------------------
(* Type correctness.                                                       *)

LEMMA InitTypes == Init => TypeOK /\ Jobs
BY NoneAssumption, FaultAssumption
DEF Init, TypeOK, Jobs, Execution, Leases, PCs, Working, Unlocked, Guarded

\* A step of one worker keeps the types.
LEMMA WorkerTypes ==
    ASSUME TypeOK, Jobs, NEW w \in Workers,
           \/ \E m \in Messages : Consume(w, m)
           \/ Claim(w) \/ Execute(w) \/ Heartbeat(w)
           \/ WorkFails(w) \/ Release(w) \/ Crash(w)
    PROVE  TypeOK' /\ Jobs'
<1> USE NoneAssumption, FaultAssumption
    DEF TypeOK, Jobs, PCs, Working, Unlocked, Guarded,
        Goto, Return, Lock, Unlock, history, environment
<1>1. CASE \E m \in Messages : Consume(w, m)
    BY <1>1 DEF Consume
<1>2. CASE Claim(w)
    <2> job[w] \in Messages /\ Res(w) \in Resources
        BY <1>2, ResInResources DEF Claim, ClaimBusy, ClaimUpsert, ClaimGrant, ClaimDone
    <2>1. CASE ClaimBusy(w)  BY <2>1 DEF ClaimBusy
    <2>2. CASE ClaimUpsert(w)  BY <2>2 DEF ClaimUpsert
    <2>3. ASSUME NEW lease \in Leases
          PROVE  NewRow(w, lease) \in [Resources -> Execution]
        BY DEF NewRow, Execution
    <2>4. CASE ClaimGrant(w)
        <3>1. exec' \in [Resources -> Execution]
            BY <2>3, <2>4 DEF ClaimGrant, Leases
        <3>2. exec[Res(w)].epoch + 1 \in Nat
            BY DEF Execution
        <3> QED  BY <2>4, <3>1, <3>2 DEF ClaimGrant
    <2>5. CASE ClaimDone(w)
        <3>1. exec' \in [Resources -> Execution]
            BY <2>3, <2>5 DEF ClaimDone, Leases
        <3>2. exec[Res(w)].epoch + 1 \in Nat
            BY DEF Execution
        <3> QED  BY <2>5, <3>1, <3>2 DEF ClaimDone
    <2> QED  BY <1>2, <2>1, <2>2, <2>4, <2>5 DEF Claim
<1>3. CASE Execute(w)
    <2> job[w] \in Messages /\ Res(w) \in Resources
        BY <1>3, ResInResources
        DEF Execute, AssertCurrent, AssertFails, GuardProgress, CommitProgress,
            InsertReceipt, GuardReceipt, GuardFails, CommitReceipt
    <2>1. CASE AssertCurrent(w)  BY <2>1 DEF AssertCurrent
    <2>2. CASE AssertFails(w)  BY <2>2 DEF AssertFails, EndWork, Rollback
    <2>3. CASE GuardProgress(w)  BY <2>3 DEF GuardProgress
    <2>4. CASE CommitProgress(w)  BY <2>4 DEF CommitProgress
    <2>5. CASE InsertReceipt(w)  BY <2>5 DEF InsertReceipt
    <2>6. CASE GuardReceipt(w)  BY <2>6 DEF GuardReceipt
    <2>7. CASE GuardFails(w)  BY <2>7 DEF GuardFails, EndWork, Rollback
    <2>8. CASE CommitReceipt(w)  BY <2>8 DEF CommitReceipt
    <2> QED  BY <1>3, <2>1, <2>2, <2>3, <2>4, <2>5, <2>6, <2>7, <2>8 DEF Execute
<1>4. CASE Renew(w)
    <2> Res(w) \in Resources  BY <1>4, ResInResources DEF Renew
    <2>1. exec' \in [Resources -> Execution]
        BY <1>4, LeaseUpdateTypes DEF Renew, Leases
    <2> QED  BY <1>4, <2>1 DEF Renew
<1>5. CASE RenewFails(w)  BY <1>5 DEF RenewFails, EndWork, Rollback
<1>6. CASE WorkFails(w)  BY <1>6 DEF WorkFails, Fault, EndWork, Rollback
<1>7. CASE Release(w)
    <2> Res(w) \in Resources  BY <1>7, ResInResources DEF Release
    <2>1. [exec EXCEPT ![Res(w)].lease = "released"] \in [Resources -> Execution]
        BY LeaseUpdateTypes DEF Leases
    <2>2. exec' \in [Resources -> Execution]
        BY <1>7, <2>1 DEF Release
    <2>3. freed' \in [Resources -> Nat]
        BY <1>7 DEF Release
    <2> QED  BY <1>7, <2>2, <2>3 DEF Release
<1>8. CASE Crash(w)  BY <1>8 DEF Crash, Fault, Rollback
<1> QED  BY <1>1, <1>2, <1>3, <1>4, <1>5, <1>6, <1>7, <1>8 DEF Heartbeat

\* So does the clock.
LEMMA ClockTypes ==
    ASSUME TypeOK, Jobs, NEW r \in Resources,
           Age(r) \/ Lapse(r) \/ Stall(r) \/ ClockBack(r)
    PROVE  TypeOK' /\ Jobs'
<1>1. ASSUME NEW from, NEW to \in Leases, SetLease(r, from, to)
      PROVE  exec' \in [Resources -> Execution]
    BY <1>1, LeaseUpdateTypes DEF SetLease
<1>2. exec' \in [Resources -> Execution]
    BY <1>1 DEF Age, Lapse, Stall, ClockBack, Leases
<1>3. faults' \in 0..MaxFaults
    BY FaultAssumption DEF TypeOK, Age, Lapse, Stall, ClockBack, Fault
<1> QED
    BY <1>2, <1>3
    DEF TypeOK, Jobs, Age, Lapse, Stall, ClockBack, SetLease, history, environment

LEMMA StepTypes == TypeOK /\ Jobs /\ [Next]_vars => TypeOK' /\ Jobs'
<1> SUFFICES ASSUME TypeOK, Jobs, [Next]_vars
             PROVE  TypeOK' /\ Jobs'
    OBVIOUS
<1>1. CASE Environment
    BY <1>1, FaultAssumption DEF Environment, Fault, TypeOK, Jobs, history
<1>2. CASE UNCHANGED vars
    BY <1>2 DEF vars, TypeOK, Jobs
<1> QED  BY <1>1, <1>2, WorkerTypes, ClockTypes DEF Next

\* Every variable keeps its type.
THEOREM TypeCorrect == Spec => []TypeOK
<1>1. Spec => [](TypeOK /\ Jobs)
    BY InitTypes, StepTypes, PTL DEF Spec
<1> QED  BY <1>1, PTL

-----------------------------------------------------------------------------
(* Row locks follow the program counters.                                  *)

\* A transaction that rolls back takes no lock of another worker with it.
LEMMA RollbackLocks ==
    ASSUME TypeOK, Jobs, Locks, NEW w \in Workers, Rollback(w),
           NEW l \in {"idle", "ending"}, pc' = [pc EXCEPT ![w] = l],
           \A v \in Workers \ {w} : job'[v] = job[v]
    PROVE  Locks'
<1>1. ASSUME NEW v \in Workers, pc'[v] \in LockHolders
      PROVE  rowLock'[Res(v)'] = v
    <2>1. v # w /\ pc[v] \in LockHolders /\ pc[v] # "idle"
        BY <1>1 DEF TypeOK, LockHolders, Guarded
    <2>2. Res(v)' = Res(v) /\ Res(v) \in Resources /\ rowLock[Res(v)] = v
        BY <2>1, ResInResources DEF Locks, Res
    <2> QED  BY <2>1, <2>2 DEF Rollback
<1>2. ASSUME NEW r \in Resources, NEW v \in Workers, rowLock'[r] = v
      PROVE  pc'[v] \in LockHolders /\ Res(v)' = r
    <2>1. rowLock[r] = v /\ v # w
        BY <1>2, NoneAssumption DEF Rollback
    <2> QED  BY <2>1 DEF Locks, Res, TypeOK
<1> QED  BY <1>1, <1>2 DEF Locks

LEMMA StepLocks ==
    ASSUME TypeOK, Jobs, Locks, [Next]_vars
    PROVE  Locks'
<1>0. ASSUME NEW w \in Workers, WorkFails(w) \/ Crash(w)
      PROVE  Locks'
    <2>1. CASE WorkFails(w)
        <3>1. Rollback(w) /\ pc' = [pc EXCEPT ![w] = "ending"] /\ job' = job
            BY <2>1 DEF WorkFails, EndWork, Goto
        <3> QED  BY <3>1, RollbackLocks
    <2>2. CASE Crash(w)
        <3>1. /\ Rollback(w) /\ pc' = [pc EXCEPT ![w] = "idle"]
              /\ job' = [job EXCEPT ![w] = None]
            BY <2>2 DEF Crash, Return, Goto
        <3>2. \A v \in Workers \ {w} : job'[v] = job[v]
            BY <3>1 DEF TypeOK
        <3> QED  BY <3>1, <3>2, RollbackLocks
    <2> QED  BY <1>0, <2>1, <2>2
<1> USE NoneAssumption
    DEF TypeOK, Locks, LockHolders, PCs, Working, Unlocked, Guarded, Res, RowFree,
        Goto, Return, Lock, Unlock, Rollback, EndWork, history, environment
<1>1. ASSUME NEW w \in Workers, NEW m \in Messages, Consume(w, m)
      PROVE  Locks'
    BY <1>1 DEF Consume
<1>2. ASSUME NEW w \in Workers, Claim(w)
      PROVE  Locks'
    <2> Res(w) \in Resources
        BY <1>2, ResInResources DEF Claim, ClaimBusy, ClaimUpsert, ClaimGrant, ClaimDone
    <2>1. CASE ClaimBusy(w)  BY <2>1 DEF ClaimBusy
    <2>2. CASE ClaimUpsert(w)  BY <2>2 DEF ClaimUpsert
    <2>3. CASE ClaimGrant(w)  BY <2>3 DEF ClaimGrant
    <2>4. CASE ClaimDone(w)  BY <2>4 DEF ClaimDone
    <2> QED  BY <1>2, <2>1, <2>2, <2>3, <2>4 DEF Claim
<1>3. ASSUME NEW w \in Workers, Execute(w)
      PROVE  Locks'
    <2> Res(w) \in Resources
        BY <1>3, ResInResources
        DEF Execute, AssertCurrent, AssertFails, GuardProgress, CommitProgress,
            InsertReceipt, GuardReceipt, GuardFails, CommitReceipt
    <2>1. CASE AssertCurrent(w)  BY <2>1 DEF AssertCurrent
    <2>2. CASE AssertFails(w)  BY <2>2 DEF AssertFails
    <2>3. CASE GuardProgress(w)  BY <2>3 DEF GuardProgress
    <2>4. CASE CommitProgress(w)  BY <2>4 DEF CommitProgress
    <2>5. CASE InsertReceipt(w)  BY <2>5 DEF InsertReceipt
    <2>6. CASE GuardReceipt(w)  BY <2>6 DEF GuardReceipt
    <2>7. CASE GuardFails(w)  BY <2>7 DEF GuardFails
    <2>8. CASE CommitReceipt(w)  BY <2>8 DEF CommitReceipt
    <2> QED  BY <1>3, <2>1, <2>2, <2>3, <2>4, <2>5, <2>6, <2>7, <2>8 DEF Execute
<1>4. ASSUME NEW w \in Workers, Heartbeat(w) \/ Release(w)
      PROVE  Locks'
    <2>1. CASE Renew(w)  BY <2>1 DEF Renew
    <2>2. CASE RenewFails(w)  BY <2>2 DEF RenewFails
    <2>3. CASE Release(w)  BY <2>3 DEF Release
    <2> QED  BY <1>4, <2>1, <2>2, <2>3 DEF Heartbeat
<1>5. ASSUME NEW r \in Resources, Age(r) \/ Lapse(r) \/ Stall(r) \/ ClockBack(r)
      PROVE  Locks'
    BY <1>5 DEF Age, Lapse, Stall, ClockBack, SetLease
<1>6. CASE Environment
    BY <1>6 DEF Environment
<1>7. CASE UNCHANGED vars
    BY <1>7 DEF vars
<1> QED  BY <1>0, <1>1, <1>2, <1>3, <1>4, <1>5, <1>6, <1>7 DEF Next

-----------------------------------------------------------------------------
(* Who changes what: the frame facts the safety proofs share.              *)

SameGrant(r) ==
    /\ exec'[r].msg = exec[r].msg
    /\ exec'[r].owner = exec[r].owner
    /\ exec'[r].epoch = exec[r].epoch

\* w leaves its claim, and with it a new row for r.
NewGrant(w, r, label) ==
    /\ pc[w] = "claiming" /\ pc'[w] = label
    /\ Res(w) = r
    /\ exec'[r].msg = job[w]
    /\ exec'[r].owner = w
    /\ exec'[r].epoch = exec[r].epoch + 1

\* A row changes hands only when a claim, which holds its lock, commits.
LEMMA GrantChanges ==
    ASSUME TypeOK, Jobs, [Next]_vars, NEW r \in Resources
    PROVE  \/ SameGrant(r)
           \/ \E w \in Workers : NewGrant(w, r, "granted") \/ NewGrant(w, r, "idle")
<1>1. ASSUME exec' = exec
      PROVE  SameGrant(r)
    BY <1>1 DEF SameGrant
<1>2. ASSUME NEW s \in Resources, NEW lease,
             exec' = [exec EXCEPT ![s].lease = lease]
      PROVE  SameGrant(r)
    <2> exec[r] \in Execution /\ exec[s] \in Execution
        BY DEF TypeOK
    <2>1. exec'[r] = IF r = s THEN [exec[r] EXCEPT !.lease = lease] ELSE exec[r]
        BY <1>2 DEF TypeOK
    <2>2. CASE r = s
        BY <2>1, <2>2 DEF SameGrant, Execution
    <2>3. CASE r # s
        BY <2>1, <2>3 DEF SameGrant
    <2> QED  BY <2>2, <2>3
<1>3. ASSUME NEW w \in Workers, NEW lease, NEW label, pc[w] = "claiming",
             exec' = NewRow(w, lease), Goto(w, label)
      PROVE  SameGrant(r) \/ NewGrant(w, r, label)
    <2> Res(w) \in Resources
        BY <1>3, ResInResources
    <2>1. exec'[r] = IF r = Res(w)
                       THEN [msg |-> job[w], owner |-> w,
                             epoch |-> exec[r].epoch + 1, lease |-> lease]
                       ELSE exec[r]
        BY <1>3 DEF NewRow, TypeOK
    <2>2. pc'[w] = label
        BY <1>3 DEF Goto, TypeOK
    <2> QED  BY <1>3, <2>1, <2>2 DEF SameGrant, NewGrant
<1>4. ASSUME NEW w \in Workers, Claim(w)
      PROVE  exec' = exec \/ NewGrant(w, r, "granted") \/ NewGrant(w, r, "idle") \/ SameGrant(r)
    BY <1>3, <1>4
    DEF Claim, ClaimBusy, ClaimUpsert, ClaimGrant, ClaimDone, Return
<1>5. ASSUME NEW w \in Workers,
             (\E m \in Messages : Consume(w, m)) \/ Execute(w) \/ RenewFails(w)
             \/ WorkFails(w) \/ Crash(w)
      PROVE  exec' = exec
    BY <1>5
    DEF Consume, Execute, AssertCurrent, AssertFails, GuardProgress, CommitProgress,
        InsertReceipt, GuardReceipt, GuardFails, CommitReceipt, RenewFails, WorkFails,
        Crash, EndWork
<1>6. ASSUME NEW w \in Workers, Renew(w) \/ Release(w)
      PROVE  SameGrant(r)
    <2> Res(w) \in Resources
        BY <1>6, ResInResources DEF Renew, Release, Working, Unlocked, Guarded
    <2>1. CASE Renew(w)
        BY <1>2, <2>1 DEF Renew
    <2>2. CASE Release(w)
        <3>1. exec' = [exec EXCEPT ![Res(w)].lease = "released"] \/ exec' = exec
            BY <2>2 DEF Release
        <3> QED  BY <1>1, <1>2, <3>1
    <2> QED  BY <1>6, <2>1, <2>2
<1>7. ASSUME NEW s \in Resources, Age(s) \/ Lapse(s) \/ Stall(s) \/ ClockBack(s)
      PROVE  SameGrant(r)
    BY <1>2, <1>7 DEF Age, Lapse, Stall, ClockBack, SetLease
<1>8. CASE Environment
    BY <1>1, <1>8 DEF Environment
<1>9. CASE UNCHANGED vars
    BY <1>1, <1>9 DEF vars
<1> QED
    BY <1>1, <1>4, <1>5, <1>6, <1>7, <1>8, <1>9 DEF Next, Heartbeat

\* A worker that works after the step did so before, or has just claimed;
\* it passed a commit guard before, or does now with the lease in hand.
LEMMA WorkerFrame ==
    ASSUME TypeOK, [Next]_vars, NEW v \in Workers, pc'[v] \in Working
    PROVE  /\ job'[v] = job[v]
           /\ \/ pc[v] \in Working /\ token'[v] = token[v]
              \/ pc[v] = "claiming" /\ pc'[v] = "granted" /\ job[v] \notin inbox /\ inbox' = inbox
           /\ pc'[v] \in Guarded => pc[v] \in Guarded \/ (Owns(v) /\ exec' = exec)
<1> USE DEF TypeOK, Working, Unlocked, Guarded, PCs, Goto, Return, EndWork
<1>1. CASE UNCHANGED <<pc, job, token>>
    BY <1>1
<1>2. ASSUME NEW w \in Workers, w # v,
             pc' = [pc EXCEPT ![w] = pc'[w]], job' = [job EXCEPT ![w] = job'[w]],
             token' = [token EXCEPT ![w] = token'[w]]
      PROVE  pc'[v] = pc[v] /\ job'[v] = job[v] /\ token'[v] = token[v]
    BY <1>2
<1>3. ASSUME NEW w \in Workers,
             \/ \E m \in Messages : Consume(w, m)
             \/ Claim(w) \/ Execute(w) \/ Heartbeat(w)
             \/ WorkFails(w) \/ Release(w) \/ Crash(w)
      PROVE  /\ pc' = [pc EXCEPT ![w] = pc'[w]]
             /\ job' = [job EXCEPT ![w] = job'[w]]
             /\ token' = [token EXCEPT ![w] = token'[w]]
    BY <1>3
    DEF Consume, Claim, ClaimBusy, ClaimUpsert, ClaimGrant, ClaimDone, Execute,
        AssertCurrent, AssertFails, GuardProgress, CommitProgress, InsertReceipt,
        GuardReceipt, GuardFails, CommitReceipt, Heartbeat, Renew, RenewFails,
        WorkFails, Release, Crash
<1>4. CASE \E m \in Messages : Consume(v, m)
    BY <1>4 DEF Consume
<1>5. CASE Claim(v)
    BY <1>5 DEF Claim, ClaimBusy, ClaimUpsert, ClaimGrant, ClaimDone
<1>6. CASE Execute(v)
    BY <1>6
    DEF Execute, AssertCurrent, AssertFails, GuardProgress, CommitProgress,
        InsertReceipt, GuardReceipt, GuardFails, CommitReceipt, Holds
<1>7. CASE Heartbeat(v) \/ WorkFails(v) \/ Release(v) \/ Crash(v)
    BY <1>7 DEF Heartbeat, Renew, RenewFails, WorkFails, Release, Crash
<1>8. CASE \E r \in Resources : Age(r) \/ Lapse(r) \/ Stall(r) \/ ClockBack(r)
    BY <1>1, <1>8 DEF Age, Lapse, Stall, ClockBack, SetLease
<1>9. CASE Environment \/ UNCHANGED vars
    BY <1>1, <1>9 DEF Environment, vars
<1> QED
    BY <1>2, <1>3, <1>4, <1>5, <1>6, <1>7, <1>8, <1>9 DEF Next

\* What a step may write: receipts and effects of one message that a worker
\* commits, a fence of the committing worker's epoch, or neither.
Committed(w) ==
    /\ pc[w] = "committing" /\ pc'[w] = "ending"
    /\ inbox' = inbox \union {job[w]}
    /\ applied' = [applied EXCEPT ![job[w]] = @ + 1]

LEMMA WritesFrame ==
    ASSUME TypeOK, Jobs, [Next]_vars
    PROVE  /\ \/ inbox' = inbox /\ applied' = applied
              \/ \E w \in Workers : Committed(w)
           /\ \/ fence' = fence
              \/ \E w \in Workers :
                    /\ pc[w] \in Guarded
                    /\ fence' = [fence EXCEPT ![Res(w)] = token[w]]
                    /\ exec' = exec
<1> USE DEF history, environment, EndWork
<1>1. ASSUME NEW w \in Workers, CommitReceipt(w)
      PROVE  Committed(w) /\ fence' = [fence EXCEPT ![Res(w)] = token[w]] /\ exec' = exec
             /\ pc[w] \in Guarded
    BY <1>1 DEF CommitReceipt, Committed, Goto, TypeOK, Guarded
<1>2. ASSUME NEW w \in Workers, CommitProgress(w)
      PROVE  inbox' = inbox /\ applied' = applied /\ exec' = exec /\ pc[w] \in Guarded
             /\ fence' = [fence EXCEPT ![Res(w)] = token[w]]
    BY <1>2 DEF CommitProgress, Guarded
<1>3. ASSUME NEW w \in Workers,
             \/ (\E m \in Messages : Consume(w, m)) \/ Claim(w) \/ Heartbeat(w)
             \/ WorkFails(w) \/ Release(w) \/ Crash(w)
      PROVE  inbox' = inbox /\ applied' = applied /\ fence' = fence
    BY <1>3
    DEF Consume, Claim, ClaimBusy, ClaimUpsert, ClaimGrant, ClaimDone, Heartbeat,
        Renew, RenewFails, WorkFails, Release, Crash
<1>4. ASSUME NEW w \in Workers, Execute(w), ~CommitReceipt(w), ~CommitProgress(w)
      PROVE  inbox' = inbox /\ applied' = applied /\ fence' = fence
    BY <1>4
    DEF Execute, AssertCurrent, AssertFails, GuardProgress, InsertReceipt,
        GuardReceipt, GuardFails
<1>5. CASE (\E r \in Resources : Age(r) \/ Lapse(r) \/ Stall(r) \/ ClockBack(r))
           \/ Environment \/ UNCHANGED vars
    BY <1>5 DEF Age, Lapse, Stall, ClockBack, SetLease, Environment, vars
<1> QED
    BY <1>1, <1>2, <1>3, <1>4, <1>5 DEF Next

-----------------------------------------------------------------------------
(* Ownership: a guarded worker keeps its row, and owners have undone work. *)

LEMMA RowFields ==
    ASSUME TypeOK, NEW r \in Resources
    PROVE  /\ exec[r].owner \in Workers \union {None}
           /\ exec[r].epoch \in Nat
           /\ exec[r].lease \in Leases
BY DEF TypeOK, Execution

\* Nobody else can be inside a claim on the row a guarded worker has locked.
LEMMA StepGuard ==
    ASSUME TypeOK, Jobs, Locks, GuardHoldsToCommit, [Next]_vars
    PROVE  GuardHoldsToCommit'
<1> SUFFICES ASSUME NEW v \in Workers, pc'[v] \in Guarded
             PROVE  Owns(v)'
    BY DEF GuardHoldsToCommit
<1> pc'[v] \in Working
    BY DEF Working
<1>1. CASE pc[v] \in Guarded
    <2>1. pc[v] # "claiming" /\ pc[v] # "idle" /\ pc'[v] # "granted"
        BY <1>1 DEF Guarded
    <2>2. Res(v) \in Resources
        BY <2>1, ResInResources
    <2>3. job'[v] = job[v] /\ token'[v] = token[v] /\ Res(v)' = Res(v)
        BY <2>1, WorkerFrame DEF Res
    <2>4. Owns(v) /\ rowLock[Res(v)] = v
        BY <1>1 DEF GuardHoldsToCommit, Locks, LockHolders
    <2>5. ASSUME NEW w \in Workers, pc[w] = "claiming", Res(w) = Res(v)
          PROVE  FALSE
        BY <1>1, <2>1, <2>4, <2>5 DEF Locks, LockHolders
    <2>6. SameGrant(Res(v))
        BY <2>2, <2>5, GrantChanges DEF NewGrant
    <2> QED  BY <2>3, <2>4, <2>6 DEF Owns, SameGrant
<1>2. CASE pc[v] \notin Guarded
    <2>1. Owns(v) /\ exec' = exec /\ job'[v] = job[v]
        BY <1>2, WorkerFrame
    <2>2. pc[v] # "claiming" \/ pc'[v] # "granted"
        BY DEF Guarded
    <2>3. token'[v] = token[v] /\ Res(v)' = Res(v)
        BY <2>1, <2>2, WorkerFrame DEF Res
    <2> QED  BY <2>1, <2>3 DEF Owns
<1> QED  BY <1>1, <1>2

LEMMA StepHasWork ==
    ASSUME TypeOK, Jobs, Locks, GuardHoldsToCommit, CurrentOwnerHasWork, [Next]_vars
    PROVE  CurrentOwnerHasWork'
<1> SUFFICES ASSUME NEW v \in Workers, pc'[v] \in Working, Owns(v)'
             PROVE  job'[v] \notin inbox'
    BY DEF CurrentOwnerHasWork
<1>1. CASE pc[v] = "claiming" /\ pc'[v] = "granted"
    <2>1. pc[v] \notin Working
        BY <1>1 DEF Working, Unlocked, Guarded
    <2> QED  BY <1>1, <2>1, WorkerFrame
<1>2. CASE ~(pc[v] = "claiming" /\ pc'[v] = "granted")
    <2>1. job'[v] = job[v] /\ pc[v] \in Working /\ token'[v] = token[v]
        BY <1>2, WorkerFrame
    <2>2. pc[v] # "idle" /\ pc[v] # "claiming"
        BY <2>1 DEF Working, Unlocked, Guarded
    <2>3. job[v] \in Messages /\ Res(v) \in Resources /\ Res(v)' = Res(v)
        BY <2>1, <2>2, ResInResources DEF Res
    <2>4. SameGrant(Res(v))
        \* A new grant would have another owner than v.
        <3>1. exec'[Res(v)].owner = v
            BY <2>1, <2>3 DEF Owns
        <3> QED  BY <2>2, <2>3, <3>1, GrantChanges DEF NewGrant
    <2>5. Owns(v)
        BY <2>1, <2>3, <2>4 DEF Owns, SameGrant
    <2>6. job[v] \notin inbox
        BY <2>1, <2>5 DEF CurrentOwnerHasWork
    <2>7. ASSUME NEW w \in Workers, Committed(w), job[w] = job[v]
          PROVE  FALSE
        <3>1. Owns(w) /\ Res(w) = Res(v)
            BY <2>7 DEF Committed, GuardHoldsToCommit, Guarded, Res
        <3>2. w = v
            BY <2>5, <3>1 DEF Owns
        <3> QED  BY <2>7, <3>2 DEF Committed, Working, Unlocked, Guarded
    <2> QED  BY <2>1, <2>6, <2>7, WritesFrame DEF Committed
<1> QED  BY <1>1, <1>2

LEMMA StepEffects ==
    ASSUME TypeOK, Jobs, GuardHoldsToCommit, CurrentOwnerHasWork,
           EffectsMatchReceipts, [Next]_vars
    PROVE  EffectsMatchReceipts'
<1>1. CASE inbox' = inbox /\ applied' = applied
    BY <1>1 DEF EffectsMatchReceipts
<1>2. ASSUME NEW w \in Workers, Committed(w)
      PROVE  EffectsMatchReceipts'
    <2>1. job[w] \in Messages
        BY <1>2 DEF Committed, Jobs
    <2>2. job[w] \notin inbox
        BY <1>2 DEF Committed, GuardHoldsToCommit, CurrentOwnerHasWork, Guarded, Working
    <2>3. applied[job[w]] = 0
        BY <2>1, <2>2 DEF EffectsMatchReceipts
    <2> QED  BY <1>2, <2>1, <2>2, <2>3 DEF Committed, EffectsMatchReceipts, TypeOK
<1> QED  BY <1>1, <1>2, WritesFrame

-----------------------------------------------------------------------------
(* Epochs: writes and releases never run ahead of the row.                 *)

\* Either the step ends the newest epoch of r, or it frees none, and a lease
\* it leaves unreleased was so before or belongs to a new epoch.
LEMMA FreedFrame ==
    ASSUME TypeOK, Jobs, [Next]_vars, NEW r \in Resources
    PROVE  \/ freed'[r] = exec'[r].epoch /\ exec'[r].lease = "released"
           \/ /\ freed'[r] = freed[r]
              /\ \/ exec'[r].lease = "released"
                 \/ exec[r].lease # "released"
                 \/ exec'[r].epoch = exec[r].epoch + 1
<1> USE DEF history, environment, TypeOK
<1>1. CASE exec' = exec /\ freed' = freed
    BY <1>1
<1>2. ASSUME NEW s \in Resources, NEW from, NEW to, "released" \notin from,
             SetLease(s, from, to)
      PROVE  freed'[r] = freed[r] /\ (exec'[r].lease = "released" \/ exec[r].lease # "released")
    <2>1. exec'[r] = IF r = s THEN [exec[r] EXCEPT !.lease = to] ELSE exec[r]
        BY <1>2 DEF SetLease
    <2> QED  BY <1>2, <2>1 DEF SetLease
<1>3. ASSUME NEW w \in Workers, Claim(w)
      PROVE  \/ exec' = exec /\ freed' = freed
             \/ /\ exec' = NewRow(w, "fresh") /\ freed' = freed
                /\ Res(w) \in Resources
             \/ /\ exec' = NewRow(w, "released") /\ Res(w) \in Resources
                /\ freed' = [freed EXCEPT ![Res(w)] = exec[Res(w)].epoch + 1]
    BY <1>3, ResInResources DEF Claim, ClaimBusy, ClaimUpsert, ClaimGrant, ClaimDone
<1>4. ASSUME NEW w \in Workers, NEW lease, exec' = NewRow(w, lease), Res(w) \in Resources
      PROVE  IF r = Res(w) THEN exec'[r].lease = lease /\ exec'[r].epoch = exec[r].epoch + 1
                           ELSE exec'[r] = exec[r]
    BY <1>4 DEF NewRow
<1>5. ASSUME NEW w \in Workers, Claim(w)
      PROVE  \/ freed'[r] = exec'[r].epoch /\ exec'[r].lease = "released"
             \/ /\ freed'[r] = freed[r]
                /\ \/ exec'[r].lease = "released"
                   \/ exec[r].lease # "released"
                   \/ exec'[r].epoch = exec[r].epoch + 1
    BY <1>3, <1>4, <1>5
<1>6. ASSUME NEW w \in Workers, Release(w)
      PROVE  \/ exec' = exec /\ freed' = freed
             \/ IF r = Res(w) THEN freed'[r] = exec'[r].epoch /\ exec'[r].lease = "released"
                              ELSE freed'[r] = freed[r] /\ exec'[r] = exec[r]
    <2>1. Res(w) \in Resources
        BY <1>6, ResInResources DEF Release
    <2>2. CASE Owns(w)
        <3>1. /\ exec' = [exec EXCEPT ![Res(w)].lease = "released"]
              /\ freed' = [freed EXCEPT ![Res(w)] = exec[Res(w)].epoch]
            BY <1>6, <2>2 DEF Release, Owns
        <3>2. exec'[r] = IF r = Res(w) THEN [exec[r] EXCEPT !.lease = "released"] ELSE exec[r]
            BY <2>1, <3>1
        <3>3. exec[Res(w)] \in Execution
            BY <2>1
        <3> QED  BY <2>1, <3>1, <3>2, <3>3 DEF Execution
    <2>3. CASE ~Owns(w)
        BY <1>6, <2>3 DEF Release
    <2> QED  BY <2>2, <2>3
<1>7. ASSUME NEW w \in Workers, Renew(w)
      PROVE  freed'[r] = freed[r] /\ (exec'[r].lease = "released" \/ exec[r].lease # "released")
    <2>1. Res(w) \in Resources
        BY <1>7, ResInResources DEF Renew, Working, Unlocked, Guarded
    <2>2. exec'[r] = IF r = Res(w) THEN [exec[r] EXCEPT !.lease = "fresh"] ELSE exec[r]
        BY <1>7, <2>1 DEF Renew
    <2> QED  BY <1>7, <2>1, <2>2 DEF Renew
<1>8. ASSUME NEW w \in Workers,
             (\E m \in Messages : Consume(w, m)) \/ Execute(w) \/ RenewFails(w)
             \/ WorkFails(w) \/ Crash(w)
      PROVE  exec' = exec /\ freed' = freed
    BY <1>8
    DEF Consume, Execute, AssertCurrent, AssertFails, GuardProgress, CommitProgress,
        InsertReceipt, GuardReceipt, GuardFails, CommitReceipt, RenewFails, WorkFails,
        Crash, EndWork
<1>9. ASSUME NEW s \in Resources, Age(s) \/ Lapse(s) \/ Stall(s) \/ ClockBack(s)
      PROVE  freed'[r] = freed[r] /\ (exec'[r].lease = "released" \/ exec[r].lease # "released")
    BY <1>2, <1>9 DEF Age, Lapse, Stall, ClockBack
<1>10. CASE Environment \/ UNCHANGED vars
    BY <1>10 DEF Environment, vars
<1> QED
    BY <1>1, <1>5, <1>6, <1>7, <1>8, <1>9, <1>10 DEF Next, Heartbeat

LEMMA StepEpochs ==
    ASSUME TypeOK, Jobs, Epochs, GuardHoldsToCommit, [Next]_vars
    PROVE  Epochs'
<1> SUFFICES ASSUME NEW r \in Resources
             PROVE  /\ fence'[r] <= exec'[r].epoch
                    /\ freed'[r] <= exec'[r].epoch
                    /\ exec'[r].lease # "released" => exec'[r].epoch > freed'[r]
    BY DEF Epochs
<1>1. fence[r] \in Nat /\ freed[r] \in Nat /\ exec[r].epoch \in Nat
    BY RowFields DEF TypeOK
<1>2. exec'[r].epoch = exec[r].epoch \/ exec'[r].epoch = exec[r].epoch + 1
    BY GrantChanges DEF SameGrant, NewGrant
<1>3. fence'[r] <= exec'[r].epoch
    <2>1. CASE fence' = fence
        BY <1>1, <1>2, <2>1 DEF Epochs
    <2>2. ASSUME NEW w \in Workers, pc[w] \in Guarded, exec' = exec,
                 fence' = [fence EXCEPT ![Res(w)] = token[w]]
          PROVE  fence'[r] <= exec'[r].epoch
        <3>1. Owns(w)
            BY <2>2 DEF GuardHoldsToCommit
        <3> QED  BY <1>1, <2>2, <3>1 DEF Owns, Epochs, TypeOK
    <2> QED  BY <2>1, <2>2, WritesFrame
<1>4. /\ freed'[r] <= exec'[r].epoch
      /\ exec'[r].lease # "released" => exec'[r].epoch > freed'[r]
    BY <1>1, <1>2, FreedFrame DEF Epochs
<1> QED  BY <1>3, <1>4

-----------------------------------------------------------------------------
(* The inductive invariant and what follows from it.                       *)

LEMMA InitInv == Init => Inv
<1> SUFFICES ASSUME Init
             PROVE  Inv
    OBVIOUS
<1>1. TypeOK /\ Jobs
    BY InitTypes
<1>2. Locks /\ GuardHoldsToCommit /\ CurrentOwnerHasWork
    BY NoneAssumption
    DEF Init, Locks, LockHolders, Guarded, Unlocked, Working, GuardHoldsToCommit,
        CurrentOwnerHasWork
<1>3. Epochs /\ EffectsMatchReceipts
    BY DEF Init, Epochs, EffectsMatchReceipts
<1> QED  BY <1>1, <1>2, <1>3 DEF Inv

LEMMA StepInv == Inv /\ [Next]_vars => Inv'
BY StepTypes, StepLocks, StepEpochs, StepGuard, StepHasWork, StepEffects DEF Inv

LEMMA Invariance == Spec => []Inv
BY InitInv, StepInv, PTL DEF Spec

\* The effects of every message commit at most once and only with its
\* receipt (CommitReceipt), whatever hints, crashes and clock steps occur.
THEOREM EffectsOnce == Spec => []EffectsMatchReceipts
<1>1. Inv => EffectsMatchReceipts
    BY DEF Inv
<1> QED  BY <1>1, Invariance, PTL

\* The before_commit guard fences: what commits after it is the current
\* owner's, because the row lock keeps claims out until COMMIT.
THEOREM GuardFences == Spec => []GuardHoldsToCommit
<1>1. Inv => GuardHoldsToCommit
    BY DEF Inv
<1> QED  BY <1>1, Invariance, PTL

\* The second look at the inbox, under the row lock, keeps a completed
\* message away from every worker that could still commit.
THEOREM OwnersHaveWork == Spec => []CurrentOwnerHasWork
<1>1. Inv => CurrentOwnerHasWork
    BY DEF Inv
<1> QED  BY <1>1, Invariance, PTL

\* -infinity is a state, not a deadline: release cannot be undone by a clock.
THEOREM ReleaseIsFinal == Spec => []ReleasedStaysReleased
<1>1. Inv => ReleasedStaysReleased
    BY DEF Inv, Epochs, ReleasedStaysReleased, Live
<1> QED  BY <1>1, Invariance, PTL

\* Writes of a resource commit in epoch order, and epochs only grow.
THEOREM WritesOrdered == Spec => WritesInEpochOrder
<1>1. ASSUME Inv, [Next]_vars, NEW r \in Resources
      PROVE  fence'[r] >= fence[r] /\ exec'[r].epoch >= exec[r].epoch
    <2>1. fence[r] \in Nat /\ exec[r].epoch \in Nat /\ fence[r] <= exec[r].epoch
        BY <1>1, RowFields DEF Inv, TypeOK, Epochs
    <2>2. exec'[r].epoch >= exec[r].epoch
        BY <1>1, <2>1, GrantChanges DEF Inv, SameGrant, NewGrant
    <2>3. ASSUME NEW w \in Workers, pc[w] \in Guarded,
                 fence' = [fence EXCEPT ![Res(w)] = token[w]]
          PROVE  fence'[r] >= fence[r]
        <3>1. Owns(w)
            BY <1>1, <2>3 DEF Inv, GuardHoldsToCommit
        <3> QED  BY <1>1, <2>1, <2>3, <3>1 DEF Owns, Inv, TypeOK
    <2>4. fence'[r] >= fence[r]
        BY <1>1, <2>1, <2>3, WritesFrame DEF Inv
    <2> QED  BY <2>2, <2>4
<1>2. Inv /\ [Next]_vars =>
          [\A r \in Resources : /\ fence'[r] >= fence[r]
                                /\ exec'[r].epoch >= exec[r].epoch]_vars
    BY <1>1
<1> QED  BY <1>2, Invariance, PTL DEF Spec, WritesInEpochOrder

\* Only the worker a live lease was granted to can release it: release names
\* owner and epoch, so a deposed worker's late one updates no row.
THEOREM ReleaseByOwner == Spec => OnlyOwnersRelease
<1>1. ASSUME Inv, [Next]_vars, NEW r \in Resources, Live(r),
             exec' = [exec EXCEPT ![r].lease = "released"]
      PROVE  pc[exec[r].owner] = "ending" /\ token[exec[r].owner] = exec[r].epoch
    <2> TypeOK /\ Jobs
        BY <1>1 DEF Inv
    <2> exec'[r].lease = "released" /\ exec'[r].epoch = exec[r].epoch /\ exec[r].epoch \in Nat
        BY <1>1 DEF TypeOK, Execution
    <2>1. exec' # exec
        BY <1>1 DEF Live
    <2>2. ASSUME NEW s \in Resources, NEW lease \in {"fresh", "aging", "lapsed"},
                 exec' = [exec EXCEPT ![s].lease = lease]
          PROVE  FALSE
        <3>1. exec'[s].lease = lease /\ exec'[r].lease = "released" /\ (r # s => exec'[r] = exec[r])
            BY <2>2 DEF TypeOK, Execution
        <3> QED  BY <1>1, <3>1 DEF Live
    <2>3. ASSUME NEW w \in Workers, NEW lease, pc[w] # "idle", exec' = NewRow(w, lease)
          PROVE  FALSE
        <3>1. Res(w) \in Resources
            BY <2>3, ResInResources
        <3>2. exec[Res(w)].epoch \in Nat
            BY <3>1, RowFields
        <3>3. exec'[Res(w)].epoch = exec[Res(w)].epoch + 1
            BY <2>3, <3>1 DEF NewRow, TypeOK
        <3>4. r # Res(w) => exec'[r] = exec[r]
            BY <2>3, <3>1 DEF NewRow, TypeOK
        <3> QED  BY <1>1, <3>2, <3>3, <3>4 DEF Live
    <2>4. ASSUME NEW w \in Workers, Release(w)
          PROVE  pc[exec[r].owner] = "ending" /\ token[exec[r].owner] = exec[r].epoch
        <3>1. Res(w) \in Resources /\ pc[w] = "ending"
            BY <2>4, ResInResources DEF Release
        <3>2. Owns(w) /\ exec' = [exec EXCEPT ![Res(w)].lease = "released"]
            BY <2>1, <2>4 DEF Release
        <3>3. r # Res(w) => exec'[r] = exec[r]
            BY <3>1, <3>2 DEF TypeOK
        <3>4. r = Res(w)
            BY <1>1, <3>3 DEF Live
        <3> QED  BY <3>1, <3>2, <3>4 DEF Owns
    <2>5. ASSUME NEW w \in Workers, Claim(w) \/ Renew(w)
          PROVE  FALSE
        <3>1. pc[w] # "idle"
            BY <2>5 DEF Claim, ClaimBusy, ClaimUpsert, ClaimGrant, ClaimDone, Renew,
                        Working, Unlocked, Guarded
        <3>2. Res(w) \in Resources
            BY <3>1, ResInResources
        <3> QED
            BY <2>1, <2>2, <2>3, <2>5, <3>1, <3>2
            DEF Claim, ClaimBusy, ClaimUpsert, ClaimGrant, ClaimDone, Renew
    <2>6. ASSUME NEW w \in Workers,
                 (\E m \in Messages : Consume(w, m)) \/ Execute(w) \/ RenewFails(w)
                 \/ WorkFails(w) \/ Crash(w)
          PROVE  FALSE
        BY <2>1, <2>6
        DEF Consume, Execute, AssertCurrent, AssertFails, GuardProgress, CommitProgress,
            InsertReceipt, GuardReceipt, GuardFails, CommitReceipt, RenewFails, WorkFails,
            Crash, EndWork
    <2>7. ASSUME NEW s \in Resources, Age(s) \/ Lapse(s) \/ Stall(s) \/ ClockBack(s)
          PROVE  FALSE
        BY <2>2, <2>7 DEF Age, Lapse, Stall, ClockBack, SetLease
    <2>8. CASE Environment \/ UNCHANGED vars
        BY <2>1, <2>8 DEF Environment, vars
    <2> QED
        BY <1>1, <2>4, <2>5, <2>6, <2>7, <2>8 DEF Next, Heartbeat
<1>2. Inv /\ [Next]_vars =>
          [\A r \in Resources :
              Live(r) /\ exec' = [exec EXCEPT ![r].lease = "released"]
              => pc[exec[r].owner] = "ending" /\ token[exec[r].owner] = exec[r].epoch]_vars
    BY <1>1
<1> QED  BY <1>2, Invariance, PTL DEF Spec, OnlyOwnersRelease

-----------------------------------------------------------------------------
(* The worker protocol implements FencedEffects.                           *)

term == [r \in Resources |-> exec[r].epoch]
fencedVars == <<term, fence, inbox, applied>>

LEMMA InitRefines == Init => Fenced!FencedInit
BY DEF Init, Fenced!FencedInit

\* A step that changes no epoch, write, receipt or effect is a stutter.
LEMMA TermKept ==
    ASSUME TypeOK, NEW r \in Resources, NEW lease, exec' = [exec EXCEPT ![r].lease = lease]
    PROVE  term' = term
<1>1. ASSUME NEW s \in Resources
      PROVE  exec'[s].epoch = exec[s].epoch
    <2>1. exec[s] \in Execution /\ exec'[s] = IF s = r THEN [exec[s] EXCEPT !.lease = lease] ELSE exec[s]
        BY DEF TypeOK
    <2> QED  BY <2>1 DEF Execution
<1> QED  BY <1>1 DEF term

\* A committed claim hands out the next epoch, even when it finds the
\* message done.
LEMMA ClaimRefines ==
    ASSUME TypeOK, Jobs, NEW w \in Workers, Claim(w)
    PROVE  Fenced!FencedNext \/ fencedVars' = fencedVars
<1> USE DEF history, environment
<1>1. Res(w) \in Resources
    BY ResInResources DEF Claim, ClaimBusy, ClaimUpsert, ClaimGrant, ClaimDone
<1>2. ASSUME NEW lease, exec' = NewRow(w, lease)
      PROVE  term' = [term EXCEPT ![Res(w)] = @ + 1]
    <2>1. ASSUME NEW s \in Resources
          PROVE  exec'[s].epoch = IF s = Res(w) THEN exec[s].epoch + 1 ELSE exec[s].epoch
        BY <1>1, <1>2 DEF NewRow, TypeOK
    <2> QED  BY <1>1, <2>1 DEF term
<1>3. CASE ClaimBusy(w) \/ ClaimUpsert(w)
    BY <1>3 DEF ClaimBusy, ClaimUpsert, fencedVars, term
<1>4. CASE ClaimGrant(w) \/ ClaimDone(w)
    <2>1. term' = [term EXCEPT ![Res(w)] = @ + 1] /\ UNCHANGED <<fence, inbox, applied>>
        BY <1>2, <1>4 DEF ClaimGrant, ClaimDone
    <2>2. PICK r \in Resources : r = Res(w)
        BY <1>1
    <2>3. Fenced!NewTerm(r)
        BY <2>1, <2>2 DEF Fenced!NewTerm, term
    <2> QED  BY <2>3 DEF Fenced!FencedNext
<1> QED  BY <1>3, <1>4 DEF Claim

\* A guarded commit writes in the current term, by GuardHoldsToCommit.
LEMMA CommitRefines ==
    ASSUME Inv, NEW w \in Workers, CommitProgress(w) \/ CommitReceipt(w)
    PROVE  Fenced!FencedNext
<1>1. job[w] \in Messages /\ Res(w) \in Resources /\ ResourceOf[job[w]] = Res(w)
    BY ResInResources DEF Inv, CommitProgress, CommitReceipt, Res
<1>2. Owns(w) /\ job[w] \notin inbox
    BY DEF Inv, CommitProgress, CommitReceipt, GuardHoldsToCommit, CurrentOwnerHasWork,
           Guarded, Working
<1>3. /\ fence' = [fence EXCEPT ![Res(w)] = term[Res(w)]]
      /\ term' = term
    BY <1>1, <1>2 DEF CommitProgress, CommitReceipt, Owns, term
<1>4. CASE CommitProgress(w)
    <2>1. PICK r \in Resources : r = Res(w)
        BY <1>1
    <2>2. Fenced!WriteIn(r)
        BY <1>3, <1>4, <2>1 DEF CommitProgress, Fenced!WriteIn, term
    <2> QED  BY <2>2 DEF Fenced!FencedNext
<1>5. CASE CommitReceipt(w)
    <2>1. PICK m \in Messages : m = job[w]
        BY <1>1
    <2>2. Fenced!Complete(m)
        BY <1>1, <1>2, <1>3, <1>5, <2>1 DEF CommitReceipt, Fenced!Complete, term
    <2> QED  BY <2>2 DEF Fenced!FencedNext
<1> QED  BY <1>4, <1>5

LEMMA StepRefines ==
    ASSUME Inv, [Next]_vars
    PROVE  Fenced!FencedNext \/ fencedVars' = fencedVars
<1> TypeOK /\ Jobs
    BY DEF Inv
<1> USE DEF fencedVars
<1>1. ASSUME NEW w \in Workers, Renew(w) \/ Release(w)
      PROVE  fencedVars' = fencedVars
    <2>1. Res(w) \in Resources
        BY <1>1, ResInResources DEF Renew, Release, Working, Unlocked, Guarded
    <2>2. exec' = exec \/ \E lease \in Leases : exec' = [exec EXCEPT ![Res(w)].lease = lease]
        BY <1>1 DEF Renew, Release, Leases
    <2>3. term' = term
        BY <2>1, <2>2, TermKept DEF term
    <2> QED  BY <1>1, <2>3 DEF Renew, Release, history
<1>2. ASSUME NEW w \in Workers,
             \/ (\E m \in Messages : Consume(w, m)) \/ RenewFails(w) \/ WorkFails(w) \/ Crash(w)
             \/ Execute(w) /\ ~CommitProgress(w) /\ ~CommitReceipt(w)
      PROVE  fencedVars' = fencedVars
    BY <1>2
    DEF Consume, Execute, AssertCurrent, AssertFails, GuardProgress, InsertReceipt,
        GuardReceipt, GuardFails, RenewFails, WorkFails, Crash, EndWork, history, term
<1>3. ASSUME NEW r \in Resources, Age(r) \/ Lapse(r) \/ Stall(r) \/ ClockBack(r)
      PROVE  fencedVars' = fencedVars
    BY <1>3, TermKept DEF Age, Lapse, Stall, ClockBack, SetLease, history
<1>4. CASE Environment \/ UNCHANGED vars
    BY <1>4 DEF Environment, vars, history, term
<1> QED
    BY <1>1, <1>2, <1>3, <1>4, ClaimRefines, CommitRefines DEF Next, Heartbeat, Execute

\* The consumer side keeps the abstract promise: effects once, writes by the
\* newest term only.
THEOREM Refinement == Spec => ImplementsFencedEffects
<1>1. Inv /\ [Next]_vars => [Fenced!FencedNext]_(Fenced!fencedVars)
    BY StepRefines DEF fencedVars, term, Fenced!fencedVars
<1> QED
    BY <1>1, InitRefines, Invariance, PTL DEF Spec, ImplementsFencedEffects, Fenced!FencedSpec

-----------------------------------------------------------------------------
(* The composed system.                                                    *)

\* What the workers rely on: pumps dead-letter nothing but messages.
PumpTypes ==
    /\ dead \subseteq Messages
    /\ batch \in [Pumps -> D!Batch]
    /\ pumpPc \in [Pumps -> D!PCs]
    /\ snapshot \in [Pumps -> SUBSET Messages]
    /\ held \in [Pumps -> Messages \union {None}]
    /\ \A p \in Pumps : pumpPc[p] \in {"publish", "finish"} => held[p] \in Messages

LEMMA PumpTypesInit == SystemInit => PumpTypes
BY DEF SystemInit, PumpTypes, D!Init, D!NoBatch, D!Batch, D!PCs

LEMMA ReconcileTypes ==
    ASSUME PumpTypes, NEW p \in Pumps,
           D!StartPump(p) \/ D!Reconcile(p) \/ D!Crash(p)
    PROVE  PumpTypes'
<1>1. CASE D!StartPump(p)
    BY <1>1 DEF PumpTypes, D!StartPump, D!Goto, D!consumers, D!PCs
<1>2. CASE D!ScanExhausted(p)
    BY <1>2 DEF PumpTypes, D!ScanExhausted, D!Goto, D!consumers, D!PCs, D!Batch
<1>3. CASE D!ScanUnacknowledged(p)
    BY <1>3 DEF PumpTypes, D!ScanUnacknowledged, D!Goto, D!consumers, D!PCs, D!Batch
<1>4. CASE D!CommitReconcile(p)
    BY <1>4 DEF PumpTypes, D!CommitReconcile, D!Goto, D!consumers, D!PCs, D!Batch, D!NoBatch
<1>5. CASE D!Crash(p)
    BY <1>5 DEF PumpTypes, D!Crash, D!Goto, D!Forget, D!consumers, D!PCs, D!Batch, D!NoBatch
<1> QED  BY <1>1, <1>2, <1>3, <1>4, <1>5 DEF D!Reconcile

LEMMA DeliverTypes ==
    ASSUME PumpTypes, NEW p \in Pumps, D!Deliver(p)
    PROVE  PumpTypes'
<1>1. CASE D!SnapshotClaim(p)
    BY <1>1 DEF PumpTypes, D!SnapshotClaim, D!Goto, D!consumers, D!PCs
<1>2. CASE D!ClaimDelivery(p)
    <2>1. PICK m \in Messages : held' = [held EXCEPT ![p] = m]
        BY <1>2 DEF PumpTypes, D!ClaimDelivery, D!Candidates
    <2> QED  BY <1>2, <2>1 DEF PumpTypes, D!ClaimDelivery, D!Goto, D!consumers, D!PCs
<1>3. CASE D!PumpReturns(p)
    BY <1>3 DEF PumpTypes, D!PumpReturns, D!Goto, D!consumers, D!PCs
<1>4. CASE D!Publish(p)
    BY <1>4 DEF PumpTypes, D!Publish, D!Goto, D!consumers, D!PCs
<1>5. CASE D!FinishDelivery(p)
    BY <1>5 DEF PumpTypes, D!FinishDelivery, D!Goto, D!Forget, D!consumers, D!PCs
<1>6. CASE D!FinishTooLate(p)
    BY <1>6 DEF PumpTypes, D!FinishTooLate, D!Goto, D!Forget, D!consumers, D!PCs
<1> QED  BY <1>1, <1>2, <1>3, <1>4, <1>5, <1>6 DEF D!Deliver, D!Proceed

LEMMA SystemTypes == PumpTypes /\ [SystemNext]_allVars => PumpTypes'
<1> SUFFICES ASSUME PumpTypes, [SystemNext]_allVars
             PROVE  PumpTypes'
    OBVIOUS
<1>1. CASE UNCHANGED <<dead, batch, pumpPc, snapshot, held>>
    BY <1>1 DEF PumpTypes
<1>2. CASE OutboxStep
    <2>1. ASSUME NEW m \in Messages, D!Replay(m)
          PROVE  PumpTypes'
        BY <2>1 DEF PumpTypes, D!Replay, D!pumpVars
    <2>2. ASSUME NEW m \in Messages,
                 \/ D!Enqueue(m) \/ D!Expire(m) \/ D!Overrun(m)
                 \/ D!ClockBack(m) \/ D!BecomeDue(m)
          PROVE  UNCHANGED <<dead, batch, pumpPc, snapshot, held>>
        BY <2>2 DEF D!Enqueue, D!Expire, D!Overrun, D!ClockBack, D!Elapse, D!BecomeDue, D!pumpVars
    <2> QED
        BY <1>1, <1>2, <2>1, <2>2, ReconcileTypes, DeliverTypes DEF OutboxStep
<1>3. ASSUME NEW w \in Workers, NEW m \in Messages, TakeHint(w, m) \/ DropHint(w, m)
      PROVE  UNCHANGED <<dead, batch, pumpPc, snapshot, held>>
    BY <1>3 DEF TakeHint, DropHint, Consume, environment, outboxVars
<1>4. ASSUME NEW w \in Workers, WorkerStep(w)
      PROVE  UNCHANGED <<dead, batch, pumpPc, snapshot, held>>
    BY <1>4
    DEF WorkerStep, Claim, Execute, Heartbeat, ClaimBusy, ClaimUpsert, ClaimGrant, ClaimDone,
        AssertCurrent, AssertFails, GuardProgress, CommitProgress, InsertReceipt, GuardReceipt,
        GuardFails, CommitReceipt, Renew, RenewFails, WorkFails, Release, EndWork,
        environment, outboxVars
<1>5. ASSUME NEW w \in Workers, Redeliver(w) \/ WorkerCrash(w)
      PROVE  UNCHANGED <<dead, batch, pumpPc, snapshot, held>>
    BY <1>5 DEF Redeliver, WorkerCrash, Crash, environment, outboxVars
<1>6. ASSUME NEW r \in Resources, LeaseStep(r)
      PROVE  UNCHANGED <<dead, batch, pumpPc, snapshot, held>>
    BY <1>6 DEF LeaseStep, Age, Lapse, Stall, ClockBack, SetLease, environment, outboxVars
<1>7. CASE UNCHANGED allVars
    BY <1>1, <1>7 DEF allVars, outboxVars
<1> QED  BY <1>1, <1>2, <1>3, <1>4, <1>5, <1>6, <1>7 DEF SystemNext

-----------------------------------------------------------------------------
(* Every step of the system is a step of the workers, or one they expect.  *)

LEMMA OutboxIsEnvironment ==
    ASSUME PumpTypes, PumpTypes', OutboxStep
    PROVE  Environment
<1>1. UNCHANGED <<exec, rowLock, inbox, inboxLock, pc, job, token, history>>
    BY DEF OutboxStep, workerVars, history
<1>2. dead' \in SUBSET Messages
    BY DEF PumpTypes
<1>3. (UNCHANGED <<due, faults>>) \/ (UNCHANGED due /\ Fault)
      \/ (\E m \in Messages : due' = due \union {m} /\ UNCHANGED faults)
    <2>1. ASSUME NEW p \in Pumps, D!StartPump(p) \/ D!Reconcile(p) \/ D!Crash(p)
          PROVE  UNCHANGED <<due, faults>> \/ (UNCHANGED due /\ Fault)
        BY <2>1 DEF D!StartPump, D!Reconcile, D!ScanExhausted, D!ScanUnacknowledged,
            D!CommitReconcile, D!Crash, D!consumers, D!Fault, Fault
    <2>2. ASSUME NEW p \in Pumps, D!Deliver(p)
          PROVE  UNCHANGED <<due, faults>>
        BY <2>2 DEF D!Deliver, D!Proceed, D!SnapshotClaim, D!ClaimDelivery, D!PumpReturns,
            D!Publish, D!FinishDelivery, D!FinishTooLate, D!consumers
    <2>3. ASSUME NEW m \in Messages,
                 D!Enqueue(m) \/ D!Replay(m) \/ D!Expire(m) \/ D!Overrun(m) \/ D!ClockBack(m)
          PROVE  UNCHANGED <<due, faults>> \/ (UNCHANGED due /\ Fault)
        BY <2>3 DEF D!Enqueue, D!Replay, D!Expire, D!Overrun, D!ClockBack, D!Elapse,
            D!consumers, D!Fault, Fault
    <2>4. ASSUME NEW m \in Messages, D!BecomeDue(m)
          PROVE  due' = due \union {m} /\ UNCHANGED faults
        BY <2>4 DEF D!BecomeDue
    <2> QED  BY <2>1, <2>2, <2>3, <2>4 DEF OutboxStep
<1> QED  BY <1>1, <1>2, <1>3 DEF Environment

LEMMA SystemStepIsWorkerStep == PumpTypes /\ PumpTypes' /\ [SystemNext]_allVars => [Next]_vars
<1> SUFFICES ASSUME PumpTypes, PumpTypes', [SystemNext]_allVars
             PROVE  [Next]_vars
    OBVIOUS
<1>1. CASE OutboxStep
    BY <1>1, OutboxIsEnvironment DEF Next
<1>2. ASSUME NEW w \in Workers, NEW m \in Messages, TakeHint(w, m)
      PROVE  Next
    BY <1>2 DEF TakeHint, Next
<1>3. ASSUME NEW w \in Workers, NEW m \in Messages, DropHint(w, m)
      PROVE  UNCHANGED vars
    BY <1>3 DEF DropHint, workerVars, vars
<1>4. ASSUME NEW w \in Workers, WorkerStep(w) \/ WorkerCrash(w)
      PROVE  Next
    BY <1>4 DEF WorkerStep, WorkerCrash, Next
<1>5. ASSUME NEW w \in Workers, Redeliver(w)
      PROVE  Environment
    BY <1>5 DEF Redeliver, workerVars, history, Environment, PumpTypes
<1>6. ASSUME NEW r \in Resources, LeaseStep(r)
      PROVE  Next
    BY <1>6 DEF LeaseStep, Next
<1>7. CASE UNCHANGED allVars
    BY <1>7 DEF allVars, workerVars, vars
<1> QED  BY <1>1, <1>2, <1>3, <1>4, <1>5, <1>6, <1>7 DEF SystemNext, Next

\* The workers of the composed system keep to TaskExecution, so what pumps,
\* replays and redelivered hints do is covered by its Environment.
THEOREM WorkersKeepProtocol == System => WorkersFollowProtocol
<1>1. SystemInit => Init /\ PumpTypes
    BY PumpTypesInit DEF SystemInit
<1>2. System => []PumpTypes
    BY <1>1, SystemTypes, PTL DEF System
<1> QED
    BY <1>1, <1>2, SystemStepIsWorkerStep, PTL DEF System, WorkersFollowProtocol, Spec

\* End to end, effects and receipts still come exactly once and together.
THEOREM EffectsOnceEndToEnd == System => []EffectsMatchReceipts
BY WorkersKeepProtocol, EffectsOnce, PTL DEF WorkersFollowProtocol

-----------------------------------------------------------------------------
(* Every step of the system is a step of the pumps, or one they expect.    *)

\* A row somebody ever claimed names a message.
ClaimedRows == \A r \in Resources : exec[r].epoch > 0 => exec[r].msg \in Messages

LEMMA ClaimedRowsInvariant == Spec => []ClaimedRows
<1>1. Init => ClaimedRows
    BY DEF Init, ClaimedRows
<1>2. Inv /\ ClaimedRows /\ [Next]_vars => ClaimedRows'
    <2> SUFFICES ASSUME Inv, ClaimedRows, [Next]_vars, NEW r \in Resources
                 PROVE  (exec[r].epoch > 0 => exec[r].msg \in Messages)'
        BY DEF ClaimedRows
    <2>1. TypeOK /\ Jobs
        BY DEF Inv
    <2>2. CASE SameGrant(r)
        BY <2>2 DEF SameGrant, ClaimedRows
    <2>3. ASSUME NEW w \in Workers, NewGrant(w, r, "granted") \/ NewGrant(w, r, "idle")
          PROVE  exec'[r].msg \in Messages
        BY <2>1, <2>3 DEF NewGrant, Jobs
    <2> QED  BY <2>1, <2>2, <2>3, GrantChanges
<1> QED  BY <1>1, <1>2, Invariance, PTL DEF Spec

\* The lease of a row ends, or passes to a message.
OneExecution ==
    \/ UNCHANGED Executing
    \/ \E m, n \in Messages :
          Executing' \in {Executing \ {n}, (Executing \ {n}) \union {m}}

LEMMA OneRowOneExecution ==
    ASSUME TypeOK, NEW r \in Resources, NEW row \in Execution,
           exec' = [exec EXCEPT ![r] = row]
    PROVE  OneExecution
<1> DEFINE old == exec[r].msg
           new == row.msg
<1>1. \A m \in Messages : ResourceOf[m] \in Resources
    BY ResourceAssumption
<1>2. \A m \in Messages \ {old, new} : m \in Executing' <=> m \in Executing
    BY <1>1 DEF Executing, Live, TypeOK
<1>3. Executing \subseteq Messages /\ Executing' \subseteq Messages
    BY DEF Executing
<1>4. CASE old = new \/ old \notin Messages \/ new \notin Messages
    <2>1. CASE new \in Messages
        <3>1. Executing' = Executing \ {new} \/ Executing' = (Executing \ {new}) \union {new}
            BY <1>2, <1>3, <1>4, <2>1
        <3> QED  BY <2>1, <3>1 DEF OneExecution
    <2>2. CASE new \notin Messages /\ old \in Messages
        <3>1. Executing' = Executing \ {old} \/ Executing' = (Executing \ {old}) \union {old}
            BY <1>2, <1>3, <2>2
        <3> QED  BY <2>2, <3>1 DEF OneExecution
    <2>3. CASE new \notin Messages /\ old \notin Messages
        <3>1. Executing' = Executing
            BY <1>2, <1>3, <2>3
        <3> QED  BY <3>1 DEF OneExecution
    <2> QED  BY <2>1, <2>2, <2>3
<1>5. CASE old # new /\ old \in Messages /\ new \in Messages
    <2>1. old \in Executing' => old \in Executing
        BY <1>1, <1>5 DEF Executing, Live, TypeOK
    <2>2. new \in Executing => new \in Executing'
        BY <1>1, <1>5 DEF Executing, Live, TypeOK
    <2>3. CASE new \in Executing'
        <3>1. CASE old \in Executing'
            <4>1. Executing' = (Executing \ {new}) \union {new}
                BY <1>2, <1>3, <2>1, <2>3, <3>1
            <4> QED  BY <1>5, <4>1 DEF OneExecution
        <3>2. CASE old \notin Executing'
            <4>1. Executing' = (Executing \ {old}) \union {new}
                BY <1>2, <1>3, <1>5, <2>3, <3>2
            <4> QED  BY <1>5, <4>1 DEF OneExecution
        <3> QED  BY <3>1, <3>2
    <2>4. CASE new \notin Executing'
        <3>1. Executing' = Executing \ {old} \/ Executing' = (Executing \ {old}) \union {old}
            BY <1>2, <1>3, <2>1, <2>2, <2>4
        <3> QED  BY <1>5, <3>1 DEF OneExecution
    <2> QED  BY <2>3, <2>4
<1> QED  BY <1>4, <1>5

LEMMA LeaseOneExecution ==
    ASSUME TypeOK, NEW r \in Resources, NEW lease \in Leases,
           exec' = [exec EXCEPT ![r].lease = lease]
    PROVE  OneExecution
<1> DEFINE row == [exec[r] EXCEPT !.lease = lease]
<1>1. row \in Execution
    BY DEF TypeOK, Execution
<1>2. exec' = [exec EXCEPT ![r] = row]
    OBVIOUS
<1> QED  BY <1>1, <1>2, OneRowOneExecution

LEMMA GrantOneExecution ==
    ASSUME TypeOK, Jobs, NEW w \in Workers, NEW lease \in Leases,
           pc[w] = "claiming", exec' = NewRow(w, lease)
    PROVE  OneExecution
<1>1. Res(w) \in Resources /\ job[w] \in Messages
    BY ResInResources
<1> DEFINE row == [msg |-> job[w], owner |-> w, epoch |-> exec[Res(w)].epoch + 1, lease |-> lease]
<1>2. row \in Execution
    BY <1>1 DEF TypeOK, Execution
<1>3. exec' = [exec EXCEPT ![Res(w)] = row]
    BY DEF NewRow
<1> QED  BY <1>1, <1>2, <1>3, OneRowOneExecution

\* What the workers change that the pumps look at.
LEMMA ClaimIsConsumers ==
    ASSUME TypeOK, Jobs, NEW w \in Workers, Claim(w)
    PROVE  OneExecution /\ UNCHANGED <<inbox, dead, due, faults>>
<1>1. CASE ClaimBusy(w) \/ ClaimUpsert(w)
    BY <1>1 DEF ClaimBusy, ClaimUpsert, environment, OneExecution, Executing, Live
<1>2. CASE ClaimGrant(w)
    BY <1>2, GrantOneExecution DEF ClaimGrant, environment, Leases
<1>3. CASE ClaimDone(w)
    BY <1>3, GrantOneExecution DEF ClaimDone, environment, Leases
<1> QED  BY <1>1, <1>2, <1>3 DEF Claim

LEMMA ExecuteIsConsumers ==
    ASSUME TypeOK, Jobs, NEW w \in Workers, Execute(w)
    PROVE  /\ UNCHANGED <<Executing, dead, due, faults>>
           /\ UNCHANGED inbox \/ \E m \in Messages : inbox' = inbox \union {m}
<1>1. UNCHANGED <<exec, dead, due, faults>>
    BY DEF Execute, AssertCurrent, AssertFails, GuardProgress, CommitProgress, InsertReceipt,
       GuardReceipt, GuardFails, CommitReceipt, EndWork, environment
<1>2. CASE CommitReceipt(w)
    BY <1>1, <1>2, ResInResources DEF CommitReceipt, Executing, Live
<1>3. CASE ~CommitReceipt(w)
    <2>1. UNCHANGED inbox
        BY <1>3 DEF Execute, AssertCurrent, AssertFails, GuardProgress, CommitProgress,
           InsertReceipt, GuardReceipt, GuardFails, EndWork
    <2> QED  BY <1>1, <2>1 DEF Executing, Live
<1> QED  BY <1>2, <1>3

LEMMA HeartbeatIsConsumers ==
    ASSUME TypeOK, Jobs, NEW w \in Workers, Heartbeat(w) \/ Release(w)
    PROVE  OneExecution /\ UNCHANGED <<inbox, dead, due, faults>>
<1>1. CASE Renew(w)
    <2>1. Res(w) \in Resources
        BY <1>1, ResInResources DEF Renew, Working, Unlocked, Guarded
    <2> QED  BY <1>1, <2>1, LeaseOneExecution DEF Renew, environment, Leases
<1>2. CASE RenewFails(w)
    BY <1>2 DEF RenewFails, EndWork, environment, OneExecution, Executing, Live
<1>3. CASE Release(w)
    <2>1. Res(w) \in Resources
        BY <1>3, ResInResources DEF Release
    <2>2. CASE exec' = [exec EXCEPT ![Res(w)].lease = "released"]
        BY <1>3, <2>1, <2>2, LeaseOneExecution DEF Release, environment, Leases
    <2>3. CASE exec' = exec
        BY <1>3, <2>3 DEF Release, environment, OneExecution, Executing, Live
    <2> QED  BY <1>3, <2>2, <2>3 DEF Release
<1> QED  BY <1>1, <1>2, <1>3 DEF Heartbeat

LEMMA LeaseIsConsumers ==
    ASSUME TypeOK, NEW r \in Resources, Age(r) \/ Lapse(r) \/ Stall(r) \/ ClockBack(r)
    PROVE  /\ OneExecution
           /\ UNCHANGED <<inbox, dead, due>>
           /\ UNCHANGED faults \/ (exec[r].lease # "released" /\ Fault)
<1>1. \E lease \in Leases : exec' = [exec EXCEPT ![r].lease = lease]
    BY DEF Age, Lapse, Stall, ClockBack, SetLease, Leases
<1>2. OneExecution
    BY <1>1, LeaseOneExecution
<1> QED
    BY <1>2 DEF Age, Lapse, Stall, ClockBack, SetLease, environment

LEMMA OneExecutionIsConsumers ==
    ASSUME OneExecution, UNCHANGED <<outboxVars, hints, inbox, dead, due>>,
           UNCHANGED faults \/ (Fault /\ Messages # {})
    PROVE  [D!Next]_D!vars
<1>1. CASE UNCHANGED Executing /\ UNCHANGED faults
    BY <1>1 DEF outboxVars, D!vars, D!pumpVars, D!consumers
<1>2. CASE UNCHANGED Executing /\ Fault /\ Messages # {}
    <2>1. PICK m \in Messages : TRUE
        BY <1>2
    <2>2. D!ConsumerFails(m)
        BY <1>2 DEF outboxVars, D!ConsumerFails, D!Fault, Fault, D!pumpVars, D!consumers
    <2> QED  BY <2>2 DEF D!Next, D!Consumers
<1>3. ASSUME NEW m \in Messages, NEW n \in Messages,
             Executing' \in {Executing \ {n}, (Executing \ {n}) \union {m}}
      PROVE  D!Next
    <2>1. D!Execution(m)
        BY <1>3 DEF outboxVars, D!Execution, D!Fault, Fault, D!pumpVars
    <2> QED  BY <2>1 DEF D!Next, D!Consumers
<1> QED  BY <1>1, <1>2, <1>3 DEF OneExecution

\* A worker fails, or the broker delivers its hint again.
LEMMA FailureIsConsumers ==
    ASSUME NEW m \in Messages, Fault, hints' \in {hints, hints \union {m}},
           UNCHANGED <<exec, outboxVars, inbox, dead, due>>
    PROVE  D!Next
<1>1. D!ConsumerFails(m)
    BY DEF outboxVars, D!ConsumerFails, D!Fault, Fault, D!pumpVars, D!consumers, Executing, Live
<1> QED  BY <1>1 DEF D!Next, D!Consumers

LEMMA WorkerStepIsConsumers ==
    ASSUME TypeOK, Jobs, NEW w \in Workers, WorkerStep(w)
    PROVE  [D!Next]_D!vars
<1> UNCHANGED <<outboxVars, hints>>
    BY DEF WorkerStep
<1>1. CASE Claim(w)
    BY <1>1, ClaimIsConsumers, OneExecutionIsConsumers
<1>2. CASE Heartbeat(w) \/ Release(w)
    BY <1>2, HeartbeatIsConsumers, OneExecutionIsConsumers
<1>3. CASE Execute(w)
    <2>1. UNCHANGED <<Executing, dead, due, faults>>
        BY <1>3, ExecuteIsConsumers
    <2>2. CASE UNCHANGED inbox
        BY <2>1, <2>2, OneExecutionIsConsumers DEF OneExecution
    <2>3. ASSUME NEW m \in Messages, inbox' = inbox \union {m}
          PROVE  D!Next
        <3>1. D!Receipt(m)
            BY <2>1, <2>3 DEF outboxVars, D!Receipt, D!pumpVars
        <3> QED  BY <3>1 DEF D!Next, D!Consumers
    <2> QED  BY <1>3, <2>2, <2>3, ExecuteIsConsumers
<1>4. CASE WorkFails(w)
    <2>1. job[w] \in Messages
        BY <1>4, ResInResources DEF WorkFails, Working, Unlocked, Guarded
    <2> QED  BY <1>4, <2>1, FailureIsConsumers DEF WorkFails, EndWork, environment
<1> QED  BY <1>1, <1>2, <1>3, <1>4 DEF WorkerStep

LEMMA SystemStepIsPumpStep ==
    Inv /\ ClaimedRows /\ [SystemNext]_allVars => [D!Next]_D!vars
<1> SUFFICES ASSUME Inv, ClaimedRows, [SystemNext]_allVars
             PROVE  [D!Next]_D!vars
    OBVIOUS
<1> TypeOK /\ Jobs /\ Epochs
    BY DEF Inv
<1>1. CASE OutboxStep
    BY <1>1 DEF OutboxStep, D!Next
<1>2. ASSUME NEW w \in Workers, NEW m \in Messages, TakeHint(w, m) \/ DropHint(w, m)
      PROVE  D!Next
    <2>1. UNCHANGED <<exec, outboxVars, inbox, dead, due, faults>>
        BY <1>2 DEF TakeHint, DropHint, Consume, workerVars, environment
    <2>2. D!ConsumeHint(m)
        BY <1>2, <2>1
        DEF TakeHint, DropHint, outboxVars, D!ConsumeHint, D!pumpVars, D!consumers, Executing, Live
    <2> QED  BY <2>2 DEF D!Next, D!Consumers
<1>3. ASSUME NEW w \in Workers, Redeliver(w) \/ WorkerCrash(w)
      PROVE  D!Next
    <2>1. job[w] \in Messages
        BY <1>3 DEF Redeliver, WorkerCrash, Crash, Jobs
    <2> QED
        BY <1>3, <2>1, FailureIsConsumers
        DEF Redeliver, WorkerCrash, Crash, workerVars, environment
<1>4. ASSUME NEW r \in Resources, LeaseStep(r)
      PROVE  [D!Next]_D!vars
    <2>1. exec[r].lease # "released" => exec[r].msg \in Messages
        BY RowFields DEF Epochs, ClaimedRows, TypeOK
    <2> QED
        BY <1>4, <2>1, LeaseIsConsumers, OneExecutionIsConsumers DEF LeaseStep
<1>5. CASE UNCHANGED allVars
    BY <1>5 DEF allVars, workerVars, outboxVars, D!vars, D!pumpVars, D!consumers, Executing, Live
<1> QED  BY <1>1, <1>2, <1>3, <1>4, <1>5, WorkerStepIsConsumers DEF SystemNext

\* The pumps of the composed system keep to DurableDelivery: its Consumers
\* cover whatever workers do to hints, receipts and execution leases.
THEOREM PumpsKeepProtocol == System => PumpsFollowProtocol
<1>1. System => [](Inv /\ ClaimedRows)
    BY WorkersKeepProtocol, Invariance, ClaimedRowsInvariant, PTL DEF WorkersFollowProtocol
<1>2. SystemInit => D!Init
    BY DEF SystemInit
<1> QED
    BY <1>1, <1>2, SystemStepIsPumpStep, PTL DEF System, PumpsFollowProtocol, D!Spec

-----------------------------------------------------------------------------
(* What is proved of the publisher alone holds of its pumps here.          *)

DP == INSTANCE DurableDeliveryProofs
        WITH Acknowledged <- Messages, pc <- pumpPc, executing <- Executing

\* D and DP are one specification under two names, each definition the same.
LEMMA SamePublisher == D!Spec => DP!Spec
<1>1. D!Init => DP!Init
    BY DEF D!Init, DP!Init, D!NoBatch, DP!NoBatch, D!Attempts, DP!Attempts
<1>2. [D!Next]_(D!vars) => [DP!Next]_(DP!vars)
    BY Zenon DEF
        D!pumpVars, DP!pumpVars, D!consumers, DP!consumers, D!vars, DP!vars,
        D!AttemptCap, DP!AttemptCap, D!Attempts, DP!Attempts, D!Goto, DP!Goto,
        D!Fault, DP!Fault, D!Past, DP!Past, D!Waiting, DP!Waiting,
        D!Claimable, DP!Claimable, D!Exhausted, DP!Exhausted,
        D!Unacknowledged, DP!Unacknowledged, D!Lockable, DP!Lockable,
        D!Unlocked, DP!Unlocked, D!Unlock, DP!Unlock, D!Counted, DP!Counted,
        D!Requeued, DP!Requeued, D!Delivering, DP!Delivering, D!Forget,
        DP!Forget, D!Enqueue, DP!Enqueue, D!StartPump, DP!StartPump,
        D!ScanExhausted, DP!ScanExhausted, D!ScanUnacknowledged,
        DP!ScanUnacknowledged, D!CommitReconcile, DP!CommitReconcile,
        D!SnapshotClaim, DP!SnapshotClaim, D!Candidates, DP!Candidates,
        D!ClaimDelivery, DP!ClaimDelivery, D!PumpReturns, DP!PumpReturns,
        D!Publish, DP!Publish, D!FinishDelivery, DP!FinishDelivery,
        D!FinishTooLate, DP!FinishTooLate, D!Crash, DP!Crash, D!Replay,
        DP!Replay, D!Attended, DP!Attended, D!Elapse, DP!Elapse, D!Expire,
        DP!Expire, D!Overrun, DP!Overrun, D!ClockBack, DP!ClockBack,
        D!BecomeDue, DP!BecomeDue, D!ConsumeHint, DP!ConsumeHint,
        D!ConsumerFails, DP!ConsumerFails, D!Execution, DP!Execution,
        D!Receipt, DP!Receipt, D!Reconcile, DP!Reconcile, D!Proceed,
        DP!Proceed, D!Deliver, DP!Deliver, D!Consumers, DP!Consumers, D!Next,
        DP!Next, D!NoBatch, DP!NoBatch
<1> QED  BY <1>1, <1>2, PTL DEF D!Spec, DP!Spec

\* DeadLettersAreExhausted end to end: with real workers that take hints,
\* renew their leases and commit receipts while pumps reconcile, the attempts
\* of a message with an open dead letter are used up.
THEOREM DeadLettersEndToEnd == System => []D!DeadLettersAreExhausted
<1>1. DP!Spec => []DP!DeadLettersAreExhausted
    BY DP!DeadLettersJustified, PublisherAssumption, NoneAssumption, FaultAssumption
<1>2. DP!DeadLettersAreExhausted => D!DeadLettersAreExhausted
    BY DEF D!DeadLettersAreExhausted, DP!DeadLettersAreExhausted
<1> QED  BY <1>1, <1>2, SamePublisher, PumpsKeepProtocol, PTL DEF PumpsFollowProtocol

\* OnlyPublisherEndsDelivery end to end: no worker, and no other pump, ends a
\* delivery whose lease is live.
THEOREM DeliveriesEndToEnd == System => D!OnlyPublisherEndsDelivery
<1>1. DP!Spec => DP!OnlyPublisherEndsDelivery
    BY DP!DeliveriesEndedByPublisher, PublisherAssumption, NoneAssumption, FaultAssumption
<1>2. DP!OnlyPublisherEndsDelivery => D!OnlyPublisherEndsDelivery
    BY DEF D!OnlyPublisherEndsDelivery, DP!OnlyPublisherEndsDelivery, D!vars, DP!vars,
           D!pumpVars, DP!pumpVars, D!consumers, DP!consumers
<1> QED  BY <1>1, <1>2, SamePublisher, PumpsKeepProtocol, PTL DEF PumpsFollowProtocol

-----------------------------------------------------------------------------
(* The composed system implements ReliableTasks.  Whatever is published,   *)
(* taken, executed or buried was enqueued before: ids travel from the      *)
(* committed rows to snapshots and batches, from there to pumps, to the    *)
(* broker and to workers, and a row that exists never disappears.          *)

Intents == {m \in Messages : outbox[m].status # "absent"}

Rows ==
    /\ outbox = [m \in Messages |-> outbox[m]]
    /\ \A m \in Messages :
          outbox[m] = [status |-> outbox[m].status, owner |-> outbox[m].owner,
                       attempts |-> outbox[m].attempts, deadline |-> outbox[m].deadline]

PumpOrigins ==
    /\ dead \subseteq Intents /\ hints \subseteq Intents
    /\ \A p \in Pumps :
          /\ batch[p].bury \subseteq Intents /\ batch[p].requeue \subseteq Intents
          /\ snapshot[p] \subseteq Intents
          /\ held[p] \in Intents \union {None}

WorkerOrigins == \A w \in Workers : pc[w] # "idle" => job[w] \in Intents \intersect due

Origins == PumpTypes /\ Rows /\ PumpOrigins /\ WorkerOrigins

LEMMA OriginsInit == SystemInit => Origins
<1> SUFFICES ASSUME SystemInit
             PROVE  Origins
    OBVIOUS
<1>1. PumpTypes
    BY PumpTypesInit
<1>2. Rows
    BY DEF SystemInit, D!Init, Rows
<1>3. PumpOrigins
    BY DEF SystemInit, D!Init, D!NoBatch, PumpOrigins
<1>4. WorkerOrigins
    BY DEF SystemInit, Init, WorkerOrigins
<1> QED  BY <1>1, <1>2, <1>3, <1>4 DEF Origins

\* A pump finds, claims and records: no row appears or disappears.
LEMMA PumpIntents ==
    ASSUME Origins, NEW p \in Pumps,
           D!StartPump(p) \/ D!Reconcile(p) \/ D!Deliver(p) \/ D!Crash(p)
    PROVE  Rows' /\ Intents' = Intents
<1>1. CASE UNCHANGED outbox
    BY <1>1 DEF Origins, Rows, Intents
<1>2. CASE D!CommitReconcile(p)
    <2>1. batch[p].requeue \subseteq Intents
        BY DEF Origins, PumpOrigins
    <2>2. \A m \in Messages :
             /\ m \in batch[p].requeue => outbox'[m] = D!Requeued(outbox[m])
             /\ m \notin batch[p].requeue => outbox'[m] = outbox[m]
        BY <1>2 DEF D!CommitReconcile
    <2>3. \A m \in Messages :
             D!Requeued(outbox[m])
                = [status |-> "pending", owner |-> outbox[m].owner,
                   attempts |-> outbox[m].attempts, deadline |-> "past"]
        <3>1. ASSUME NEW m \in Messages
              PROVE  D!Requeued(outbox[m])
                        = [status |-> "pending", owner |-> outbox[m].owner,
                           attempts |-> outbox[m].attempts, deadline |-> "past"]
            <4>1. outbox[m] = [status |-> outbox[m].status, owner |-> outbox[m].owner,
                               attempts |-> outbox[m].attempts, deadline |-> outbox[m].deadline]
                BY DEF Origins, Rows
            <4>2. D!Requeued(outbox[m])
                     = [[outbox[m] EXCEPT !.status = "pending"] EXCEPT !.deadline = "past"]
                BY <4>1 DEF D!Requeued
            <4>3. [outbox[m] EXCEPT !.status = "pending"]
                     = [status |-> "pending", owner |-> outbox[m].owner,
                        attempts |-> outbox[m].attempts, deadline |-> outbox[m].deadline]
                BY <4>1
            <4> QED  BY <4>2, <4>3
        <3> QED  BY <3>1
    <2>4. outbox' = [m \in Messages |-> outbox'[m]]
        BY <1>2 DEF D!CommitReconcile
    <2>5. Rows'
        BY <2>2, <2>3, <2>4 DEF Origins, Rows
    <2>6. ASSUME NEW m \in Messages
          PROVE  outbox'[m].status # "absent" <=> outbox[m].status # "absent"
        <3>1. CASE m \in batch[p].requeue
            <4>1. outbox[m].status # "absent"
                BY <2>1, <3>1 DEF Intents
            <4>2. outbox'[m] = [status |-> "pending", owner |-> outbox[m].owner,
                                attempts |-> outbox[m].attempts, deadline |-> "past"]
                BY <2>2, <2>3, <3>1
            <4> QED  BY <4>1, <4>2
        <3>2. CASE m \notin batch[p].requeue
            BY <2>2, <3>2
        <3> QED  BY <3>1, <3>2
    <2> QED  BY <2>5, <2>6 DEF Intents
<1>3. CASE D!ClaimDelivery(p)
    <2>1. PICK m \in D!Candidates(p) :
             outbox' = [outbox EXCEPT ![m] =
                   [status |-> "delivering", owner |-> p,
                    attempts |-> D!Counted(outbox[m].attempts), deadline |-> "ahead"]]
        BY <1>3 DEF Origins, Rows, D!ClaimDelivery
    <2>2. m \in Messages /\ outbox[m].status # "absent"
        BY <2>1 DEF Origins, PumpTypes, D!Candidates, D!Claimable, D!Waiting
    <2> QED  BY <2>1, <2>2 DEF Origins, Rows, Intents
<1>4. CASE D!FinishDelivery(p)
    <2>1. held[p] \in Messages /\ outbox[held[p]].status # "absent"
        BY <1>4 DEF Origins, PumpTypes, D!FinishDelivery, D!Delivering
    <2>2. PICK status, n, d :
             /\ status # "absent"
             /\ outbox' = [outbox EXCEPT ![held[p]] =
                   [status |-> status, owner |-> None, attempts |-> n, deadline |-> d]]
        BY <1>4, <2>1 DEF Origins, Rows, D!FinishDelivery
    <2> QED  BY <2>1, <2>2 DEF Origins, Rows, Intents
<1> QED  BY <1>1, <1>2, <1>3, <1>4
    DEF D!StartPump, D!Reconcile, D!Deliver, D!Crash, D!Proceed, D!ScanExhausted,
        D!ScanUnacknowledged, D!SnapshotClaim, D!PumpReturns, D!Publish, D!FinishTooLate

\* Of what happens to a row otherwise, only Enqueue makes it exist.
LEMMA MessageIntents ==
    ASSUME Origins, NEW m \in Messages,
           \/ D!Enqueue(m) \/ D!Replay(m) \/ D!Expire(m) \/ D!Overrun(m)
           \/ D!ClockBack(m) \/ D!BecomeDue(m)
    PROVE  /\ Rows'
           /\ \/ Intents' = Intents
              \/ D!Enqueue(m) /\ m \notin Intents /\ Intents' = Intents \union {m}
<1>1. CASE D!Enqueue(m)
    BY <1>1 DEF Origins, Rows, Intents, D!Enqueue
<1>2. CASE D!Replay(m)
    <2>1. m \in Intents
        BY <1>2 DEF Origins, PumpOrigins, D!Replay
    <2> QED  BY <1>2, <2>1 DEF Origins, Rows, Intents, D!Replay
<1>3. CASE D!Expire(m) \/ D!Overrun(m) \/ D!ClockBack(m)
    <2>1. PICK d : outbox[m].status # "absent" /\ outbox' = [outbox EXCEPT ![m].deadline = d]
        BY <1>3 DEF D!Expire, D!Overrun, D!ClockBack, D!Elapse
    <2>2. outbox'[m] = [status |-> outbox[m].status, owner |-> outbox[m].owner,
                        attempts |-> outbox[m].attempts, deadline |-> d]
        BY <2>1 DEF Origins, Rows
    <2> QED  BY <2>1, <2>2 DEF Origins, Rows, Intents
<1>4. CASE D!BecomeDue(m)
    BY <1>4 DEF Origins, Rows, Intents, D!BecomeDue
<1> QED  BY <1>1, <1>2, <1>3, <1>4

\* Where pumps get their messages from, and what they put into the broker.
LEMMA ReconcileOrigins ==
    ASSUME Origins, Intents' = Intents, NEW p \in Pumps,
           D!StartPump(p) \/ D!Reconcile(p) \/ D!Crash(p)
    PROVE  PumpOrigins'
<1> USE DEF Origins, PumpOrigins
<1>1. CASE D!StartPump(p)
    BY <1>1 DEF D!StartPump
<1>2. CASE D!ScanExhausted(p)
    <2> DEFINE found == {m \in Messages : D!Exhausted(m) /\ D!Lockable(p, m)}
    <2>1. found \subseteq Intents
        BY DEF Intents, D!Exhausted
    <2>2. /\ batch' = [batch EXCEPT ![p].bury = found]
          /\ UNCHANGED <<dead, hints, snapshot, held>>
        BY <1>2 DEF D!ScanExhausted
    <2> HIDE DEF found
    <2> QED  BY <2>1, <2>2 DEF PumpTypes, D!Batch
<1>3. CASE D!ScanUnacknowledged(p)
    <2> DEFINE found == {m \in Messages : D!Unacknowledged(m) /\ D!Lockable(p, m)}
               over == {m \in found : outbox[m].attempts >= MaxAttempts}
    <2>1. found \subseteq Intents /\ over \subseteq found
        BY DEF Intents, D!Unacknowledged
    <2>2. /\ batch' = [batch EXCEPT ![p] = [bury |-> batch[p].bury \union over,
                                            requeue |-> found \ over]]
          /\ UNCHANGED <<dead, hints, snapshot, held>>
        BY <1>3 DEF D!ScanUnacknowledged, PumpTypes
    <2> HIDE DEF found, over
    <2> QED  BY <2>1, <2>2 DEF PumpTypes
<1>4. CASE D!CommitReconcile(p)
    BY <1>4 DEF D!CommitReconcile, D!NoBatch, PumpTypes
<1>5. CASE D!Crash(p)
    BY <1>5 DEF D!Crash, D!Forget, D!NoBatch, PumpTypes
<1> QED  BY <1>1, <1>2, <1>3, <1>4, <1>5 DEF D!Reconcile

LEMMA DeliverOrigins ==
    ASSUME Origins, Intents' = Intents, NEW p \in Pumps, D!Deliver(p)
    PROVE  PumpOrigins'
<1> USE DEF Origins, PumpOrigins
<1>1. CASE D!SnapshotClaim(p)
    <2> DEFINE seen == {m \in Messages : D!Claimable(m) /\ m \notin dead}
    <2>1. seen \subseteq Intents
        BY DEF Intents, D!Claimable, D!Waiting
    <2>2. snapshot' = [snapshot EXCEPT ![p] = seen] /\ UNCHANGED <<dead, hints, batch, held>>
        BY <1>1 DEF D!SnapshotClaim
    <2> HIDE DEF seen
    <2> QED  BY <2>1, <2>2 DEF PumpTypes
<1>2. CASE D!ClaimDelivery(p)
    <2>1. PICK m \in snapshot[p] : held' = [held EXCEPT ![p] = m]
        BY <1>2 DEF D!ClaimDelivery, D!Candidates
    <2>2. m \in Intents
        BY <2>1
    <2> QED  BY <1>2, <2>1, <2>2 DEF D!ClaimDelivery, PumpTypes
<1>3. CASE D!PumpReturns(p)
    BY <1>3 DEF D!PumpReturns, PumpTypes
<1>4. CASE D!Publish(p)
    <2>1. held[p] \in Intents
        BY <1>4, NoneAssumption DEF D!Publish, PumpTypes
    <2>2. hints' \in {hints, hints \union {held[p]}} /\ UNCHANGED <<dead, batch, snapshot, held>>
        BY <1>4 DEF D!Publish
    <2> QED  BY <2>1, <2>2
<1>5. CASE D!FinishDelivery(p)
    <2>1. held[p] \in Intents
        BY <1>5, NoneAssumption DEF D!FinishDelivery, PumpTypes
    <2>2. /\ dead' \in {dead, dead \union {held[p]}} /\ UNCHANGED <<hints, batch, snapshot>>
          /\ held' = [held EXCEPT ![p] = None]
        BY <1>5 DEF D!FinishDelivery, D!Forget
    <2> QED  BY <2>1, <2>2 DEF PumpTypes
<1>6. CASE D!FinishTooLate(p)
    BY <1>6 DEF D!FinishTooLate, D!Forget, PumpTypes
<1> QED  BY <1>1, <1>2, <1>3, <1>4, <1>5, <1>6 DEF D!Deliver, D!Proceed

\* Rows appear, an operator reopens a dead letter, time passes.
LEMMA MessageOrigins ==
    ASSUME Origins, Intents \subseteq Intents', NEW m \in Messages,
           \/ D!Enqueue(m) \/ D!Replay(m) \/ D!Expire(m) \/ D!Overrun(m)
           \/ D!ClockBack(m) \/ D!BecomeDue(m)
    PROVE  PumpOrigins'
<1>1. UNCHANGED <<hints, batch, snapshot, held>> /\ dead' \subseteq dead
    BY DEF D!Enqueue, D!Replay, D!Expire, D!Overrun, D!ClockBack, D!Elapse, D!BecomeDue, D!pumpVars
<1> QED  BY <1>1 DEF Origins, PumpOrigins

\* The outbox moves: what workers hold stays committed and due.
LEMMA OutboxOrigins ==
    ASSUME Origins, OutboxStep
    PROVE  Rows' /\ PumpOrigins' /\ WorkerOrigins'
<1>1. UNCHANGED <<pc, job>>
    BY DEF OutboxStep, workerVars
<1>2. ASSUME NEW p \in Pumps,
             D!StartPump(p) \/ D!Reconcile(p) \/ D!Deliver(p) \/ D!Crash(p)
      PROVE  Rows' /\ Intents' = Intents /\ PumpOrigins' /\ due' = due
    <2>1. due' = due
        BY <1>2
        DEF D!StartPump, D!Reconcile, D!ScanExhausted, D!ScanUnacknowledged, D!CommitReconcile,
            D!Crash, D!Deliver, D!Proceed, D!SnapshotClaim, D!ClaimDelivery, D!PumpReturns,
            D!Publish, D!FinishDelivery, D!FinishTooLate, D!consumers
    <2> QED  BY <1>2, <2>1, PumpIntents, ReconcileOrigins, DeliverOrigins
<1>3. ASSUME NEW m \in Messages,
             \/ D!Enqueue(m) \/ D!Replay(m) \/ D!Expire(m) \/ D!Overrun(m)
             \/ D!ClockBack(m) \/ D!BecomeDue(m)
      PROVE  Rows' /\ Intents \subseteq Intents' /\ PumpOrigins' /\ due \subseteq due'
    <2>1. due \subseteq due'
        BY <1>3
        DEF D!Enqueue, D!Replay, D!Expire, D!Overrun, D!ClockBack, D!Elapse, D!BecomeDue, D!consumers
    <2>2. Rows' /\ Intents \subseteq Intents'
        BY <1>3, MessageIntents
    <2> QED  BY <1>3, <2>1, <2>2, MessageOrigins
<1>4. Rows' /\ Intents \subseteq Intents' /\ PumpOrigins' /\ due \subseteq due'
    BY <1>2, <1>3 DEF OutboxStep
<1> QED  BY <1>1, <1>4 DEF Origins, WorkerOrigins

\* Workers: a message is taken from the broker when it is due, and goes back
\* there at most.
LEMMA WorkersOrigins ==
    ASSUME Origins, Inv,
           \/ \E w \in Workers :
                 \/ \E m \in Messages : TakeHint(w, m) \/ DropHint(w, m)
                 \/ WorkerStep(w) \/ Redeliver(w) \/ WorkerCrash(w)
           \/ \E r \in Resources : LeaseStep(r)
    PROVE  Rows' /\ PumpOrigins' /\ WorkerOrigins' /\ UNCHANGED <<outbox, due, dead>>
<1> pc \in [Workers -> PCs] /\ job \in [Workers -> Messages \union {None}]
    BY DEF Inv, TypeOK
<1>1. ASSUME UNCHANGED <<outboxVars, due, dead>>, hints' \subseteq Intents,
             \A w \in Workers : pc'[w] # "idle" =>
                job'[w] \in Intents \intersect due
      PROVE  Rows' /\ PumpOrigins' /\ WorkerOrigins'
    <2>1. Intents' = Intents
        BY <1>1 DEF outboxVars, Intents
    <2> QED  BY <1>1, <2>1 DEF Origins, Rows, PumpOrigins, WorkerOrigins, outboxVars
<1>2. ASSUME NEW w \in Workers, NEW m \in Messages, TakeHint(w, m)
      PROVE  Rows' /\ PumpOrigins' /\ WorkerOrigins' /\ UNCHANGED <<outbox, due, dead>>
    <2>1. /\ m \in hints /\ hints' = hints \ {m} /\ m \in due
          /\ UNCHANGED <<outboxVars, due, dead>>
          /\ pc' = [pc EXCEPT ![w] = "selected"] /\ job' = [job EXCEPT ![w] = m]
        BY <1>2 DEF TakeHint, Consume, Goto, environment
    <2>2. m \in Intents /\ hints' \subseteq Intents
        BY <2>1 DEF Origins, PumpOrigins
    <2>3. ASSUME NEW v \in Workers, pc'[v] # "idle"
          PROVE  job'[v] \in Intents \intersect due
        BY <2>1, <2>2, <2>3 DEF Origins, WorkerOrigins
    <2> QED  BY <1>1, <2>1, <2>2, <2>3 DEF outboxVars
<1>3. ASSUME NEW w \in Workers, NEW m \in Messages, DropHint(w, m)
      PROVE  Rows' /\ PumpOrigins' /\ WorkerOrigins' /\ UNCHANGED <<outbox, due, dead>>
    <2>1. hints' \subseteq hints /\ UNCHANGED <<outboxVars, due, dead, pc, job>>
        BY <1>3 DEF DropHint, workerVars
    <2> QED  BY <1>1, <2>1 DEF Origins, PumpOrigins, WorkerOrigins, outboxVars
<1>4. ASSUME NEW w \in Workers, Redeliver(w)
      PROVE  Rows' /\ PumpOrigins' /\ WorkerOrigins' /\ UNCHANGED <<outbox, due, dead>>
    <2>1. pc[w] # "idle" /\ hints' = hints \union {job[w]} /\ UNCHANGED <<outboxVars, due, dead, pc, job>>
        BY <1>4 DEF Redeliver, workerVars
    <2> QED  BY <1>1, <2>1 DEF Origins, PumpOrigins, WorkerOrigins, outboxVars
<1>5. ASSUME NEW w \in Workers, WorkerCrash(w)
      PROVE  Rows' /\ PumpOrigins' /\ WorkerOrigins' /\ UNCHANGED <<outbox, due, dead>>
    <2>1. /\ pc[w] # "idle" /\ hints' \in {hints, hints \union {job[w]}}
          /\ UNCHANGED <<outboxVars, due, dead>>
          /\ pc' = [pc EXCEPT ![w] = "idle"] /\ job' = [job EXCEPT ![w] = None]
        BY <1>5 DEF WorkerCrash, Crash, Return, Goto, environment
    <2>2. hints' \subseteq Intents
        BY <2>1 DEF Origins, PumpOrigins, WorkerOrigins
    <2>3. ASSUME NEW v \in Workers, pc'[v] # "idle"
          PROVE  job'[v] \in Intents \intersect due
        BY <2>1, <2>3 DEF Origins, WorkerOrigins
    <2> QED  BY <1>1, <2>1, <2>2, <2>3 DEF outboxVars
<1>6. ASSUME NEW w \in Workers, WorkerStep(w)
      PROVE  Rows' /\ PumpOrigins' /\ WorkerOrigins' /\ UNCHANGED <<outbox, due, dead>>
    <2>1. /\ UNCHANGED <<outboxVars, hints, due, dead>>
          /\ pc[w] # "idle"
          /\ \/ \E label : pc' = [pc EXCEPT ![w] = label] /\ job' = job
             \/ pc' = [pc EXCEPT ![w] = "idle"] /\ job' = [job EXCEPT ![w] = None]
             \/ UNCHANGED <<pc, job>>
        <3>1. UNCHANGED <<outboxVars, hints>>
            BY <1>6 DEF WorkerStep
        <3>2. CASE Claim(w)
            BY <3>1, <3>2
            DEF Claim, ClaimBusy, ClaimUpsert, ClaimGrant, ClaimDone, Return, Goto, environment
        <3>3. CASE Execute(w)
            BY <3>1, <3>3
            DEF Execute, AssertCurrent, AssertFails, GuardProgress, CommitProgress,
                InsertReceipt, GuardReceipt, GuardFails, CommitReceipt, EndWork, Goto, environment
        <3>4. CASE Heartbeat(w) \/ WorkFails(w) \/ Release(w)
            BY <3>1, <3>4
            DEF Heartbeat, Renew, RenewFails, WorkFails, Release, EndWork, Return, Goto,
                environment, Working, Unlocked, Guarded
        <3> QED  BY <1>6, <3>2, <3>3, <3>4 DEF WorkerStep
    <2>2. ASSUME NEW v \in Workers, pc'[v] # "idle"
          PROVE  job'[v] \in Intents \intersect due
        BY <2>1, <2>2 DEF Origins, WorkerOrigins
    <2>3. hints' \subseteq Intents
        BY <2>1 DEF Origins, PumpOrigins
    <2> QED  BY <1>1, <2>1, <2>2, <2>3 DEF outboxVars
<1>7. ASSUME NEW r \in Resources, LeaseStep(r)
      PROVE  Rows' /\ PumpOrigins' /\ WorkerOrigins' /\ UNCHANGED <<outbox, due, dead>>
    <2>1. UNCHANGED <<outboxVars, hints, due, dead, pc, job>>
        BY <1>7 DEF LeaseStep, Age, Lapse, Stall, ClockBack, SetLease, environment
    <2> QED  BY <1>1, <2>1 DEF Origins, PumpOrigins, WorkerOrigins, outboxVars
<1> QED  BY <1>2, <1>3, <1>4, <1>5, <1>6, <1>7

LEMMA OriginsStep == Origins /\ Inv /\ [SystemNext]_allVars => Origins'
<1> SUFFICES ASSUME Origins, Inv, [SystemNext]_allVars
             PROVE  Origins'
    OBVIOUS
<1>1. PumpTypes'
    BY SystemTypes DEF Origins
<1>2. CASE SystemNext
    BY <1>1, <1>2, OutboxOrigins, WorkersOrigins DEF SystemNext, Origins
<1>3. CASE UNCHANGED allVars
    BY <1>1, <1>3
    DEF Origins, Rows, PumpOrigins, WorkerOrigins, Intents, allVars, outboxVars, workerVars
<1> QED  BY <1>2, <1>3

LEMMA TasksInitRefines == SystemInit => Tasks!TasksInit
BY DEF SystemInit, Init, D!Init, Tasks!TasksInit

\* A pump gives up what its transaction buries, or nothing.
LEMMA PumpGivesUp ==
    ASSUME Origins, NEW p \in Pumps,
           D!StartPump(p) \/ D!Reconcile(p) \/ D!Deliver(p) \/ D!Crash(p),
           UNCHANGED workerVars
    PROVE  \E lost \in SUBSET Intents : Tasks!GiveUp(lost)
<1>1. Intents' = Intents
    BY PumpIntents
<1>2. UNCHANGED <<due, inbox, applied>>
    BY DEF D!StartPump, D!Reconcile, D!ScanExhausted, D!ScanUnacknowledged, D!CommitReconcile,
           D!Crash, D!Deliver, D!Proceed, D!SnapshotClaim, D!ClaimDelivery, D!PumpReturns,
           D!Publish, D!FinishDelivery, D!FinishTooLate, D!consumers, workerVars
<1>3. PICK lost \in SUBSET Intents : dead' = dead \union lost
    <2>1. CASE UNCHANGED dead
        <3>1. dead' = dead \union {} /\ {} \in SUBSET Intents
            BY <2>1
        <3> QED  BY <3>1
    <2>2. CASE D!CommitReconcile(p)
        <3>1. dead' = dead \union batch[p].bury
            BY <2>2 DEF D!CommitReconcile
        <3>2. batch[p].bury \in SUBSET Intents
            BY DEF Origins, PumpOrigins
        <3> QED  BY <3>1, <3>2
    <2>3. CASE D!FinishDelivery(p)
        <3>1. held[p] \in Intents
            BY <2>3, NoneAssumption
            DEF D!FinishDelivery, Origins, PumpTypes, PumpOrigins
        <3>2. CASE dead' = dead \union {held[p]}
            <4>1. {held[p]} \in SUBSET Intents
                BY <3>1
            <4> QED  BY <3>2, <4>1
        <3> QED  BY <2>1, <2>3, <3>2 DEF D!FinishDelivery
    <2> QED  BY <2>1, <2>2, <2>3
        DEF D!StartPump, D!Reconcile, D!ScanExhausted, D!ScanUnacknowledged, D!Crash, D!Deliver,
            D!Proceed, D!SnapshotClaim, D!ClaimDelivery, D!PumpReturns, D!Publish, D!FinishTooLate
<1>4. Tasks!GiveUp(lost)
    BY <1>1, <1>2, <1>3 DEF Tasks!GiveUp, Intents
<1> QED  BY <1>4

LEMMA MessageRefines ==
    ASSUME Origins, NEW m \in Messages,
           \/ D!Enqueue(m) \/ D!Replay(m) \/ D!Expire(m) \/ D!Overrun(m)
           \/ D!ClockBack(m) \/ D!BecomeDue(m),
           UNCHANGED workerVars
    PROVE  \/ Tasks!Commit(m) \/ Tasks!Ripen(m) \/ Tasks!Reopen(m)
           \/ UNCHANGED Tasks!taskVars
<1>1. UNCHANGED <<inbox, applied>>
    BY DEF workerVars
<1>2. CASE D!Enqueue(m)
    <2>1. UNCHANGED <<due, dead>> /\ outbox[m].status = "absent"
        BY <1>2 DEF D!Enqueue, D!consumers
    <2>2. m \notin Intents /\ Intents' = Intents \union {m}
        <3>1. m \in Intents'
            BY <1>2 DEF D!Enqueue, Origins, Rows, Intents
        <3> QED  BY <2>1, <3>1, MessageIntents, <1>2 DEF Intents
    <2>3. Tasks!Commit(m)
        BY <1>1, <2>1, <2>2 DEF Tasks!Commit, Intents
    <2> QED  BY <2>3
<1>3. ASSUME ~D!Enqueue(m)
      PROVE  Intents' = Intents
    BY <1>3, MessageIntents
<1>4. CASE ~D!Enqueue(m) /\ D!Replay(m)
    <2>1. m \in dead /\ dead' = dead \ {m} /\ due' = due
        BY <1>4 DEF D!Replay, D!consumers
    <2>2. Tasks!Reopen(m)
        BY <1>1, <1>3, <1>4, <2>1 DEF Tasks!Reopen, Intents
    <2> QED  BY <2>2
<1>5. CASE ~D!Enqueue(m) /\ D!BecomeDue(m)
    <2>1. due' = due \union {m} /\ dead' = dead
        BY <1>5 DEF D!BecomeDue
    <2>2. Tasks!Ripen(m)
        BY <1>1, <1>3, <1>5, <2>1 DEF Tasks!Ripen, Intents
    <2> QED  BY <2>2
<1>6. CASE ~D!Enqueue(m) /\ (D!Expire(m) \/ D!Overrun(m) \/ D!ClockBack(m))
    <2>1. UNCHANGED <<due, dead>>
        BY <1>6 DEF D!Expire, D!Overrun, D!ClockBack, D!Elapse, D!consumers
    <2>2. UNCHANGED Tasks!taskVars
        BY <1>1, <1>3, <1>6, <2>1 DEF Tasks!taskVars, Intents
    <2> QED  BY <2>2
<1> QED  BY <1>2, <1>4, <1>5, <1>6

\* The commit of effects and receipt performs an intent that was committed,
\* is due and was not performed before; workers do nothing else to intents.
LEMMA WorkersRefine ==
    ASSUME Origins, Inv,
           \/ \E w \in Workers :
                 \/ \E m \in Messages : TakeHint(w, m) \/ DropHint(w, m)
                 \/ WorkerStep(w) \/ Redeliver(w) \/ WorkerCrash(w)
           \/ \E r \in Resources : LeaseStep(r)
    PROVE  (\E m \in Messages : Tasks!Perform(m)) \/ UNCHANGED Tasks!taskVars
<1>1. UNCHANGED <<outbox, due, dead>>
    BY WorkersOrigins
<1>2. CASE UNCHANGED <<inbox, applied>>
    BY <1>1, <1>2 DEF Tasks!taskVars
<1>3. ASSUME NEW w \in Workers, CommitReceipt(w)
      PROVE  \E m \in Messages : Tasks!Perform(m)
    <2>1. pc[w] = "committing"
        BY <1>3 DEF CommitReceipt
    <2>2. job[w] \in Intents \intersect due
        BY <2>1 DEF Origins, WorkerOrigins
    <2>3. job[w] \notin inbox
        BY <2>1 DEF Inv, GuardHoldsToCommit, CurrentOwnerHasWork, Guarded, Working
    <2>4. PICK m \in Messages : m = job[w]
        BY <2>2 DEF Intents
    <2>5. inbox' = inbox \union {m} /\ applied' = [applied EXCEPT ![m] = applied[m] + 1]
        BY <1>3, <2>4 DEF CommitReceipt
    <2>6. Tasks!Perform(m)
        BY <1>1, <2>2, <2>3, <2>4, <2>5 DEF Tasks!Perform, Intents
    <2> QED  BY <2>6
<1>4. ASSUME NEW w \in Workers, WorkerStep(w), ~CommitReceipt(w)
      PROVE  UNCHANGED <<inbox, applied>>
    BY <1>4
    DEF WorkerStep, Claim, Execute, Heartbeat, ClaimBusy, ClaimUpsert, ClaimGrant, ClaimDone,
        AssertCurrent, AssertFails, GuardProgress, CommitProgress, InsertReceipt, GuardReceipt,
        GuardFails, Renew, RenewFails, WorkFails, Release, EndWork, history
<1>5. ASSUME NEW w \in Workers, NEW m \in Messages, TakeHint(w, m) \/ DropHint(w, m)
      PROVE  UNCHANGED <<inbox, applied>>
    BY <1>5 DEF TakeHint, DropHint, Consume, history, workerVars
<1>6. ASSUME NEW w \in Workers, Redeliver(w) \/ WorkerCrash(w)
      PROVE  UNCHANGED <<inbox, applied>>
    BY <1>6 DEF Redeliver, WorkerCrash, Crash, history, workerVars
<1>7. ASSUME NEW r \in Resources, LeaseStep(r)
      PROVE  UNCHANGED <<inbox, applied>>
    BY <1>7 DEF LeaseStep, Age, Lapse, Stall, ClockBack, SetLease, history
<1> QED  BY <1>2, <1>3, <1>4, <1>5, <1>6, <1>7

LEMMA TasksStep ==
    Origins /\ Inv /\ [SystemNext]_allVars => [Tasks!TasksNext]_(Tasks!taskVars)
<1> SUFFICES ASSUME Origins, Inv, [SystemNext]_allVars
             PROVE  [Tasks!TasksNext]_(Tasks!taskVars)
    OBVIOUS
<1>1. CASE UNCHANGED allVars
    BY <1>1 DEF allVars, outboxVars, workerVars, Tasks!taskVars
<1>2. ASSUME NEW p \in Pumps, UNCHANGED workerVars,
             D!StartPump(p) \/ D!Reconcile(p) \/ D!Deliver(p) \/ D!Crash(p)
      PROVE  Tasks!TasksNext
    BY <1>2, PumpGivesUp DEF Tasks!TasksNext, Intents
<1>3. ASSUME NEW m \in Messages, UNCHANGED workerVars,
             \/ D!Enqueue(m) \/ D!Replay(m) \/ D!Expire(m) \/ D!Overrun(m)
             \/ D!ClockBack(m) \/ D!BecomeDue(m)
      PROVE  [Tasks!TasksNext]_(Tasks!taskVars)
    BY <1>3, MessageRefines DEF Tasks!TasksNext
<1>4. CASE OutboxStep
    BY <1>2, <1>3, <1>4 DEF OutboxStep
<1>5. ASSUME SystemNext, ~OutboxStep
      PROVE  [Tasks!TasksNext]_(Tasks!taskVars)
    BY <1>5, WorkersRefine DEF SystemNext, Tasks!TasksNext
<1> QED  BY <1>1, <1>4, <1>5

\* The system keeps the promise of the outbox, for any number of pumps,
\* workers, messages and resources and any number of faults.
THEOREM PromiseKept == System => ImplementsReliableTasks
<1>1. System => []Inv
    BY WorkersKeepProtocol, Invariance, PTL DEF WorkersFollowProtocol
<1>2. System => []Origins
    BY <1>1, OriginsInit, OriginsStep, PTL DEF System
<1> QED
    BY <1>1, <1>2, TasksInitRefines, TasksStep, PTL
    DEF System, ImplementsReliableTasks, Tasks!TasksSpec

\* Whatever has a receipt or an open dead letter has a committed row, whose
\* not-before instant has passed if it was executed.
OnlyCommitted == inbox \subseteq Intents \intersect due /\ dead \subseteq Intents

\* Work whose transaction did not commit is never executed nor dead-lettered,
\* and none is executed before its time, whatever is replayed or repeated.
THEOREM NothingUncommitted == System => []OnlyCommitted
<1>1. Tasks!TasksInit => OnlyCommitted
    BY DEF Tasks!TasksInit, OnlyCommitted
<1>2. OnlyCommitted /\ [Tasks!TasksNext]_(Tasks!taskVars) => OnlyCommitted'
    BY DEF OnlyCommitted, Intents, Tasks!TasksNext, Tasks!Commit, Tasks!Ripen,
           Tasks!Perform, Tasks!GiveUp, Tasks!Reopen, Tasks!taskVars
<1> QED
    BY <1>1, <1>2, PromiseKept, PTL DEF ImplementsReliableTasks, Tasks!TasksSpec
=============================================================================
