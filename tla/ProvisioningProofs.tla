-------------------------- MODULE ProvisioningProofs --------------------------
(***************************************************************************)
(* Theorems about module Provisioning, for every number of slots, machines *)
(* and retries, and every set of incidents unless an assumption says so.   *)
(***************************************************************************)
EXTENDS Provisioning, TLAPS

-----------------------------------------------------------------------------
(* Sessions.  Columns are read one by one below: the provers know a row as *)
(* a record with these columns.                                            *)

Columns == {"state", "template", "token_used", "reported_ip", "vm_moref",
            "floppy_path", "app_token", "retry_count", "ip_mode"}

(* A commit puts a row in the database, and every column of it is the      *)
(* session's if the session assigned to it and the database's otherwise.   *)
LEMMA FlushType ==
    ASSUME NEW cur \in Rows, NEW old \in Rows, NEW new \in Rows
    PROVE  /\ Flush(cur, old, new) \in Rows
           /\ \A c \in Columns : Flush(cur, old, new)[c] =
                                    IF new[c] # old[c] THEN new[c] ELSE cur[c]
BY DEF Flush, Dirty, Rows, Columns

LEMMA NewRowType == \A mode \in {"dhcp", "static"} : NewRow(mode) \in Rows
BY ProvisioningAssumption DEF NewRow, Rows, DeploymentState

LEMMA WriteType ==
    ASSUME TypeOK, NEW e \in Execs, NEW new \in Rows, Write(e, new)
    PROVE  /\ row' \in Rows
           /\ snap' \in [Execs -> Rows]
           /\ stale' \in BOOLEAN
<1>1. row' \in Rows
  BY FlushType DEF Write, TypeOK
<1>2. snap' \in [Execs -> Rows]
  BY DEF Write, TypeOK
<1>3. stale' \in BOOLEAN
  BY DEF Write, TypeOK
<1>. QED  BY <1>1, <1>2, <1>3

LEMMA TransitionType ==
    ASSUME TypeOK, NEW e \in Execs, NEW to \in DeploymentState, Transition(e, to)
    PROVE  /\ row' \in Rows
           /\ snap' \in [Execs -> Rows]
           /\ stale' \in BOOLEAN
<1>1. [snap[e] EXCEPT !.state = to] \in Rows
  BY DEF TypeOK, Rows
<1>. QED  BY <1>1, WriteType DEF Transition

LEMMA StopType ==
    ASSUME TypeOK, NEW e \in Execs, Stop(e)
    PROVE  /\ pc' \in [Execs -> Pcs]
           /\ job' \in [Execs -> WorkerJobs \cup {"none"}]
           /\ snap' \in [Execs -> Rows]
           /\ ref' \in [Execs -> Vms \cup {NoVm}]
BY NewRowType DEF TypeOK, Stop, Pcs

(* Incidents are counted up to their bound. *)
LEMMA IncidentType ==
    ASSUME TypeOK, NEW kind, Incident(kind)
    PROVE  incidents' \in 0 .. MaxIncidents
BY ProvisioningAssumption DEF TypeOK, Incident

LEMMA BestEffortType ==
    ASSUME TypeOK, NEW done \in BOOLEAN, BestEffort(done)
    PROVE  incidents' \in 0 .. MaxIncidents
BY IncidentType DEF TypeOK, BestEffort

(* What the code assigns to a session leaves a row. *)
LEMMA SessionTypes ==
    ASSUME NEW d \in Rows, NEW v \in Vms \cup {NoVm}
    PROVE  /\ WithVm(d, v) \in Rows
           /\ WithoutFloppy(d) \in Rows
           /\ WithoutSecrets(d) \in Rows
           /\ Failed(d) \in Rows
           /\ [WithoutFloppy(d) EXCEPT !.state = "completed"] \in Rows
           /\ d.retry_count < MaxRetries =>
                Retried(d) \in Rows /\ RetriedPostInstall(d) \in Rows
<1>1. WithVm(d, v) \in Rows
  BY DEF Rows, WithVm
<1>2. WithoutFloppy(d) \in Rows /\ WithoutSecrets(d) \in Rows
  BY DEF Rows, WithoutFloppy, WithoutSecrets
<1>3. Failed(d) \in Rows
  <2>1. NoVm \in Vms \cup {NoVm} /\ "failed" \in DeploymentState
    BY DEF DeploymentState
  <2>. QED  BY <1>2, <2>1 DEF Rows, Failed
<1>4. [WithoutFloppy(d) EXCEPT !.state = "completed"] \in Rows
  BY <1>2 DEF Rows, DeploymentState
<1>5. ASSUME d.retry_count < MaxRetries
      PROVE  Retried(d) \in Rows /\ RetriedPostInstall(d) \in Rows
  <2>1. d.retry_count + 1 \in 0 .. MaxRetries
    BY <1>5, ProvisioningAssumption DEF Rows
  <2>. QED  BY <2>1 DEF Rows, Retried, RetriedPostInstall, DeploymentState
<1>. QED  BY <1>1, <1>2, <1>3, <1>4, <1>5

-----------------------------------------------------------------------------
(* Type correctness.  retry_count stays within its bound because a retry   *)
(* request is admitted by the value its own session read, and only a       *)
(* machine gets media attached because create_vm has returned one.         *)

RetriesLeft ==
    \A e \in Execs : pc[e] = "api_loaded" => snap[e].retry_count < MaxRetries

HoldsVm == \A e \in Execs : pc[e] \in {"rd_created", "rd_attach"} => ref[e] \in Vms

TypeInv == TypeOK /\ RetriesLeft /\ HoldsVm

LEMMA TypeInit == Init => TypeInv
<1> SUFFICES ASSUME Init PROVE TypeInv
  OBVIOUS
<1>1. row \in Rows
  BY NewRowType, ProvisioningAssumption DEF Init
<1>2. snap \in [Execs -> Rows]
  BY NewRowType DEF Init
<1>3. job \in [Execs -> WorkerJobs \cup {"none"}] /\ pc \in [Execs -> Pcs]
  BY DEF Init, WorkerJobs, Pcs
<1>4. RetriesLeft /\ HoldsVm
  BY DEF Init, RetriesLeft, HoldsVm
<1>5. incidents \in 0 .. MaxIncidents
  BY ProvisioningAssumption DEF Init
<1>. QED  BY <1>1, <1>2, <1>3, <1>4, <1>5 DEF Init, TypeInv, TypeOK, GuestStates

LEMMA RunDeploymentType ==
    ASSUME TypeInv, NEW e \in Execs, RunDeploymentStep(e)
    PROVE  TypeInv'
<1>. USE DEF TypeInv, TypeOK, RetriesLeft, HoldsVm, Goto, Pcs, LoadedPcs, TryPcs
<1>1. CASE RunDeployment(e)
  BY <1>1 DEF RunDeployment, Starts, Load, database, hypervisor
<1>2. CASE BeginCreate(e)
  BY <1>2, TransitionType DEF BeginCreate, Transition, Write, DeploymentState, hypervisor
<1>3. CASE UploadFloppy(e)
  BY <1>3 DEF UploadFloppy, database
<1>4. CASE RecordFloppy(e)
  <2>1. [snap[e] EXCEPT !.floppy_path = TRUE] \in Rows
    BY DEF Rows
  <2>. QED  BY <1>4, <2>1, WriteType DEF RecordFloppy, Write, hypervisor
<1>5. CASE CreateVm(e)
  BY <1>5 DEF CreateVm, GuestStates, database
<1>6. CASE RecordVm(e)
  BY <1>6, SessionTypes, WriteType DEF RecordVm, Write, hypervisor
<1>7. CASE AttachAndBoot(e)
  BY <1>7, TransitionType DEF AttachAndBoot, Transition, Write, DeploymentState
<1>8. CASE PowerOn(e)
  BY <1>8 DEF PowerOn, GuestStates, database
<1>9. CASE EnterInstallingOs(e)
  BY <1>9, TransitionType DEF EnterInstallingOs, Transition, Write, DeploymentState, hypervisor
<1>10. CASE EnqueueWait(e)
  BY <1>10, NewRowType DEF EnqueueWait, WorkerJobs, database, hypervisor
<1>. QED  BY <1>1, <1>2, <1>3, <1>4, <1>5, <1>6, <1>7, <1>8, <1>9, <1>10 DEF RunDeploymentStep

LEMMA WaitType ==
    ASSUME TypeInv, NEW e \in Execs, WaitStep(e) \/ PollTimeout(e)
    PROVE  TypeInv'
<1>. USE DEF TypeInv, TypeOK, RetriesLeft, HoldsVm, Goto, Pcs, LoadedPcs, TryPcs
<1>1. CASE WaitForCallback(e)
  <2>1. CASE AwaitsCallback(row)
    BY <1>1, <2>1 DEF WaitForCallback, Load, database, hypervisor
  <2>2. CASE ~AwaitsCallback(row)
    BY <1>1, <2>2, StopType DEF WaitForCallback, Stop, database, hypervisor
  <2>. QED  BY <2>1, <2>2
<1>2. CASE Poll(e)
  <2>. DEFINE fresh == [row EXCEPT !.template = snap[e].template]
  <2>1. fresh \in Rows
    BY DEF Rows
  <2>2. CASE ~fresh.token_used /\ fresh.state = "failed"
    <3>1. Stop(e) /\ UNCHANGED <<database, hypervisor, incidents>>
      BY <1>2, <2>2 DEF Poll
    <3>. QED  BY <3>1, StopType DEF Stop, database, hypervisor
  <2>3. CASE ~(~fresh.token_used /\ fresh.state = "failed")
    <3>1. /\ snap' = [snap EXCEPT ![e] = fresh]
          /\ pc' = [pc EXCEPT ![e] = "wait_eject"] \/ UNCHANGED pc
          /\ pc[e] = "wait_poll"
          /\ UNCHANGED <<database, hypervisor, incidents, job, ref>>
      BY <1>2, <2>3 DEF Poll
    <3>. QED  BY <2>1, <3>1 DEF database, hypervisor
  <2>. QED  BY <2>2, <2>3
<1>3. CASE Eject(e)
  <2>1. WithoutFloppy(snap[e]) \in Rows
    BY SessionTypes
  <2>2. PICK done \in BOOLEAN :
          /\ BestEffort(done)
          /\ CleanupAnswerFloppy(snap[e], done)
          /\ media' = media \ (IF done THEN {snap[e].vm_moref} ELSE {})
    BY <1>3 DEF Eject
  <2>3. incidents' \in 0 .. MaxIncidents
    BY <2>2, BestEffortType
  <2>4. floppy' \in BOOLEAN /\ media' \in SUBSET Vms
    BY <2>2 DEF CleanupAnswerFloppy
  <2>. QED  BY <1>3, <2>1, <2>3, <2>4, WriteType DEF Eject, Write
<1>4. CASE PollTimeout(e)
  BY <1>4 DEF PollTimeout, database, hypervisor
<1>. QED  BY <1>1, <1>2, <1>3, <1>4 DEF WaitStep

LEMMA PostInstallType ==
    ASSUME TypeInv, NEW e \in Execs, PostInstallStep(e)
    PROVE  TypeInv'
<1>. USE DEF TypeInv, TypeOK, RetriesLeft, HoldsVm, Goto, Pcs, LoadedPcs, TryPcs
<1>1. CASE RunPostInstall(e)
  <2>1. CASE AwaitsPostInstall(row)
    <3>1. GuestIp(row) \in Vms \cup {NoVm}
      BY DEF GuestIp, Rows
    <3>. QED  BY <1>1, <2>1, <3>1 DEF RunPostInstall, Load, database, hypervisor
  <2>2. CASE ~AwaitsPostInstall(row)
    BY <1>1, <2>2, StopType DEF RunPostInstall, Stop, database, hypervisor
  <2>. QED  BY <2>1, <2>2
<1>2. CASE ReResolve(e)
  <2>1. snap[e].vm_moref \in Vms
    BY <1>2 DEF ReResolve, Rows
  <2>2. [snap[e] EXCEPT !.reported_ip = snap[e].vm_moref] \in Rows
    BY DEF Rows
  <2>3. CASE snap[e].ip_mode = "static"
    BY <1>2, <2>1, <2>3 DEF ReResolve, hypervisor
  <2>4. CASE snap[e].ip_mode # "static"
    BY <1>2, <2>1, <2>2, <2>4, WriteType DEF ReResolve, Write, hypervisor
  <2>. QED  BY <2>3, <2>4
<1>3. CASE BeginPostInstall(e)
  BY <1>3, TransitionType
     DEF BeginPostInstall, Transition, Write, Answering, DeploymentState, hypervisor
<1>4. CASE InstallApps(e)
  <2>1. [snap[e] EXCEPT !.app_token = TRUE] \in Rows
    BY DEF Rows
  <2>. QED  BY <1>4, <2>1, WriteType DEF InstallApps, Write, hypervisor
<1>5. CASE FinishApps(e)
  <2>1. [snap[e] EXCEPT !.app_token = FALSE] \in Rows
    BY DEF Rows
  <2>. QED  BY <1>5, <2>1, WriteType DEF FinishApps, Write, hypervisor
<1>6. CASE Configure(e)
  BY <1>6, TransitionType DEF Configure, Transition, Write, DeploymentState, hypervisor
<1>7. CASE CloseWinRm(e)
  <2>1. incidents' \in 0 .. MaxIncidents
    BY <1>7, IncidentType DEF CloseWinRm
  <2>. QED  BY <1>7, <2>1 DEF CloseWinRm, GuestStates, database
<1>8. CASE Complete(e)
  <2>1. [WithoutFloppy(snap[e]) EXCEPT !.state = "completed"] \in Rows
    BY SessionTypes
  <2>2. PICK done \in BOOLEAN :
          BestEffort(done) /\ CleanupAnswerFloppy(snap[e], done)
    BY <1>8 DEF Complete
  <2>3. incidents' \in 0 .. MaxIncidents
    BY <2>2, BestEffortType
  <2>4. floppy' \in BOOLEAN
    BY <2>2 DEF CleanupAnswerFloppy
  <2>. QED  BY <1>8, <2>1, <2>3, <2>4, WriteType DEF Complete, Write
<1>9. CASE Announce(e)
  <2>1. CASE Stop(e) /\ UNCHANGED incidents
    BY <1>9, <2>1, StopType DEF Announce, Stop, database, hypervisor
  <2>2. CASE Incident("dispatch") /\ Goto(e, "failing") /\ UNCHANGED <<job, snap, ref>>
    BY <1>9, <2>2, IncidentType DEF Announce, database, hypervisor
  <2>. QED  BY <1>9, <2>1, <2>2 DEF Announce
<1>. QED  BY <1>1, <1>2, <1>3, <1>4, <1>5, <1>6, <1>7, <1>8, <1>9 DEF PostInstallStep

LEMMA FailType ==
    ASSUME TypeInv, NEW e \in Execs, FailStep(e)
    PROVE  TypeInv'
<1>. USE DEF TypeInv, TypeOK, RetriesLeft, HoldsVm, Goto, Pcs, LoadedPcs, TryPcs
<1>1. CASE Raise(e)
  BY <1>1 DEF Raise, database, hypervisor
<1>2. CASE CleanupDeployment(e)
  BY <1>2 DEF CleanupDeployment, Starts, Load, database, hypervisor
<1>3. CASE FailCleanup(e)
  <2>1. PICK done \in BOOLEAN :
          /\ BestEffort(done)
          /\ CleanupAnswerFloppy(snap[e], done)
          /\ guest' = [v \in Vms |-> IF done THEN DeletedGuest(snap[e], v)
                                     ELSE guest[v]]
    BY <1>3 DEF FailCleanup
  <2>2. incidents' \in 0 .. MaxIncidents
    BY <2>1, BestEffortType
  <2>3. floppy' \in BOOLEAN
    BY <2>1 DEF CleanupAnswerFloppy
  <2>4. guest' \in [Vms -> GuestStates]
    BY <2>1 DEF DeletedGuest, GuestStates
  <2>5. media' \in SUBSET Vms
    BY <1>3 DEF FailCleanup
  <2>6. WithoutSecrets(snap[e]) \in Rows
    BY SessionTypes
  <2>7. CASE KeepsVm(snap[e])
    BY <1>3, <2>2, <2>3, <2>4, <2>5, <2>6, <2>7, WriteType DEF FailCleanup, Write
  <2>8. CASE ~KeepsVm(snap[e])
    BY <1>3, <2>2, <2>3, <2>4, <2>5, <2>8 DEF FailCleanup
  <2>. QED  BY <2>7, <2>8
<1>4. CASE FailCommit(e)
  <2>1. Failed(snap[e]) \in Rows
    BY SessionTypes
  <2>2. row' \in Rows
    BY <1>4, <2>1, FlushType DEF FailCommit
  <2>3. stale' \in BOOLEAN
    BY <1>4 DEF FailCommit
  <2>. QED  BY <1>4, <2>2, <2>3, StopType DEF FailCommit, Stop, hypervisor
<1>5. CASE CreateVmRaises(e)
  BY <1>5, IncidentType DEF CreateVmRaises, GuestStates, database
<1>. QED  BY <1>1, <1>2, <1>3, <1>4, <1>5 DEF FailStep

LEMMA ApiType ==
    ASSUME TypeInv, NEW e \in Execs,
           ApiStep(e) \/ \E kind \in Operators : RequestRetry(e, kind)
    PROVE  TypeInv'
<1>. USE DEF TypeInv, TypeOK, RetriesLeft, HoldsVm, Goto, Pcs, LoadedPcs, TryPcs
<1>1. CASE CommitRetry(e)
  <2>1. Retried(snap[e]) \in Rows /\ RetriedPostInstall(snap[e]) \in Rows
    BY <1>1, SessionTypes DEF CommitRetry
  <2>. QED  BY <1>1, <2>1, WriteType DEF CommitRetry, Write, hypervisor
<1>2. CASE Enqueue(e)
  BY <1>2, NewRowType DEF Enqueue, database, hypervisor
<1>3. ASSUME NEW kind \in Operators, RequestRetry(e, kind)
      PROVE  TypeInv'
  <2>1. JobOf(kind) \in WorkerJobs
    BY DEF JobOf, WorkerJobs
  <2>. QED  BY <1>3, <2>1 DEF RequestRetry, Load, database, hypervisor
<1>. QED  BY <1>1, <1>2, <1>3 DEF ApiStep

LEMMA EnvironmentType ==
    ASSUME TypeInv, TimePasses \/ SweepStaleDeployments \/ GuestStep
    PROVE  TypeInv'
<1>. USE DEF TypeInv, TypeOK, RetriesLeft, HoldsVm, Pcs, LoadedPcs, TryPcs
<1>1. CASE TimePasses
  BY <1>1 DEF TimePasses, hypervisor, slots
<1>2. CASE SweepStaleDeployments
  BY <1>2 DEF SweepStaleDeployments, WorkerJobs, database, hypervisor
<1>3. ASSUME NEW v \in Vms, GuestSpecializes(v) \/ GuestInstalls(v)
      PROVE  TypeInv'
  BY <1>3 DEF GuestSpecializes, GuestInstalls, GuestStates, database, slots
<1>4. ASSUME NEW v \in Vms, DeploymentNetworkPing(v)
      PROVE  TypeInv'
  <2>1. row' \in Rows
    BY <1>4 DEF DeploymentNetworkPing, Rows
  <2>. QED  BY <1>4, <2>1 DEF DeploymentNetworkPing, hypervisor, slots
<1>5. ASSUME NEW v \in Vms, DeploymentCallback(v)
      PROVE  TypeInv'
  <2>1. row' \in Rows
    BY <1>5 DEF DeploymentCallback, Rows
  <2>. QED  BY <1>5, <2>1 DEF DeploymentCallback, hypervisor, slots
<1>. QED  BY <1>1, <1>2, <1>3, <1>4, <1>5 DEF GuestStep

LEMMA MishapType ==
    ASSUME TypeInv, Mishap
    PROVE  TypeInv'
<1>. USE DEF TypeInv, TypeOK, RetriesLeft, HoldsVm, Pcs, LoadedPcs, TryPcs
<1>1. ASSUME NEW e \in Execs, NEW f \in Execs, Redeliver(e, f)
      PROVE  TypeInv'
  BY <1>1, IncidentType DEF Redeliver, database, hypervisor
<1>2. ASSUME NEW e \in Execs, Crash(e)
      PROVE  TypeInv'
  <2>1. incidents' \in 0 .. MaxIncidents
    BY <1>2, IncidentType DEF Crash
  <2>2. CASE pc[e] \in ApiPcs
    BY <1>2, <2>1, <2>2, StopType DEF Crash, Stop, database, hypervisor
  <2>3. CASE pc[e] \notin ApiPcs
    BY <1>2, <2>1, <2>3, NewRowType DEF Crash, database, hypervisor
  <2>. QED  BY <2>2, <2>3
<1>3. ASSUME NEW e \in Execs, Cancel(e)
      PROVE  TypeInv'
  BY <1>3, IncidentType, StopType DEF Cancel, Stop, database, hypervisor
<1>4. CASE DeleteTemplate
  <2>1. row' \in Rows
    BY <1>4 DEF DeleteTemplate, Rows
  <2>. QED  BY <1>4, <2>1, IncidentType DEF DeleteTemplate, hypervisor, slots
<1>. QED  BY <1>1, <1>2, <1>3, <1>4 DEF Mishap

LEMMA TypeStep == TypeInv /\ [Next]_vars => TypeInv'
<1> SUFFICES ASSUME TypeInv, [Next]_vars PROVE TypeInv'
  OBVIOUS
<1>1. CASE UNCHANGED vars
  BY <1>1 DEF vars, database, hypervisor, slots, TypeInv, TypeOK, RetriesLeft, HoldsVm
<1>2. ASSUME NEW e \in Execs, Step(e) \/ PollTimeout(e)
      PROVE  TypeInv'
  BY <1>2, RunDeploymentType, WaitType, PostInstallType, FailType, ApiType DEF Step
<1>3. CASE Request
  BY <1>3, ApiType DEF Request
<1>4. CASE TimePasses \/ SweepStaleDeployments \/ GuestStep
  BY <1>4, EnvironmentType
<1>5. CASE Mishap
  BY <1>5, MishapType
<1>. QED  BY <1>1, <1>2, <1>3, <1>4, <1>5 DEF Next

LEMMA TypeInvariance == Spec => []TypeInv
BY TypeInit, TypeStep, PTL DEF Spec

(* Every reachable state is well typed: in particular no commit of a stale *)
(* session, however many there are, mixes two rows into something that is  *)
(* not a row, and retry_count stays within its bound.                      *)
THEOREM TypeCorrect == Spec => []TypeOK
<1>1. TypeInv => TypeOK
  BY DEF TypeInv
<1>. QED  BY <1>1, TypeInvariance, PTL

-----------------------------------------------------------------------------
(* The callback.  A commit names only the columns the session assigned to, *)
(* and no worker assigns to callback_token_used.                           *)

CommitsRetry == \E e \in Execs : pc[e] = "api_loaded" /\ pc'[e] = "api_enqueue"

TokenKept == row'.token_used = row.token_used

LEMMA WriteKeepsToken ==
    ASSUME TypeOK, NEW e \in Execs, NEW new \in Rows,
           new.token_used = snap[e].token_used,
           row' = Flush(row, snap[e], new)
    PROVE  TokenKept
<1>1. /\ row \in Rows /\ snap[e] \in Rows
      /\ "token_used" \in Columns
  BY DEF TypeOK, Columns
<1>2. row'["token_used"] = IF new["token_used"] # snap[e]["token_used"]
                           THEN new["token_used"] ELSE row["token_used"]
  BY <1>1, FlushType
<1>. QED  BY <1>2 DEF TokenKept

LEMMA TransitionKeepsToken ==
    ASSUME TypeOK, NEW e \in Execs, NEW to \in DeploymentState, Transition(e, to)
    PROVE  TokenKept
<1>. DEFINE new == [snap[e] EXCEPT !.state = to]
<1>1. new \in Rows /\ new.token_used = snap[e].token_used
  BY DEF TypeOK, Rows
<1>. QED  BY <1>1, WriteKeepsToken DEF Transition, Write

LEMMA SessionsKeepToken ==
    ASSUME NEW d \in Rows, NEW v \in Vms \cup {NoVm}
    PROVE  /\ WithVm(d, v).token_used = d.token_used
           /\ WithoutFloppy(d).token_used = d.token_used
           /\ WithoutSecrets(d).token_used = d.token_used
           /\ Failed(d).token_used = d.token_used
BY DEF Rows, WithVm, WithoutFloppy, WithoutSecrets, Failed

LEMMA WorkerKeepsToken ==
    ASSUME TypeInv, NEW e \in Execs,
           \/ RunDeploymentStep(e) \/ WaitStep(e) \/ PollTimeout(e)
           \/ PostInstallStep(e) \/ FailStep(e)
    PROVE  TokenKept
<1>. USE DEF TypeInv, TypeOK
<1>1. CASE BeginCreate(e) \/ AttachAndBoot(e) \/ EnterInstallingOs(e)
           \/ BeginPostInstall(e) \/ Configure(e)
  BY <1>1, TransitionKeepsToken
     DEF BeginCreate, AttachAndBoot, EnterInstallingOs, BeginPostInstall,
         Configure, DeploymentState
<1>2. CASE RecordFloppy(e)
  <2>. DEFINE new == [snap[e] EXCEPT !.floppy_path = TRUE]
  <2>1. new \in Rows /\ new.token_used = snap[e].token_used
    BY DEF Rows
  <2>. QED  BY <1>2, <2>1, WriteKeepsToken DEF RecordFloppy, Write
<1>3. CASE RecordVm(e)
  BY <1>3, SessionTypes, SessionsKeepToken, WriteKeepsToken DEF RecordVm, Write
<1>4. CASE Eject(e)
  BY <1>4, SessionTypes, SessionsKeepToken, WriteKeepsToken DEF Eject, Write
<1>5. CASE ReResolve(e)
  <2>. DEFINE new == [snap[e] EXCEPT !.reported_ip = snap[e].vm_moref]
  <2>1. new \in Rows /\ new.token_used = snap[e].token_used
    BY DEF Rows
  <2>. QED  BY <1>5, <2>1, WriteKeepsToken DEF ReResolve, Write, TokenKept
<1>6. CASE InstallApps(e) \/ FinishApps(e)
  <2>. DEFINE new(b) == [snap[e] EXCEPT !.app_token = b]
  <2>1. \A b \in BOOLEAN : new(b) \in Rows /\ new(b).token_used = snap[e].token_used
    BY DEF Rows
  <2>2. PICK b \in BOOLEAN : row' = Flush(row, snap[e], new(b))
    BY <1>6 DEF InstallApps, FinishApps, Write
  <2>. QED  BY <2>1, <2>2, WriteKeepsToken
<1>7. CASE Complete(e)
  <2>. DEFINE new == [WithoutFloppy(snap[e]) EXCEPT !.state = "completed"]
  <2>1. new \in Rows
    BY SessionTypes
  <2>2. new.token_used = snap[e].token_used
    BY SessionsKeepToken, SessionTypes DEF Rows
  <2>. QED  BY <1>7, <2>1, <2>2, WriteKeepsToken DEF Complete, Write
<1>8. CASE FailCleanup(e)
  <2>. DEFINE new == WithoutSecrets(snap[e])
  <2>1. new \in Rows /\ new.token_used = snap[e].token_used
    BY SessionTypes, SessionsKeepToken
  <2>2. row' = Flush(row, snap[e], new) \/ row' = row
    BY <1>8 DEF FailCleanup, Write
  <2>3. CASE row' = row
    BY <2>3 DEF TokenKept
  <2>. QED  BY <2>1, <2>2, <2>3, WriteKeepsToken
<1>9. CASE FailCommit(e)
  <2>. DEFINE new == Failed(snap[e])
  <2>1. new \in Rows /\ new.token_used = snap[e].token_used
    BY SessionTypes, SessionsKeepToken
  <2>2. row' = Flush(row, snap[e], new)
    BY <1>9 DEF FailCommit
  <2>. QED  BY <2>1, <2>2, WriteKeepsToken
<1>10. CASE \/ RunDeployment(e) \/ UploadFloppy(e) \/ CreateVm(e) \/ PowerOn(e)
            \/ EnqueueWait(e) \/ WaitForCallback(e) \/ Poll(e) \/ PollTimeout(e)
            \/ RunPostInstall(e) \/ CloseWinRm(e) \/ Announce(e) \/ Raise(e)
            \/ CreateVmRaises(e) \/ CleanupDeployment(e)
  BY <1>10
     DEF RunDeployment, UploadFloppy, CreateVm, PowerOn, EnqueueWait,
         WaitForCallback, Poll, PollTimeout, RunPostInstall, CloseWinRm,
         Announce, Raise, CreateVmRaises, CleanupDeployment, database, TokenKept
<1>. QED
  BY <1>1, <1>2, <1>3, <1>4, <1>5, <1>6, <1>7, <1>8, <1>9, <1>10
     DEF RunDeploymentStep, WaitStep, PostInstallStep, FailStep

LEMMA OnlyRetryRearmsToken ==
    ASSUME TypeInv, [Next]_vars, row.token_used, ~row'.token_used
    PROVE  CommitsRetry
<1>1. ~TokenKept
  BY DEF TokenKept
<1>2. CASE UNCHANGED vars
  BY <1>1, <1>2 DEF vars, database, TokenKept
<1>3. ASSUME NEW e \in Execs, Step(e) \/ PollTimeout(e)
      PROVE  CommitsRetry
  <2>1. ApiStep(e)
    BY <1>1, <1>3, WorkerKeepsToken DEF Step
  <2>2. CASE CommitRetry(e)
    BY <2>2 DEF CommitRetry, Goto, CommitsRetry, TypeInv, TypeOK
  <2>3. CASE Enqueue(e)
    BY <1>1, <2>3 DEF Enqueue, database, TokenKept
  <2>. QED  BY <2>1, <2>2, <2>3 DEF ApiStep
<1>4. CASE Request \/ TimePasses \/ SweepStaleDeployments
  BY <1>1, <1>4 DEF Request, RequestRetry, TimePasses, SweepStaleDeployments,
                    database, TokenKept
<1>5. CASE GuestStep
  BY <1>5 DEF GuestStep, GuestSpecializes, GuestInstalls, DeploymentNetworkPing,
              DeploymentCallback, database, TypeInv, TypeOK, Rows
<1>6. CASE Mishap
  BY <1>1, <1>6 DEF Mishap, Redeliver, Crash, Cancel, DeleteTemplate, database,
                    TypeInv, TypeOK, Rows, TokenKept
<1>. QED  BY <1>2, <1>3, <1>4, <1>5, <1>6 DEF Next

(* Nothing but a full retry takes back a callback that has landed: not a   *)
(* job delivered twice, not the sweep, not overlapping retries, whatever   *)
(* their sessions hold.                                                    *)
THEOREM CallbackKept == Spec => CallbackNotLost
<1>1. TypeInv /\ [Next]_vars =>
        [row.token_used /\ ~row'.token_used =>
            \E e \in Execs : pc[e] = "api_loaded" /\ pc'[e] = "api_enqueue"]_vars
  BY OnlyRetryRearmsToken DEF CommitsRetry
<1>. QED  BY <1>1, TypeInvariance, PTL DEF Spec, CallbackNotLost

-----------------------------------------------------------------------------
(* One driver at a time.  Without second deliveries, sweep and overlapping *)
(* requests, a retry request is the only thing that wakes an idle slot; it *)
(* needs a failed deployment, and a deployment that still has a driver is  *)
(* not failed: _fail saves that state in the last commit of its job.       *)

SerialEnvironment ==
    ~ConcurrentRequests /\ {"redeliver", "sweep"} \cap Incidents = {}

DriverOwnsRow ==
    \A e \in Execs : pc[e] \notin {"idle", "api_loaded"} => row.state # "failed"

(* A step of a slot moves that slot, which is busy, and no other. *)
LEMMA StepMovesItsSlot ==
    ASSUME TypeInv, NEW e \in Execs, Step(e) \/ PollTimeout(e)
    PROVE  Busy(e) /\ \A f \in Execs \ {e} : pc'[f] = pc[f] /\ snap'[f] = snap[f]
<1>. USE DEF TypeInv, TypeOK, Busy, Goto
<1>1. CASE RunDeploymentStep(e)
  BY <1>1 DEF RunDeploymentStep, RunDeployment, BeginCreate, UploadFloppy,
      RecordFloppy, CreateVm, RecordVm, AttachAndBoot, PowerOn,
      EnterInstallingOs, EnqueueWait, Starts, Load, Transition, Write
<1>2. CASE WaitStep(e) \/ PollTimeout(e)
  BY <1>2 DEF WaitStep, PollTimeout, WaitForCallback, Poll, Eject, Starts, Load,
      Stop, Write
<1>3. CASE PostInstallStep(e)
  BY <1>3 DEF PostInstallStep, RunPostInstall, ReResolve, BeginPostInstall,
      InstallApps, FinishApps, Configure, CloseWinRm, Complete, Announce,
      Starts, Load, Stop, Transition, Write
<1>4. CASE FailStep(e) \/ ApiStep(e)
  BY <1>4 DEF FailStep, ApiStep, Raise, CreateVmRaises, CleanupDeployment,
      FailCleanup, FailCommit, CommitRetry, Enqueue, Starts, Load, Stop, Write, TryPcs
<1>. QED  BY <1>1, <1>2, <1>3, <1>4 DEF Step

(* The copy of a slot's session agrees with the row where it matters. *)
Current(e) == \A c \in OwnColumns : snap[e][c] = row[c]

SerialInv == SoleDriver /\ SnapshotCurrent /\ DriverOwnsRow

LEMMA CommitCurrent ==
    ASSUME TypeOK, NEW e \in Execs, Current(e), NEW new \in Rows,
           row' = Flush(row, snap[e], new)
    PROVE  /\ \A c \in OwnColumns : row'[c] = new[c]
           /\ row'.state = new.state /\ row'.vm_moref = new.vm_moref
<1>1. OwnColumns \subseteq Columns
  BY DEF OwnColumns, Columns
<1>2. \A c \in OwnColumns : row'[c] = IF new[c] # snap[e][c] THEN new[c] ELSE row[c]
  BY <1>1, FlushType DEF TypeOK
<1>3. \A c \in OwnColumns : row'[c] = new[c]
  BY <1>2 DEF Current
<1>4. row'["state"] = new["state"] /\ row'["vm_moref"] = new["vm_moref"]
  BY <1>3 DEF OwnColumns
<1>. QED  BY <1>3, <1>4

(* A session that was current is current after its commit, and the row's   *)
(* state and machine are the session's.                                    *)
LEMMA WriteCurrent ==
    ASSUME TypeOK, NEW e \in Execs, Current(e), NEW new \in Rows, Write(e, new)
    PROVE  Current(e)' /\ row'.state = new.state /\ row'.vm_moref = new.vm_moref
<1>1. snap'[e] = new /\ row' = Flush(row, snap[e], new)
  BY DEF Write, TypeOK
<1>. QED  BY <1>1, CommitCurrent DEF Current

LEMMA TransitionCurrent ==
    ASSUME TypeOK, NEW e \in Execs, Current(e), NEW to \in DeploymentState,
           Transition(e, to)
    PROVE  /\ Current(e)' /\ row'.state = to /\ row'.vm_moref = row.vm_moref
           /\ CanTransition(row.state, to)
<1>. DEFINE new == [snap[e] EXCEPT !.state = to]
<1>1. new \in Rows /\ new.state = to /\ new.vm_moref = snap[e].vm_moref
  BY DEF TypeOK, Rows
<1>2. Current(e)' /\ row'.state = to /\ row'.vm_moref = snap[e].vm_moref
  BY <1>1, WriteCurrent DEF Transition
<1>3. snap[e]["state"] = row["state"] /\ snap[e]["vm_moref"] = row["vm_moref"]
  BY DEF Current, OwnColumns
<1>. QED  BY <1>2, <1>3 DEF Transition

(* The same for a commit that does not change the state. *)
LEMMA CommitInState ==
    ASSUME TypeOK, NEW e \in Execs, Current(e), NEW new \in Rows, Write(e, new),
           new.state = snap[e].state
    PROVE  Current(e)' /\ row'.state = row.state /\ row'.vm_moref = new.vm_moref
<1>1. snap[e]["state"] = row["state"]
  BY DEF Current, OwnColumns
<1>. QED  BY <1>1, WriteCurrent

LEMMA LoadCurrent ==
    ASSUME TypeOK, NEW e \in Execs, Load(e), UNCHANGED row
    PROVE  Current(e)'
BY DEF TypeOK, Load, Current

(* A step of a current slot leaves it current, unless it is over, and does *)
(* not leave a failed deployment behind while it goes on.                  *)
SlotInv(e) ==
    /\ pc[e] \in LoadedPcs => Current(e)
    /\ pc[e] \notin {"idle", "api_loaded"} => row.state # "failed"

LEMMA RunDeploymentSerial ==
    ASSUME TypeInv, NEW e \in Execs, SlotInv(e), RunDeploymentStep(e)
    PROVE  SlotInv(e)'
<1>. USE DEF TypeInv, TypeOK, SlotInv, Goto, LoadedPcs, TryPcs
<1>1. CASE RunDeployment(e)
  BY <1>1, LoadCurrent DEF RunDeployment, Starts, database
<1>2. CASE BeginCreate(e) \/ AttachAndBoot(e) \/ EnterInstallingOs(e)
  BY <1>2, TransitionCurrent DEF BeginCreate, AttachAndBoot, EnterInstallingOs, DeploymentState
<1>3. CASE UploadFloppy(e) \/ CreateVm(e) \/ PowerOn(e)
  BY <1>3 DEF UploadFloppy, CreateVm, PowerOn, database, Current
<1>4. CASE RecordFloppy(e)
  <2>. DEFINE new == [snap[e] EXCEPT !.floppy_path = TRUE]
  <2>1. new \in Rows /\ new.state = snap[e].state
    BY DEF Rows
  <2>. QED  BY <1>4, <2>1, CommitInState DEF RecordFloppy
<1>5. CASE RecordVm(e)
  <2>1. WithVm(snap[e], ref[e]) \in Rows
    BY SessionTypes
  <2>2. WithVm(snap[e], ref[e]).state = snap[e].state
    BY DEF WithVm, Rows
  <2>. QED  BY <1>5, <2>1, <2>2, CommitInState DEF RecordVm
<1>6. CASE EnqueueWait(e)
  BY <1>6 DEF EnqueueWait, database
<1>. QED  BY <1>1, <1>2, <1>3, <1>4, <1>5, <1>6 DEF RunDeploymentStep

LEMMA WaitSerial ==
    ASSUME TypeInv, NEW e \in Execs, SlotInv(e), WaitStep(e) \/ PollTimeout(e)
    PROVE  SlotInv(e)'
<1>. USE DEF TypeInv, TypeOK, SlotInv, Goto, LoadedPcs, TryPcs
<1>1. CASE WaitForCallback(e)
  <2>1. CASE AwaitsCallback(row)
    BY <1>1, <2>1, LoadCurrent DEF WaitForCallback, Starts, database
  <2>2. CASE ~AwaitsCallback(row)
    BY <1>1, <2>2 DEF WaitForCallback, Stop
  <2>. QED  BY <2>1, <2>2
<1>2. CASE Poll(e)
  <2>. DEFINE fresh == [row EXCEPT !.template = snap[e].template]
  <2>1. \A c \in OwnColumns : fresh[c] = row[c]
    BY DEF Rows, OwnColumns
  <2>2. CASE ~fresh.token_used /\ fresh.state = "failed"
    BY <1>2, <2>2 DEF Poll, Stop
  <2>3. CASE ~(~fresh.token_used /\ fresh.state = "failed")
    <3>1. snap'[e] = fresh /\ UNCHANGED row /\ pc[e] = "wait_poll"
      BY <1>2, <2>3 DEF Poll, database
    <3>. QED  BY <2>1, <3>1 DEF Current
  <2>. QED  BY <2>2, <2>3
<1>3. CASE Eject(e)
  <2>1. WithoutFloppy(snap[e]) \in Rows
    BY SessionTypes
  <2>2. WithoutFloppy(snap[e]).state = snap[e].state
    BY DEF WithoutFloppy, Rows
  <2>. QED  BY <1>3, <2>1, <2>2, CommitInState DEF Eject
<1>4. CASE PollTimeout(e)
  BY <1>4 DEF PollTimeout, database, Current
<1>. QED  BY <1>1, <1>2, <1>3, <1>4 DEF WaitStep

LEMMA PostInstallSerial ==
    ASSUME TypeInv, NEW e \in Execs, SlotInv(e), PostInstallStep(e)
    PROVE  SlotInv(e)'
<1>. USE DEF TypeInv, TypeOK, SlotInv, Goto, LoadedPcs, TryPcs
<1>1. CASE RunPostInstall(e)
  <2>1. CASE AwaitsPostInstall(row)
    BY <1>1, <2>1, LoadCurrent DEF RunPostInstall, Starts, database
  <2>2. CASE ~AwaitsPostInstall(row)
    BY <1>1, <2>2 DEF RunPostInstall, Stop
  <2>. QED  BY <2>1, <2>2
<1>2. CASE ReResolve(e)
  <2>. DEFINE new == [snap[e] EXCEPT !.reported_ip = snap[e].vm_moref]
  <2>1. new \in Rows /\ new.state = snap[e].state
    BY DEF Rows
  <2>2. CASE snap[e].ip_mode = "static"
    BY <1>2, <2>2 DEF ReResolve, Current
  <2>3. CASE snap[e].ip_mode # "static"
    BY <1>2, <2>1, <2>3, CommitInState DEF ReResolve
  <2>. QED  BY <2>2, <2>3
<1>3. CASE BeginPostInstall(e) \/ Configure(e)
  BY <1>3, TransitionCurrent DEF BeginPostInstall, Configure, DeploymentState
<1>4. CASE InstallApps(e) \/ FinishApps(e)
  <2>. DEFINE new(b) == [snap[e] EXCEPT !.app_token = b]
  <2>1. \A b \in BOOLEAN : new(b) \in Rows /\ new(b).state = snap[e].state
    BY DEF Rows
  <2>2. PICK b \in BOOLEAN : Write(e, new(b))
    BY <1>4 DEF InstallApps, FinishApps
  <2>3. Current(e)' /\ row'.state = row.state
    BY <1>4, <2>1, <2>2, CommitInState DEF InstallApps, FinishApps
  <2>. QED  BY <1>4, <2>3 DEF InstallApps, FinishApps
<1>5. CASE CloseWinRm(e)
  BY <1>5 DEF CloseWinRm, database, Current
<1>6. CASE Complete(e)
  <2>. DEFINE new == [WithoutFloppy(snap[e]) EXCEPT !.state = "completed"]
  <2>1. new \in Rows /\ new.state = "completed"
    BY SessionTypes DEF Rows, WithoutFloppy
  <2>. QED  BY <1>6, <2>1, WriteCurrent DEF Complete
<1>7. CASE Announce(e)
  BY <1>7 DEF Announce, Stop, database, Current
<1>. QED  BY <1>1, <1>2, <1>3, <1>4, <1>5, <1>6, <1>7 DEF PostInstallStep

LEMMA FailSerial ==
    ASSUME TypeInv, NEW e \in Execs, SlotInv(e), FailStep(e)
    PROVE  SlotInv(e)'
<1>. USE DEF TypeInv, TypeOK, SlotInv, Goto, LoadedPcs, TryPcs
<1>1. CASE Raise(e)
  BY <1>1 DEF Raise, database, Current
<1>2. CASE CleanupDeployment(e)
  BY <1>2, LoadCurrent DEF CleanupDeployment, Starts, database
<1>3. CASE FailCleanup(e)
  <2>1. WithoutSecrets(snap[e]) \in Rows
    BY SessionTypes
  <2>2. WithoutSecrets(snap[e]).state = snap[e].state
    BY DEF WithoutSecrets, Rows
  <2>3. CASE KeepsVm(snap[e])
    BY <1>3, <2>1, <2>2, <2>3, CommitInState DEF FailCleanup
  <2>4. CASE ~KeepsVm(snap[e])
    BY <1>3, <2>4 DEF FailCleanup, Current
  <2>. QED  BY <2>3, <2>4
<1>4. CASE FailCommit(e)
  BY <1>4 DEF FailCommit, Stop
<1>5. CASE CreateVmRaises(e)
  BY <1>5 DEF CreateVmRaises, database, Current
<1>. QED  BY <1>1, <1>2, <1>3, <1>4, <1>5 DEF FailStep

LEMMA ApiSerial ==
    ASSUME TypeInv, NEW e \in Execs, SlotInv(e), ApiStep(e)
    PROVE  SlotInv(e)'
<1>. USE DEF TypeInv, TypeOK, SlotInv, Goto, LoadedPcs, TryPcs
<1>1. CASE CommitRetry(e)
  <2>1. /\ Retried(snap[e]) \in Rows /\ Retried(snap[e]).state = "pending"
        /\ RetriedPostInstall(snap[e]) \in Rows
        /\ RetriedPostInstall(snap[e]).state = "installing_os"
    BY <1>1, SessionTypes DEF CommitRetry, RetriesLeft, Retried, RetriedPostInstall, Rows
  <2>. QED  BY <1>1, <2>1, WriteCurrent DEF CommitRetry
<1>2. CASE Enqueue(e)
  BY <1>2 DEF Enqueue, database
<1>. QED  BY <1>1, <1>2 DEF ApiStep

LEMMA SerialInit == TypeInv /\ Init => SerialInv
BY DEF TypeInv, TypeOK, Init, SerialInv, SoleDriver, SnapshotCurrent,
       DriverOwnsRow, Busy, LoadedPcs, TryPcs, NewRow

(* SerialInv speaks of one slot at a time. *)
LEMMA SerialBySlots ==
    SerialInv <=> SoleDriver /\ \A e \in Execs : SlotInv(e)
BY DEF SerialInv, SnapshotCurrent, DriverOwnsRow, SlotInv, Current

LEMMA StepSerial ==
    ASSUME TypeInv, SerialInv, NEW e \in Execs, Step(e) \/ PollTimeout(e)
    PROVE  SerialInv'
<1>1. SlotInv(e)'
  BY SerialBySlots, RunDeploymentSerial, WaitSerial, PostInstallSerial,
     FailSerial, ApiSerial DEF Step
<1>2. \A f \in Execs \ {e} : pc'[f] = "idle"
  BY StepMovesItsSlot DEF SerialInv, SoleDriver, Busy
<1>3. SoleDriver'
  BY <1>2 DEF SoleDriver, Busy
<1>4. \A f \in Execs : SlotInv(f)'
  BY <1>1, <1>2 DEF SlotInv, LoadedPcs, TryPcs
<1>5. (SoleDriver /\ \A f \in Execs : SlotInv(f))'
  BY <1>3, <1>4
<1>. QED  BY <1>5 DEF SerialInv, SnapshotCurrent, DriverOwnsRow, SlotInv, Current

LEMMA RequestSerial ==
    ASSUME TypeInv, SerialInv, SerialEnvironment, Request
    PROVE  SerialInv'
<1>1. PICK e \in Execs, kind \in Operators : RequestRetry(e, kind)
  BY DEF Request
<1>2. \A f \in Execs : pc[f] = "idle"
  BY <1>1 DEF SerialInv, DriverOwnsRow, SerialEnvironment, RequestRetry,
              MayRetry, ApiPcs
<1>3. /\ pc' = [pc EXCEPT ![e] = "api_loaded"]
      /\ Load(e) /\ UNCHANGED row
  BY <1>1 DEF RequestRetry, Goto, database
<1>4. Current(e)'
  BY <1>3, LoadCurrent DEF TypeInv
<1>5. SoleDriver'
  BY <1>2, <1>3 DEF SoleDriver, Busy, TypeInv, TypeOK
<1>6. \A f \in Execs : SlotInv(f)'
  BY <1>2, <1>3, <1>4 DEF SlotInv, LoadedPcs, TryPcs, TypeInv, TypeOK
<1>7. (SoleDriver /\ \A f \in Execs : SlotInv(f))'
  BY <1>5, <1>6
<1>. QED  BY <1>7 DEF SerialInv, SnapshotCurrent, DriverOwnsRow, SlotInv, Current

(* What leaves the slots and their columns of the row alone keeps it all. *)
LEMMA OthersSerial ==
    ASSUME SerialInv, UNCHANGED <<pc, snap>>,
           \A c \in OwnColumns : row'[c] = row[c]
    PROVE  SerialInv'
<1>1. row'["state"] = row["state"]
  BY DEF OwnColumns
<1>. QED  BY <1>1 DEF SerialInv, SoleDriver, SnapshotCurrent, DriverOwnsRow, Busy

LEMMA GuestSerial ==
    ASSUME TypeInv, SerialInv, GuestStep
    PROVE  SerialInv'
<1>1. UNCHANGED <<pc, snap>> /\ \A c \in OwnColumns : row'[c] = row[c]
  BY DEF GuestStep, GuestSpecializes, GuestInstalls, DeploymentNetworkPing,
         DeploymentCallback, database, slots, OwnColumns, TypeInv, TypeOK, Rows
<1>. QED  BY <1>1, OthersSerial

LEMMA MishapSerial ==
    ASSUME TypeInv, SerialInv, SerialEnvironment, Mishap
    PROVE  SerialInv'
<1>. USE DEF TypeInv, TypeOK
<1>1. ASSUME NEW e \in Execs, NEW f \in Execs, Redeliver(e, f)
      PROVE  FALSE
  BY <1>1 DEF Redeliver, Incident, SerialEnvironment
<1>2. ASSUME NEW e \in Execs, Crash(e) \/ Cancel(e)
      PROVE  SerialInv'
  <2>1. /\ UNCHANGED row /\ Busy(e) /\ pc'[e] \in {"idle", "queued"}
        /\ pc[e] = "api_loaded" => pc'[e] = "idle"
        /\ \A f \in Execs \ {e} : pc'[f] = pc[f]
    BY <1>2 DEF Crash, Cancel, Stop, Busy, database, ApiPcs
  <2>2. \A f \in Execs \ {e} : pc'[f] = "idle"
    BY <2>1 DEF SerialInv, SoleDriver, Busy
  <2>. QED  BY <2>1, <2>2 DEF SerialInv, SoleDriver, SnapshotCurrent,
                              DriverOwnsRow, Busy, LoadedPcs, TryPcs
<1>3. CASE DeleteTemplate
  <2>1. UNCHANGED <<pc, snap>> /\ \A c \in OwnColumns : row'[c] = row[c]
    BY <1>3 DEF DeleteTemplate, slots, OwnColumns, Rows
  <2>. QED  BY <2>1, OthersSerial
<1>. QED  BY <1>1, <1>2, <1>3 DEF Mishap

LEMMA SerialStep ==
    ASSUME SerialEnvironment
    PROVE  TypeInv /\ SerialInv /\ [Next]_vars => SerialInv'
<1> SUFFICES ASSUME TypeInv, SerialInv, [Next]_vars PROVE SerialInv'
  OBVIOUS
<1>1. CASE UNCHANGED vars
  BY <1>1, OthersSerial DEF vars, database, slots
<1>2. ASSUME NEW e \in Execs, Step(e) \/ PollTimeout(e)
      PROVE  SerialInv'
  BY <1>2, StepSerial
<1>3. CASE Request
  BY <1>3, RequestSerial
<1>4. CASE TimePasses \/ SweepStaleDeployments
  BY <1>4 DEF TimePasses, SweepStaleDeployments, SerialEnvironment
<1>5. CASE GuestStep
  BY <1>5, GuestSerial
<1>6. CASE Mishap
  BY <1>6, MishapSerial
<1>. QED  BY <1>1, <1>2, <1>3, <1>4, <1>5, <1>6 DEF Next

LEMMA SerialInvariance ==
    ASSUME SerialEnvironment
    PROVE  Spec => []SerialInv
BY SerialInit, SerialStep, TypeInvariance, PTL DEF Spec

(* However many slots, machines, crashes, cancelled jobs and retries there *)
(* are, two jobs or requests never work on the deployment at once.         *)
THEOREM SoleDriverHolds ==
    ASSUME SerialEnvironment
    PROVE  Spec => []SoleDriver
<1>1. SerialInv => SoleDriver
  BY DEF SerialInv
<1>. QED  BY <1>1, SerialInvariance, PTL

(* ... and a session that is never read again decides on current values.   *)
THEOREM SnapshotCurrentHolds ==
    ASSUME SerialEnvironment
    PROVE  Spec => []SnapshotCurrent
<1>1. SerialInv => SnapshotCurrent
  BY DEF SerialInv
<1>. QED  BY <1>1, SerialInvariance, PTL

===============================================================================
