---------------------------- MODULE LifecycleProofs ----------------------------
(***************************************************************************)
(* The pipeline of module Provisioning implements DeploymentLifecycle, and *)
(* what it leaves on the hypervisor and in the datastore is what the row   *)
(* says, for every number of slots, machines and retries, as long as jobs  *)
(* run once, the sweep stays away and requests do not overlap (module      *)
(* ProvisioningProofs: one driver, whose copy of the row is current).      *)
(***************************************************************************)
EXTENDS ProvisioningProofs

(* What the theorems below assume of the environment.  A failing dispatch  *)
(* of the completion notice is left out because _fail then runs on a       *)
(* completed deployment (the run DispatchDeletesCompleted).                *)
CalmEnvironment == SerialEnvironment /\ "dispatch" \notin Incidents

-----------------------------------------------------------------------------
(* What the worker's commits do to the columns it owns. *)

RowBecomes(s, v, f, a) ==
    /\ row'.state = s /\ row'.vm_moref = v
    /\ row'.floppy_path = f /\ row'.app_token = a

(* A change of state, and of nothing else the worker owns. *)
MovesTo(s) == RowBecomes(s, row.vm_moref, row.floppy_path, row.app_token)

RowStays == MovesTo(row.state)

LEMMA CommitColumns ==
    ASSUME TypeOK, NEW e \in Execs, Current(e), NEW new \in Rows,
           row' = Flush(row, snap[e], new)
    PROVE  RowBecomes(new.state, new.vm_moref, new.floppy_path, new.app_token)
<1>1. \A c \in OwnColumns : row'[c] = new[c]
  BY CommitCurrent
<1>2. /\ row'["state"] = new["state"] /\ row'["vm_moref"] = new["vm_moref"]
      /\ row'["floppy_path"] = new["floppy_path"]
      /\ row'["app_token"] = new["app_token"]
  BY <1>1 DEF OwnColumns
<1>. QED  BY <1>2 DEF RowBecomes

LEMMA CurrentColumns ==
    ASSUME NEW e \in Execs, Current(e)
    PROVE  /\ snap[e].state = row.state /\ snap[e].vm_moref = row.vm_moref
           /\ snap[e].floppy_path = row.floppy_path
           /\ snap[e].app_token = row.app_token
<1>1. /\ snap[e]["state"] = row["state"] /\ snap[e]["vm_moref"] = row["vm_moref"]
      /\ snap[e]["floppy_path"] = row["floppy_path"]
      /\ snap[e]["app_token"] = row["app_token"]
  BY DEF Current, OwnColumns
<1>. QED  BY <1>1

LEMMA TransitionMoves ==
    ASSUME TypeOK, NEW e \in Execs, Current(e), NEW to \in DeploymentState,
           Transition(e, to)
    PROVE  MovesTo(to) /\ CanTransition(row.state, to)
<1>. DEFINE new == [snap[e] EXCEPT !.state = to]
<1>1. /\ new \in Rows /\ new.state = to /\ new.vm_moref = snap[e].vm_moref
      /\ new.floppy_path = snap[e].floppy_path /\ new.app_token = snap[e].app_token
  BY DEF TypeOK, Rows
<1>2. row' = Flush(row, snap[e], new) /\ CanTransition(snap[e].state, to)
  BY DEF Transition, Write
<1>3. RowBecomes(new.state, new.vm_moref, new.floppy_path, new.app_token)
  BY <1>1, <1>2, CommitColumns
<1>. QED  BY <1>1, <1>2, <1>3, CurrentColumns DEF MovesTo

(* The commits of run_deployment. *)
LEMMA RunDeploymentColumns ==
    ASSUME TypeInv, NEW e \in Execs, SlotInv(e)
    PROVE  /\ BeginCreate(e) =>
                MovesTo("creating_vm") /\ CanTransition(row.state, "creating_vm")
           /\ AttachAndBoot(e) =>
                MovesTo("booting") /\ CanTransition(row.state, "booting")
           /\ EnterInstallingOs(e) =>
                MovesTo("installing_os") /\ CanTransition(row.state, "installing_os")
           /\ RecordFloppy(e) =>
                RowBecomes(row.state, row.vm_moref, TRUE, row.app_token)
           /\ RecordVm(e) =>
                RowBecomes(row.state, ref[e], row.floppy_path, row.app_token)
<1>. USE DEF TypeInv, TypeOK, SlotInv, LoadedPcs, TryPcs
<1>1. ASSUME BeginCreate(e) \/ AttachAndBoot(e) \/ EnterInstallingOs(e)
      PROVE  Current(e)
  BY <1>1 DEF BeginCreate, AttachAndBoot, EnterInstallingOs
<1>2. BeginCreate(e) => MovesTo("creating_vm") /\ CanTransition(row.state, "creating_vm")
  BY <1>1, TransitionMoves DEF BeginCreate, DeploymentState
<1>3. AttachAndBoot(e) => MovesTo("booting") /\ CanTransition(row.state, "booting")
  BY <1>1, TransitionMoves DEF AttachAndBoot, DeploymentState
<1>4. EnterInstallingOs(e) =>
        MovesTo("installing_os") /\ CanTransition(row.state, "installing_os")
  BY <1>1, TransitionMoves DEF EnterInstallingOs, DeploymentState
<1>5. ASSUME RecordFloppy(e)
      PROVE  RowBecomes(row.state, row.vm_moref, TRUE, row.app_token)
  <2>. DEFINE new == [snap[e] EXCEPT !.floppy_path = TRUE]
  <2>1. /\ new \in Rows /\ new.state = snap[e].state /\ new.floppy_path = TRUE
        /\ new.vm_moref = snap[e].vm_moref /\ new.app_token = snap[e].app_token
    BY DEF Rows
  <2>2. Current(e) /\ row' = Flush(row, snap[e], new)
    BY <1>5 DEF RecordFloppy, Write
  <2>3. RowBecomes(new.state, new.vm_moref, new.floppy_path, new.app_token)
    BY <2>1, <2>2, CommitColumns
  <2>. QED  BY <2>1, <2>2, <2>3, CurrentColumns
<1>6. ASSUME RecordVm(e)
      PROVE  RowBecomes(row.state, ref[e], row.floppy_path, row.app_token)
  <2>. DEFINE new == WithVm(snap[e], ref[e])
  <2>1. /\ new.state = snap[e].state /\ new.vm_moref = ref[e]
        /\ new.floppy_path = snap[e].floppy_path /\ new.app_token = snap[e].app_token
    BY DEF WithVm, Rows
  <2>2. Current(e) /\ row' = Flush(row, snap[e], new) /\ new \in Rows
    BY <1>6, SessionTypes DEF RecordVm, Write
  <2>3. RowBecomes(new.state, new.vm_moref, new.floppy_path, new.app_token)
    BY <2>2, CommitColumns
  <2>. QED  BY <2>1, <2>2, <2>3, CurrentColumns
<1>. QED  BY <1>2, <1>3, <1>4, <1>5, <1>6

(* The commits of wait_for_callback and run_post_install. *)
LEMMA PostInstallColumns ==
    ASSUME TypeInv, NEW e \in Execs, SlotInv(e)
    PROVE  /\ BeginPostInstall(e) =>
                MovesTo("post_install") /\ CanTransition(row.state, "post_install")
           /\ Configure(e) =>
                MovesTo("configuring") /\ CanTransition(row.state, "configuring")
           /\ Complete(e) =>
                /\ RowBecomes("completed", row.vm_moref, FALSE, row.app_token)
                /\ CanTransition(row.state, "completed")
           /\ Eject(e) => RowBecomes(row.state, row.vm_moref, FALSE, row.app_token)
           /\ ReResolve(e) => RowStays
           /\ InstallApps(e) =>
                RowBecomes(row.state, row.vm_moref, row.floppy_path, TRUE)
           /\ FinishApps(e) =>
                RowBecomes(row.state, row.vm_moref, row.floppy_path, FALSE)
<1>. USE DEF TypeInv, TypeOK, SlotInv, LoadedPcs, TryPcs
<1>1. BeginPostInstall(e) =>
        MovesTo("post_install") /\ CanTransition(row.state, "post_install")
  BY TransitionMoves DEF BeginPostInstall, DeploymentState
<1>2. Configure(e) =>
        MovesTo("configuring") /\ CanTransition(row.state, "configuring")
  BY TransitionMoves DEF Configure, DeploymentState
<1>3. ASSUME Complete(e)
      PROVE  /\ RowBecomes("completed", row.vm_moref, FALSE, row.app_token)
             /\ CanTransition(row.state, "completed")
  <2>. DEFINE new == [WithoutFloppy(snap[e]) EXCEPT !.state = "completed"]
  <2>1. /\ new.state = "completed" /\ new.vm_moref = snap[e].vm_moref
        /\ new.floppy_path = FALSE /\ new.app_token = snap[e].app_token
    BY DEF WithoutFloppy, Rows
  <2>2. /\ Current(e) /\ row' = Flush(row, snap[e], new) /\ new \in Rows
        /\ CanTransition(snap[e].state, "completed")
    BY <1>3, SessionTypes DEF Complete, Write
  <2>3. RowBecomes(new.state, new.vm_moref, new.floppy_path, new.app_token)
    BY <2>2, CommitColumns
  <2>. QED  BY <2>1, <2>2, <2>3, CurrentColumns
<1>4. ASSUME Eject(e)
      PROVE  RowBecomes(row.state, row.vm_moref, FALSE, row.app_token)
  <2>. DEFINE new == WithoutFloppy(snap[e])
  <2>1. /\ new.state = snap[e].state /\ new.vm_moref = snap[e].vm_moref
        /\ new.floppy_path = FALSE /\ new.app_token = snap[e].app_token
    BY DEF WithoutFloppy, Rows
  <2>2. Current(e) /\ row' = Flush(row, snap[e], new) /\ new \in Rows
    BY <1>4, SessionTypes DEF Eject, Write
  <2>3. RowBecomes(new.state, new.vm_moref, new.floppy_path, new.app_token)
    BY <2>2, CommitColumns
  <2>. QED  BY <2>1, <2>2, <2>3, CurrentColumns
<1>5. ASSUME ReResolve(e)
      PROVE  RowStays
  <2>. DEFINE new == [snap[e] EXCEPT !.reported_ip = snap[e].vm_moref]
  <2>1. /\ new \in Rows /\ new.state = snap[e].state /\ new.vm_moref = snap[e].vm_moref
        /\ new.floppy_path = snap[e].floppy_path /\ new.app_token = snap[e].app_token
    BY DEF Rows
  <2>2. Current(e) /\ (row' = Flush(row, snap[e], new) \/ row' = row)
    BY <1>5 DEF ReResolve, Write
  <2>3. CASE row' = row
    BY <2>3 DEF RowStays, MovesTo, RowBecomes
  <2>4. CASE row' = Flush(row, snap[e], new)
    <3>1. RowBecomes(new.state, new.vm_moref, new.floppy_path, new.app_token)
      BY <2>1, <2>2, <2>4, CommitColumns
    <3>. QED  BY <2>1, <2>2, <3>1, CurrentColumns DEF RowStays, MovesTo
  <2>. QED  BY <2>2, <2>3, <2>4
<1>6. ASSUME NEW b \in BOOLEAN, Current(e),
             Write(e, [snap[e] EXCEPT !.app_token = b])
      PROVE  RowBecomes(row.state, row.vm_moref, row.floppy_path, b)
  <2>. DEFINE new == [snap[e] EXCEPT !.app_token = b]
  <2>1. /\ new \in Rows /\ new.state = snap[e].state /\ new.vm_moref = snap[e].vm_moref
        /\ new.floppy_path = snap[e].floppy_path /\ new.app_token = b
    BY DEF Rows
  <2>2. row' = Flush(row, snap[e], new)
    BY <1>6 DEF Write
  <2>3. RowBecomes(new.state, new.vm_moref, new.floppy_path, new.app_token)
    BY <1>6, <2>1, <2>2, CommitColumns
  <2>. QED  BY <1>6, <2>1, <2>3, CurrentColumns
<1>7. /\ InstallApps(e) => RowBecomes(row.state, row.vm_moref, row.floppy_path, TRUE)
      /\ FinishApps(e) => RowBecomes(row.state, row.vm_moref, row.floppy_path, FALSE)
  BY <1>6 DEF InstallApps, FinishApps
<1>. QED  BY <1>1, <1>2, <1>3, <1>4, <1>5, <1>7

(* The commits of _fail. *)
LEMMA FailColumns ==
    ASSUME TypeInv, NEW e \in Execs, SlotInv(e)
    PROVE  /\ FailCleanup(e) \/ FailCommit(e) =>
                (KeepsVm(snap[e]) <=> KeepsVm(row))
           /\ FailCleanup(e) =>
                IF KeepsVm(row)
                THEN RowBecomes(row.state, row.vm_moref, FALSE, FALSE)
                ELSE RowStays
           /\ FailCommit(e) =>
                RowBecomes(IF CanTransition(row.state, "failed") THEN "failed"
                           ELSE row.state,
                           IF KeepsVm(row) THEN row.vm_moref ELSE NoVm,
                           FALSE, FALSE)
<1>. USE DEF TypeInv, TypeOK, SlotInv, LoadedPcs, TryPcs
<1>1. ASSUME FailCleanup(e) \/ FailCommit(e)
      PROVE  Current(e) /\ (KeepsVm(snap[e]) <=> KeepsVm(row))
  <2>1. Current(e)
    BY <1>1 DEF FailCleanup, FailCommit
  <2>. QED  BY <2>1, CurrentColumns DEF KeepsVm
<1>2. ASSUME FailCleanup(e)
      PROVE  IF KeepsVm(row) THEN RowBecomes(row.state, row.vm_moref, FALSE, FALSE)
             ELSE RowStays
  <2>. DEFINE new == WithoutSecrets(snap[e])
  <2>1. /\ new.state = snap[e].state /\ new.vm_moref = snap[e].vm_moref
        /\ new.floppy_path = FALSE /\ new.app_token = FALSE
    BY DEF WithoutSecrets, Rows
  <2>2. CASE KeepsVm(row)
    <3>1. new \in Rows /\ row' = Flush(row, snap[e], new)
      BY <1>1, <1>2, <2>2, SessionTypes DEF FailCleanup, Write
    <3>2. RowBecomes(new.state, new.vm_moref, new.floppy_path, new.app_token)
      BY <1>1, <1>2, <2>1, <3>1, CommitColumns
    <3>. QED  BY <1>1, <1>2, <2>1, <2>2, <3>2, CurrentColumns
  <2>3. CASE ~KeepsVm(row)
    BY <1>1, <1>2, <2>3 DEF FailCleanup, RowStays, MovesTo, RowBecomes
  <2>. QED  BY <2>2, <2>3
<1>3. ASSUME FailCommit(e)
      PROVE  RowBecomes(IF CanTransition(row.state, "failed") THEN "failed"
                        ELSE row.state,
                        IF KeepsVm(row) THEN row.vm_moref ELSE NoVm,
                        FALSE, FALSE)
  <2>. DEFINE new == Failed(snap[e])
  <2>1. /\ new.state = IF CanTransition(snap[e].state, "failed") THEN "failed"
                       ELSE snap[e].state
        /\ new.vm_moref = IF KeepsVm(snap[e]) THEN snap[e].vm_moref ELSE NoVm
        /\ new.floppy_path = FALSE /\ new.app_token = FALSE
    BY DEF Failed, WithoutSecrets, Rows
  <2>2. new \in Rows /\ row' = Flush(row, snap[e], new)
    BY <1>3, SessionTypes DEF FailCommit
  <2>3. RowBecomes(new.state, new.vm_moref, new.floppy_path, new.app_token)
    BY <1>1, <1>3, <2>1, <2>2, CommitColumns
  <2>. QED  BY <1>1, <1>3, <2>1, <2>3, CurrentColumns
<1>. QED  BY <1>1, <1>2, <1>3

(* The commit of a retry. *)
LEMMA RetryColumns ==
    ASSUME TypeInv, NEW e \in Execs, Current(e), CommitRetry(e)
    PROVE  IF job[e] = "run_deployment"
           THEN RowBecomes("pending", NoVm, FALSE, row.app_token)
           ELSE MovesTo("installing_os")
<1>. USE DEF TypeInv, TypeOK
<1>1. snap[e].retry_count < MaxRetries
  BY DEF CommitRetry, RetriesLeft
<1>2. CASE job[e] = "run_deployment"
  <2>. DEFINE new == Retried(snap[e])
  <2>1. /\ new.state = "pending" /\ new.vm_moref = NoVm
        /\ new.floppy_path = FALSE /\ new.app_token = snap[e].app_token
    BY DEF Retried, Rows
  <2>2. new \in Rows /\ row' = Flush(row, snap[e], new)
    BY <1>1, <1>2, SessionTypes DEF CommitRetry, Write
  <2>3. RowBecomes(new.state, new.vm_moref, new.floppy_path, new.app_token)
    BY <2>2, CommitColumns
  <2>. QED  BY <1>2, <2>1, <2>3, CurrentColumns
<1>3. CASE job[e] # "run_deployment"
  <2>. DEFINE new == RetriedPostInstall(snap[e])
  <2>1. /\ new.state = "installing_os" /\ new.vm_moref = snap[e].vm_moref
        /\ new.floppy_path = snap[e].floppy_path /\ new.app_token = snap[e].app_token
    BY DEF RetriedPostInstall, Rows
  <2>2. new \in Rows /\ row' = Flush(row, snap[e], new)
    BY <1>1, <1>3, SessionTypes DEF CommitRetry, Write
  <2>3. RowBecomes(new.state, new.vm_moref, new.floppy_path, new.app_token)
    BY <2>2, CommitColumns
  <2>. QED  BY <1>3, <2>1, <2>3, CurrentColumns DEF MovesTo
<1>. QED  BY <1>2, <1>3

(* Every other step of a slot leaves the row alone. *)
QuietStep(e) ==
    \/ RunDeployment(e) \/ UploadFloppy(e) \/ CreateVm(e) \/ PowerOn(e)
    \/ EnqueueWait(e) \/ WaitForCallback(e) \/ Poll(e) \/ PollTimeout(e)
    \/ RunPostInstall(e) \/ CloseWinRm(e) \/ Announce(e) \/ Raise(e)
    \/ CreateVmRaises(e) \/ CleanupDeployment(e) \/ Enqueue(e)

LEMMA QuietColumns == ASSUME NEW e \in Execs, QuietStep(e) PROVE UNCHANGED row
BY DEF QuietStep, RunDeployment, UploadFloppy, CreateVm, PowerOn, EnqueueWait,
       WaitForCallback, Poll, PollTimeout, RunPostInstall, CloseWinRm, Announce,
       Raise, CreateVmRaises, CleanupDeployment, Enqueue, database

(* Whatever is not a step of a slot leaves the worker's columns alone. *)
OtherStep == \/ Request \/ TimePasses \/ SweepStaleDeployments \/ GuestStep
             \/ Mishap \/ UNCHANGED vars

LEMMA OtherColumns == ASSUME TypeInv, OtherStep PROVE RowStays
<1>. USE DEF RowStays, MovesTo, RowBecomes
<1>1. CASE Request \/ TimePasses \/ SweepStaleDeployments \/ UNCHANGED vars
  BY <1>1 DEF Request, RequestRetry, TimePasses, SweepStaleDeployments, vars, database
<1>2. CASE GuestStep
  <2>1. ASSUME NEW v \in Vms, GuestSpecializes(v) \/ GuestInstalls(v)
        PROVE  UNCHANGED row
    BY <2>1 DEF GuestSpecializes, GuestInstalls, database
  <2>2. ASSUME NEW v \in Vms, DeploymentNetworkPing(v) \/ DeploymentCallback(v)
        PROVE  RowStays
    BY <2>2 DEF TypeInv, TypeOK, Rows, DeploymentNetworkPing, DeploymentCallback
  <2>. QED  BY <1>2, <2>1, <2>2 DEF GuestStep
<1>3. CASE Mishap
  BY <1>3 DEF TypeInv, TypeOK, Rows, Mishap, Redeliver, Crash, Cancel,
              DeleteTemplate, database
<1>. QED  BY <1>1, <1>2, <1>3 DEF OtherStep

-----------------------------------------------------------------------------
(* The lifecycle.  A commit implements an operation of the promise because *)
(* of where its slot is: the machine is recorded while the deployment is   *)
(* creating_vm and has none, every later state has one, a retry commits    *)
(* over a failed deployment, and _fail never runs on a completed one.      *)

WithVmStates == {"booting", "installing_os", "post_install", "configuring",
                 "completed"}

RowSound ==
    /\ row.state = "pending" => row.vm_moref = NoVm
    /\ row.state \in WithVmStates => row.vm_moref # NoVm

(* A retry that was admitted can still be. *)
RetrySound(e) ==
    pc[e] = "api_loaded" =>
        /\ row.state = "failed"
        /\ job[e] # "run_deployment" => row.vm_moref # NoVm

CreatingPcs == {"rd_floppy", "rd_floppy_done", "rd_create", "rd_created"}

CreationSound(e) ==
    /\ pc[e] \in CreatingPcs => row.state = "creating_vm" /\ row.vm_moref = NoVm
    /\ pc[e] = "rd_attach" => row.vm_moref # NoVm
    /\ pc[e] \in {"rd_power", "rd_booted"} => row.state = "booting"

GuestPcs == {"wait_poll", "wait_eject", "post_start", "post_reach",
             "post_rereach", "post_apps", "post_installing", "post_scripts",
             "configuring", "complete", "announce"}

GuestJobs == {"wait_for_callback", "run_post_install"}

JobSound(e) == /\ Busy(e) => job[e] # "cleanup_deployment"
               /\ pc[e] \in GuestPcs => job[e] \in GuestJobs

(* The driver of a completed deployment has nothing left but the notices:  *)
(* if it is interrupted there, the job that is tried again ends at once.   *)
CompletedSound(e) ==
    row.state = "completed" /\ Busy(e) =>
        job[e] \in GuestJobs /\ pc[e] \in {"announce", "queued"}

SlotSound(e) == RetrySound(e) /\ CreationSound(e) /\ JobSound(e) /\ CompletedSound(e)

LifeInv == RowSound /\ \A e \in Execs : SlotSound(e)

LifecycleMove == Lifecycle!Next \/ UNCHANGED Lifecycle!lifecycle

LEMMA LifecycleRelations ==
    ASSUME NEW from, NEW to
    PROVE  /\ Lifecycle!CanTransition(from, to) <=> CanTransition(from, to)
           /\ Lifecycle!DeploymentState = DeploymentState
           /\ Lifecycle!KEEPABLE_ON_FAILURE_STATES = KEEPABLE_ON_FAILURE_STATES
BY DEF Lifecycle!CanTransition, CanTransition, Lifecycle!DeploymentState,
       DeploymentState, Lifecycle!KEEPABLE_ON_FAILURE_STATES,
       KEEPABLE_ON_FAILURE_STATES, Lifecycle!TERMINAL_STATES, TERMINAL_STATES,
       Lifecycle!ALLOWED_TRANSITIONS, ALLOWED_TRANSITIONS

LEMMA MoveAdvances ==
    ASSUME NEW to \in DeploymentState \ {"failed"}, MovesTo(to),
           CanTransition(row.state, to),
           to # "creating_vm" => row.vm_moref # NoVm
    PROVE  LifecycleMove
<1>1. Lifecycle!Advance
  BY LifecycleRelations DEF Lifecycle!Advance, MovesTo, RowBecomes
<1>. QED  BY <1>1 DEF LifecycleMove, Lifecycle!Next

LEMMA StayMoves ==
    ASSUME row'.state = row.state, row'.vm_moref = row.vm_moref
    PROVE  LifecycleMove
BY DEF LifecycleMove, Lifecycle!lifecycle

(* Which states have a machine, after a step forward. *)
LEMMA Forward ==
    ASSUME NEW from, NEW to, CanTransition(from, to), to # "failed"
    PROVE  /\ to = "creating_vm" => from = "pending"
           /\ to = "booting" => from = "creating_vm"
           /\ to = "installing_os" => from = "booting"
           /\ to = "post_install" => from = "installing_os"
           /\ to = "configuring" => from = "post_install"
           /\ to = "completed" => from = "configuring"
BY DEF CanTransition, ALLOWED_TRANSITIONS

LEMMA RunDeploymentLife ==
    ASSUME TypeInv, NEW e \in Execs, SlotInv(e), RowSound, SlotSound(e),
           RunDeploymentStep(e)
    PROVE  RowSound' /\ SlotSound(e)' /\ LifecycleMove
<1>. USE DEF TypeInv, TypeOK, Goto, RowSound, WithVmStates, SlotSound, RetrySound,
             CreationSound, CreatingPcs, JobSound, GuestPcs, GuestJobs,
             CompletedSound, Busy
<1>1. CASE BeginCreate(e)
  <2>1. MovesTo("creating_vm") /\ CanTransition(row.state, "creating_vm")
    BY <1>1, RunDeploymentColumns
  <2>2. row.vm_moref = NoVm
    BY <2>1, Forward
  <2>3. LifecycleMove
    BY <2>1, MoveAdvances DEF DeploymentState
  <2>. QED  BY <1>1, <2>1, <2>2, <2>3 DEF BeginCreate, MovesTo, RowBecomes
<1>2. CASE AttachAndBoot(e)
  <2>1. MovesTo("booting") /\ CanTransition(row.state, "booting")
    BY <1>1, <1>2, RunDeploymentColumns
  <2>2. row.vm_moref # NoVm
    BY <1>2 DEF AttachAndBoot
  <2>3. LifecycleMove
    BY <2>1, <2>2, MoveAdvances DEF DeploymentState
  <2>. QED  BY <1>2, <2>1, <2>2, <2>3 DEF AttachAndBoot, MovesTo, RowBecomes
<1>3. CASE EnterInstallingOs(e)
  <2>1. MovesTo("installing_os") /\ CanTransition(row.state, "installing_os")
    BY <1>3, RunDeploymentColumns
  <2>2. row.vm_moref # NoVm
    BY <2>1, Forward
  <2>3. LifecycleMove
    BY <2>1, <2>2, MoveAdvances DEF DeploymentState
  <2>. QED  BY <1>3, <2>1, <2>2, <2>3 DEF EnterInstallingOs, MovesTo, RowBecomes
<1>4. CASE RecordFloppy(e)
  <2>1. row'.state = row.state /\ row'.vm_moref = row.vm_moref
    BY <1>4, RunDeploymentColumns DEF RowBecomes
  <2>2. LifecycleMove
    BY <2>1, StayMoves
  <2>. QED  BY <1>4, <2>1, <2>2 DEF RecordFloppy
<1>5. CASE RecordVm(e)
  <2>1. row'.state = row.state /\ row'.vm_moref = ref[e]
    BY <1>5, RunDeploymentColumns DEF RowBecomes
  <2>2. row.state = "creating_vm" /\ row.vm_moref = NoVm /\ ref[e] # NoVm
    BY <1>5, ProvisioningAssumption DEF RecordVm, HoldsVm
  <2>3. Lifecycle!Create
    BY <2>1, <2>2 DEF Lifecycle!Create
  <2>. QED  BY <1>5, <2>1, <2>2, <2>3 DEF RecordVm, LifecycleMove, Lifecycle!Next
<1>6. CASE \/ RunDeployment(e) \/ UploadFloppy(e) \/ CreateVm(e) \/ PowerOn(e)
           \/ EnqueueWait(e)
  <2>1. UNCHANGED row
    BY <1>6, QuietColumns DEF QuietStep
  <2>2. LifecycleMove
    BY <2>1, StayMoves
  <2>3. CASE RunDeployment(e)
    BY <2>1, <2>2, <2>3 DEF RunDeployment, Starts
  <2>4. CASE UploadFloppy(e) \/ CreateVm(e)
    BY <2>1, <2>2, <2>4 DEF UploadFloppy, CreateVm
  <2>5. CASE PowerOn(e) \/ EnqueueWait(e)
    BY <2>1, <2>2, <2>5 DEF PowerOn, EnqueueWait
  <2>. QED  BY <1>6, <2>3, <2>4, <2>5
<1>. QED  BY <1>1, <1>2, <1>3, <1>4, <1>5, <1>6 DEF RunDeploymentStep

LEMMA WaitLife ==
    ASSUME TypeInv, NEW e \in Execs, SlotInv(e), RowSound, SlotSound(e),
           WaitStep(e) \/ PollTimeout(e)
    PROVE  RowSound' /\ SlotSound(e)' /\ LifecycleMove
<1>. USE DEF TypeInv, TypeOK, Goto, RowSound, WithVmStates, SlotSound, RetrySound,
             CreationSound, CreatingPcs, JobSound, GuestPcs, GuestJobs,
             CompletedSound, Busy
<1>1. row'.state = row.state /\ row'.vm_moref = row.vm_moref
  BY PostInstallColumns, QuietColumns DEF WaitStep, QuietStep, RowBecomes
<1>2. LifecycleMove
  BY <1>1, StayMoves
<1>3. CASE WaitForCallback(e)
  BY <1>1, <1>2, <1>3 DEF WaitForCallback, Starts, Stop, AwaitsCallback
<1>4. CASE Poll(e)
  BY <1>1, <1>2, <1>4 DEF Poll, Stop
<1>5. CASE Eject(e) \/ PollTimeout(e)
  BY <1>1, <1>2, <1>5 DEF Eject, PollTimeout
<1>. QED  BY <1>3, <1>4, <1>5 DEF WaitStep

LEMMA PostInstallLife ==
    ASSUME TypeInv, NEW e \in Execs, SlotInv(e), RowSound, SlotSound(e),
           "dispatch" \notin Incidents, PostInstallStep(e)
    PROVE  RowSound' /\ SlotSound(e)' /\ LifecycleMove
<1>. USE DEF TypeInv, TypeOK, Goto, RowSound, WithVmStates, SlotSound, RetrySound,
             CreationSound, CreatingPcs, JobSound, GuestPcs, GuestJobs,
             CompletedSound, Busy
<1>1. ASSUME NEW to \in {"post_install", "configuring", "completed"},
             row'.state = to, row'.vm_moref = row.vm_moref,
             CanTransition(row.state, to)
      PROVE  RowSound' /\ LifecycleMove
  <2>1. row.vm_moref # NoVm
    BY <1>1, Forward
  <2>2. Lifecycle!Advance
    BY <1>1, <2>1, LifecycleRelations DEF Lifecycle!Advance, DeploymentState
  <2>. QED  BY <1>1, <2>1, <2>2 DEF LifecycleMove, Lifecycle!Next
<1>2. CASE BeginPostInstall(e)
  <2>1. /\ row'.state = "post_install" /\ row'.vm_moref = row.vm_moref
        /\ CanTransition(row.state, "post_install")
    BY <1>2, PostInstallColumns DEF MovesTo, RowBecomes
  <2>2. RowSound' /\ LifecycleMove
    BY <1>1, <2>1
  <2>. QED  BY <1>2, <2>1, <2>2 DEF BeginPostInstall
<1>3. CASE Configure(e)
  <2>1. /\ row'.state = "configuring" /\ row'.vm_moref = row.vm_moref
        /\ CanTransition(row.state, "configuring")
    BY <1>3, PostInstallColumns DEF MovesTo, RowBecomes
  <2>2. RowSound' /\ LifecycleMove
    BY <1>1, <2>1
  <2>. QED  BY <1>3, <2>1, <2>2 DEF Configure
<1>4. CASE Complete(e)
  <2>1. /\ row'.state = "completed" /\ row'.vm_moref = row.vm_moref
        /\ CanTransition(row.state, "completed")
    BY <1>4, PostInstallColumns DEF RowBecomes
  <2>2. RowSound' /\ LifecycleMove
    BY <1>1, <2>1
  <2>. QED  BY <1>4, <2>1, <2>2 DEF Complete
<1>5. CASE \/ RunPostInstall(e) \/ ReResolve(e) \/ InstallApps(e) \/ FinishApps(e)
           \/ CloseWinRm(e) \/ Announce(e)
  <2>1. row'.state = row.state /\ row'.vm_moref = row.vm_moref
    BY <1>5, PostInstallColumns, QuietColumns
       DEF QuietStep, RowStays, MovesTo, RowBecomes
  <2>2. LifecycleMove
    BY <2>1, StayMoves
  <2>3. CASE RunPostInstall(e)
    BY <2>1, <2>2, <2>3 DEF RunPostInstall, Starts, Stop, AwaitsPostInstall
  <2>4. CASE ReResolve(e) \/ InstallApps(e) \/ FinishApps(e) \/ CloseWinRm(e)
    BY <2>1, <2>2, <2>4 DEF ReResolve, InstallApps, FinishApps, CloseWinRm
  <2>5. CASE Announce(e)
    BY <2>1, <2>2, <2>5 DEF Announce, Stop, Incident
  <2>. QED  BY <1>5, <2>3, <2>4, <2>5
<1>. QED  BY <1>2, <1>3, <1>4, <1>5 DEF PostInstallStep

LEMMA FailLife ==
    ASSUME TypeInv, NEW e \in Execs, SlotInv(e), RowSound, SlotSound(e), FailStep(e)
    PROVE  RowSound' /\ SlotSound(e)' /\ LifecycleMove
<1>. USE DEF TypeInv, TypeOK, Goto, RowSound, WithVmStates, SlotSound, RetrySound,
             CreationSound, CreatingPcs, JobSound, GuestPcs, GuestJobs,
             CompletedSound, Busy
<1>1. CASE Raise(e) \/ CreateVmRaises(e) \/ CleanupDeployment(e)
  <2>1. UNCHANGED row
    BY <1>1, QuietColumns DEF QuietStep
  <2>2. LifecycleMove
    BY <2>1, StayMoves
  <2>3. CASE Raise(e) \/ CleanupDeployment(e)
    BY <2>1, <2>2, <2>3 DEF Raise, CleanupDeployment, Starts, TryPcs
  <2>4. CASE CreateVmRaises(e)
    BY <2>1, <2>2, <2>4 DEF CreateVmRaises
  <2>. QED  BY <1>1, <2>3, <2>4
<1>2. CASE FailCleanup(e)
  <2>1. row'.state = row.state /\ row'.vm_moref = row.vm_moref
    BY <1>2, FailColumns DEF RowStays, MovesTo, RowBecomes
  <2>2. LifecycleMove
    BY <2>1, StayMoves
  <2>. QED  BY <1>2, <2>1, <2>2 DEF FailCleanup
<1>3. CASE FailCommit(e)
  <2>1. row.state \notin TERMINAL_STATES
    BY <1>3 DEF FailCommit, SlotInv, TERMINAL_STATES
  <2>2. CanTransition(row.state, "failed")
    BY <2>1 DEF CanTransition
  <2>3. /\ row'.state = "failed"
        /\ row'.vm_moref = IF KeepsVm(row) THEN row.vm_moref ELSE NoVm
    BY <1>3, <2>2, FailColumns DEF RowBecomes
  <2>4. Lifecycle!Fail
    BY <2>2, <2>3, LifecycleRelations DEF Lifecycle!Fail, KeepsVm
  <2>5. LifecycleMove
    BY <2>4 DEF LifecycleMove, Lifecycle!Next
  <2>. QED  BY <1>3, <2>3, <2>5 DEF FailCommit, Stop
<1>. QED  BY <1>1, <1>2, <1>3 DEF FailStep

LEMMA ApiLife ==
    ASSUME TypeInv, NEW e \in Execs, SlotInv(e), RowSound, SlotSound(e), ApiStep(e)
    PROVE  RowSound' /\ SlotSound(e)' /\ LifecycleMove
<1>. USE DEF TypeInv, TypeOK, Goto, RowSound, WithVmStates, SlotSound, RetrySound,
             CreationSound, CreatingPcs, JobSound, GuestPcs, GuestJobs,
             CompletedSound, Busy
<1>1. CASE CommitRetry(e)
  <2>1. Current(e) /\ row.state = "failed"
    BY <1>1 DEF CommitRetry, SlotInv, LoadedPcs
  <2>2. CASE job[e] = "run_deployment"
    <3>1. row'.state = "pending" /\ row'.vm_moref = NoVm
      BY <1>1, <2>1, <2>2, RetryColumns DEF RowBecomes
    <3>2. Lifecycle!Retry
      BY <2>1, <3>1 DEF Lifecycle!Retry
    <3>. QED  BY <1>1, <3>1, <3>2 DEF CommitRetry, LifecycleMove, Lifecycle!Next
  <2>3. CASE job[e] # "run_deployment"
    <3>1. row'.state = "installing_os" /\ row'.vm_moref = row.vm_moref
      BY <1>1, <2>1, <2>3, RetryColumns DEF MovesTo, RowBecomes
    <3>2. row.vm_moref # NoVm
      BY <1>1, <2>3 DEF CommitRetry
    <3>3. Lifecycle!RetryPostInstall
      BY <2>1, <3>1, <3>2 DEF Lifecycle!RetryPostInstall
    <3>. QED  BY <1>1, <3>1, <3>2, <3>3 DEF CommitRetry, LifecycleMove, Lifecycle!Next
  <2>. QED  BY <2>2, <2>3
<1>2. CASE Enqueue(e)
  <2>1. UNCHANGED row
    BY <1>2, QuietColumns DEF QuietStep
  <2>2. LifecycleMove
    BY <2>1, StayMoves
  <2>. QED  BY <1>2, <2>1, <2>2 DEF Enqueue
<1>. QED  BY <1>1, <1>2 DEF ApiStep

(* The slots that do not move are idle, before and after. *)
LEMMA OthersIdle ==
    ASSUME TypeInv, SerialInv, NEW e \in Execs, Step(e) \/ PollTimeout(e)
    PROVE  SlotInv(e) /\ \A f \in Execs \ {e} : ~Busy(f) /\ ~Busy(f)'
<1>1. SlotInv(e)
  BY SerialBySlots
<1>2. \A f \in Execs \ {e} : ~Busy(f) /\ ~Busy(f)'
  BY StepMovesItsSlot DEF SerialInv, SoleDriver, Busy
<1>. QED  BY <1>1, <1>2

LEMMA SlotLife ==
    ASSUME TypeInv, SerialInv, LifeInv, "dispatch" \notin Incidents,
           NEW e \in Execs, Step(e) \/ PollTimeout(e)
    PROVE  LifeInv' /\ LifecycleMove
<1>1. SlotInv(e) /\ \A f \in Execs \ {e} : ~Busy(f)'
  BY OthersIdle
<1>2. RowSound' /\ SlotSound(e)' /\ LifecycleMove
  BY <1>1, RunDeploymentLife, WaitLife, PostInstallLife, FailLife, ApiLife
     DEF Step, LifeInv
<1>3. \A f \in Execs \ {e} : SlotSound(f)'
  BY <1>1 DEF Busy, SlotSound, RetrySound, CreationSound, CreatingPcs, JobSound,
              GuestPcs, CompletedSound
<1>. QED  BY <1>2, <1>3 DEF LifeInv

(* A retry request leaves every other slot idle; nothing else outside the  *)
(* slots' own steps wakes one, since the sweep is away.                    *)
LEMMA OthersLife ==
    ASSUME TypeInv, SerialInv, LifeInv, SerialEnvironment, OtherStep
    PROVE  LifeInv' /\ LifecycleMove
<1>. USE DEF TypeInv, TypeOK
<1>1. row'.state = row.state /\ row'.vm_moref = row.vm_moref
  BY OtherColumns DEF RowStays, MovesTo, RowBecomes
<1>2. RowSound' /\ LifecycleMove
  BY <1>1, StayMoves DEF RowSound, LifeInv
<1>3. ASSUME NEW e \in Execs
      PROVE  SlotSound(e)'
  <2>. USE DEF SlotSound, RetrySound, CreationSound, CreatingPcs, JobSound,
               GuestPcs, CompletedSound, Busy, LifeInv
  <2>1. CASE UNCHANGED <<pc, job>>
    BY <1>1, <2>1
  <2>2. CASE Request
    BY <1>1, <2>2, ProvisioningAssumption
       DEF Request, RequestRetry, MayRetry, JobOf, Goto
  <2>3. CASE Mishap
    <3>1. CASE DeleteTemplate
      BY <2>1, <3>1 DEF DeleteTemplate, slots
    <3>2. ASSUME NEW f \in Execs, Crash(f) \/ Cancel(f)
          PROVE  SlotSound(e)'
      BY <1>1, <3>2 DEF Crash, Cancel, Stop, ApiPcs
    <3>3. ~\E f, g \in Execs : Redeliver(f, g)
      BY DEF Redeliver, Incident, SerialEnvironment
    <3>. QED  BY <2>3, <3>1, <3>2, <3>3 DEF Mishap
  <2>4. CASE TimePasses \/ SweepStaleDeployments
    BY <2>4 DEF TimePasses, SweepStaleDeployments, SerialEnvironment
  <2>5. CASE GuestStep \/ UNCHANGED vars
    BY <2>1, <2>5 DEF GuestStep, GuestSpecializes, GuestInstalls,
                      DeploymentNetworkPing, DeploymentCallback, slots, vars
  <2>. QED  BY <2>2, <2>3, <2>4, <2>5 DEF OtherStep
<1>. QED  BY <1>2, <1>3 DEF LifeInv

LEMMA LifeInit == Init => LifeInv
<1> SUFFICES ASSUME Init PROVE LifeInv
  OBVIOUS
<1>1. row.state = "pending" /\ row.vm_moref = NoVm
  BY DEF Init, NewRow
<1>2. \A e \in Execs : \/ pc[e] = "idle"
                       \/ pc[e] = "api_enqueue" /\ job[e] = "run_deployment"
  BY DEF Init
<1>. QED  BY <1>1, <1>2 DEF LifeInv, RowSound, WithVmStates, SlotSound, RetrySound,
                            CreationSound, CreatingPcs, JobSound, GuestPcs,
                            CompletedSound, Busy

LEMMA LifeStep ==
    ASSUME CalmEnvironment, TypeInv, SerialInv, LifeInv, [Next]_vars
    PROVE  LifeInv' /\ LifecycleMove
<1>1. \/ \E e \in Execs : Step(e) \/ PollTimeout(e)
      \/ OtherStep
  BY DEF Next, OtherStep
<1>. QED  BY <1>1, SlotLife, OthersLife DEF CalmEnvironment

LEMMA LifeInvariance ==
    ASSUME CalmEnvironment
    PROVE  Spec => []LifeInv
<1>1. TypeInv /\ SerialInv /\ LifeInv /\ [Next]_vars => LifeInv'
  BY LifeStep
<1>2. Spec => []SerialInv
  BY SerialInvariance DEF CalmEnvironment
<1>. QED  BY <1>1, <1>2, LifeInit, TypeInvariance, PTL DEF Spec

(* Every commit of the worker and of the API is an operation of the        *)
(* promise or changes nothing an operator sees, however many slots,        *)
(* machines, crashes, cancelled jobs, lost deletions and retries there are.*)
THEOREM PipelineImplementsLifecycle ==
    ASSUME CalmEnvironment
    PROVE  Spec => LifecycleSpec
<1>1. Init => Lifecycle!Init
  BY DEF Init, Lifecycle!Init, NewRow
<1>2. TypeInv /\ SerialInv /\ LifeInv /\ [Next]_vars =>
        [Lifecycle!Next]_(Lifecycle!lifecycle)
  BY LifeStep DEF LifecycleMove
<1>3. Spec => []SerialInv
  BY SerialInvariance DEF CalmEnvironment
<1>. QED
  BY <1>1, <1>2, <1>3, LifeInvariance, TypeInvariance, PTL
     DEF Spec, LifecycleSpec, Lifecycle!Spec

===============================================================================
