----------------------------- MODULE MachineProofs -----------------------------
(***************************************************************************)
(* What the pipeline of module Provisioning leaves behind agrees with what *)
(* its row says: the machine a deployment names, how far Windows got on    *)
(* it, the media Setup runs from, the secrets in the datastore.  Every     *)
(* invariant below is a small one on top of those of ProvisioningProofs    *)
(* and LifecycleProofs; a step is dealt with by what it changes, and by    *)
(* the place in the code it enters.                                        *)
(***************************************************************************)
EXTENDS LifecycleProofs

SlotStep(e) == Step(e) \/ PollTimeout(e)

(* The only steps that change each part of the row ... *)
LEMMA RowChanges ==
    ASSUME TypeInv, SerialInv, NEW e \in Execs, SlotStep(e)
    PROVE  /\ row'.state # row.state =>
                \/ BeginCreate(e) \/ AttachAndBoot(e) \/ EnterInstallingOs(e)
                \/ BeginPostInstall(e) \/ Configure(e) \/ Complete(e)
                \/ FailCommit(e) \/ CommitRetry(e)
           /\ row'.vm_moref # row.vm_moref =>
                RecordVm(e) \/ FailCommit(e) \/ CommitRetry(e)
           /\ row'.floppy_path # row.floppy_path =>
                \/ RecordFloppy(e) \/ Eject(e) \/ Complete(e) \/ FailCleanup(e)
                \/ FailCommit(e) \/ CommitRetry(e)
           /\ row'.app_token # row.app_token =>
                \/ InstallApps(e) \/ FinishApps(e) \/ FailCleanup(e)
                \/ FailCommit(e)
           /\ row'.token_used # row.token_used => CommitRetry(e)
<1>1. SlotInv(e)
  BY OthersIdle DEF SlotStep
<1>. USE DEF RowStays, MovesTo, RowBecomes
<1>2. CASE RunDeploymentStep(e)
  <2>1. TokenKept
    BY <1>2, WorkerKeepsToken
  <2>. QED  BY <1>1, <1>2, <2>1, RunDeploymentColumns, QuietColumns
               DEF RunDeploymentStep, QuietStep, TokenKept
<1>3. CASE WaitStep(e) \/ PollTimeout(e)
  <2>1. TokenKept
    BY <1>3, WorkerKeepsToken
  <2>. QED  BY <1>1, <1>3, <2>1, PostInstallColumns, QuietColumns
               DEF WaitStep, QuietStep, TokenKept
<1>4. CASE PostInstallStep(e)
  <2>1. TokenKept
    BY <1>4, WorkerKeepsToken
  <2>. QED  BY <1>1, <1>4, <2>1, PostInstallColumns, QuietColumns
               DEF PostInstallStep, QuietStep, TokenKept
<1>5. CASE FailStep(e)
  <2>1. TokenKept
    BY <1>5, WorkerKeepsToken
  <2>. QED  BY <1>1, <1>5, <2>1, FailColumns, QuietColumns
               DEF FailStep, QuietStep, TokenKept
<1>6. CASE ApiStep(e)
  <2>1. CASE CommitRetry(e)
    <3>1. Current(e)
      BY <1>1, <2>1 DEF CommitRetry, SlotInv, LoadedPcs
    <3>. QED  BY <2>1, <3>1, RetryColumns
  <2>2. CASE Enqueue(e)
    BY <2>2, QuietColumns DEF QuietStep
  <2>. QED  BY <1>6, <2>1, <2>2 DEF ApiStep
<1>. QED  BY <1>2, <1>3, <1>4, <1>5, <1>6 DEF SlotStep, Step

(* ... and of the hypervisor. *)
LEMMA HypervisorChanges ==
    ASSUME NEW e \in Execs, SlotStep(e)
    PROVE  /\ guest' # guest =>
                \/ CreateVm(e) \/ CreateVmRaises(e) \/ PowerOn(e)
                \/ CloseWinRm(e) \/ FailCleanup(e)
           /\ media' # media => AttachAndBoot(e) \/ Eject(e) \/ FailCleanup(e)
           /\ floppy' # floppy =>
                UploadFloppy(e) \/ Eject(e) \/ Complete(e) \/ FailCleanup(e)
<1>. USE DEF hypervisor
<1>1. CASE RunDeploymentStep(e)
  BY <1>1 DEF RunDeploymentStep, RunDeployment, BeginCreate, UploadFloppy,
      RecordFloppy, CreateVm, RecordVm, AttachAndBoot, PowerOn,
      EnterInstallingOs, EnqueueWait
<1>2. CASE WaitStep(e) \/ PollTimeout(e)
  BY <1>2 DEF WaitStep, PollTimeout, WaitForCallback, Poll, Eject
<1>3. CASE PostInstallStep(e)
  BY <1>3 DEF PostInstallStep, RunPostInstall, ReResolve, BeginPostInstall,
      InstallApps, FinishApps, Configure, CloseWinRm, Complete, Announce
<1>4. CASE FailStep(e) \/ ApiStep(e)
  BY <1>4 DEF FailStep, ApiStep, Raise, CreateVmRaises, CleanupDeployment,
      FailCleanup, FailCommit, CommitRetry, Enqueue
<1>. QED  BY <1>1, <1>2, <1>3, <1>4 DEF SlotStep, Step

(* The step by which a slot enters a place in the code, and the one by     *)
(* which it leaves the start of a retry.                                   *)
LEMMA Entered ==
    ASSUME TypeInv, NEW e \in Execs, SlotStep(e)
    PROVE  /\ pc'[e] # "api_loaded"
           /\ pc'[e] = "rd_floppy_done" => UploadFloppy(e)
           /\ pc'[e] = "rd_created" => CreateVm(e)
           /\ pc'[e] = "rd_attach" => RecordVm(e)
           /\ pc'[e] = "rd_power" => AttachAndBoot(e)
           /\ pc'[e] = "wait_eject" => WaitForCallback(e) \/ Poll(e)
           /\ pc'[e] = "post_apps" => BeginPostInstall(e)
           /\ pc'[e] = "post_installing" => InstallApps(e)
           /\ pc'[e] = "post_scripts" => FinishApps(e)
           /\ pc'[e] = "configuring" => Configure(e)
           /\ pc'[e] = "complete" => CloseWinRm(e)
           /\ pc'[e] = "fail_commit" => FailCleanup(e)
           /\ pc[e] = "api_loaded" => CommitRetry(e)
<1>. USE DEF TypeInv, TypeOK, Goto
<1>1. CASE RunDeploymentStep(e)
  BY <1>1 DEF RunDeploymentStep, RunDeployment, BeginCreate, UploadFloppy,
      RecordFloppy, CreateVm, RecordVm, AttachAndBoot, PowerOn,
      EnterInstallingOs, EnqueueWait, Starts
<1>2. CASE WaitStep(e) \/ PollTimeout(e)
  BY <1>2 DEF WaitStep, PollTimeout, WaitForCallback, Poll, Eject, Starts, Stop
<1>3. CASE PostInstallStep(e)
  BY <1>3 DEF PostInstallStep, RunPostInstall, ReResolve, BeginPostInstall,
      InstallApps, FinishApps, Configure, CloseWinRm, Complete, Announce, Starts,
      Stop
<1>4. CASE FailStep(e) \/ ApiStep(e)
  BY <1>4 DEF FailStep, ApiStep, Raise, CreateVmRaises, CleanupDeployment,
      FailCleanup, FailCommit, CommitRetry, Enqueue, Starts, Stop, TryPcs
<1>. QED  BY <1>1, <1>2, <1>3, <1>4 DEF SlotStep, Step

(* What is no step of a slot moves slots only to where a job or a request  *)
(* starts or ends, and creates and deletes no machine.                     *)
LEMMA OtherSlots ==
    ASSUME TypeInv, OtherStep, NEW e \in Execs
    PROVE  /\ \/ pc'[e] \in {"idle", "queued", "api_loaded"}
              \/ pc'[e] = pc[e] /\ snap'[e] = snap[e] /\ ref'[e] = ref[e]
           /\ pc'[e] = "api_loaded" =>
                \/ pc[e] = "api_loaded" /\ snap'[e] = snap[e]
                \/ snap'[e] = row /\ UNCHANGED row
<1>. USE DEF TypeInv, TypeOK
<1>1. CASE UNCHANGED slots
  BY <1>1 DEF slots
<1>2. CASE Request
  BY <1>2 DEF Request, RequestRetry, Goto, Load, database
<1>3. CASE SweepStaleDeployments
  BY <1>3 DEF SweepStaleDeployments
<1>4. CASE Mishap
  <2>1. CASE DeleteTemplate
    BY <1>1, <2>1 DEF DeleteTemplate
  <2>2. ASSUME NEW f \in Execs, NEW g \in Execs, Redeliver(f, g)
        PROVE  /\ \/ pc'[e] \in {"idle", "queued", "api_loaded"}
                  \/ pc'[e] = pc[e] /\ snap'[e] = snap[e] /\ ref'[e] = ref[e]
               /\ pc'[e] = "api_loaded" => pc[e] = "api_loaded" /\ snap'[e] = snap[e]
    BY <2>2 DEF Redeliver
  <2>3. ASSUME NEW f \in Execs, Crash(f) \/ Cancel(f)
        PROVE  /\ \/ pc'[e] \in {"idle", "queued", "api_loaded"}
                  \/ pc'[e] = pc[e] /\ snap'[e] = snap[e] /\ ref'[e] = ref[e]
               /\ pc'[e] = "api_loaded" => pc[e] = "api_loaded" /\ snap'[e] = snap[e]
    BY <2>3 DEF Crash, Cancel, Stop
  <2>. QED  BY <1>4, <2>1, <2>2, <2>3 DEF Mishap
<1>5. CASE TimePasses \/ GuestStep \/ UNCHANGED vars
  BY <1>1, <1>5 DEF TimePasses, GuestStep, GuestSpecializes, GuestInstalls,
                    DeploymentNetworkPing, DeploymentCallback, slots, vars
<1>. QED  BY <1>2, <1>3, <1>4, <1>5 DEF OtherStep

LEMMA OtherMachines ==
    ASSUME TypeInv, OtherStep
    PROVE  /\ UNCHANGED <<floppy, media>>
           /\ \A v \in Vms : \/ guest'[v] = guest[v]
                             \/ guest[v] = "setup" /\ guest'[v] = "specialized"
                             \/ guest[v] = "specialized" /\ guest'[v] = "installed"
           /\ ~GuestStep => UNCHANGED guest
           /\ \A v \in Vms : Exists(v)' <=> Exists(v)
<1>. USE DEF TypeInv, TypeOK, hypervisor
<1>1. CASE UNCHANGED hypervisor
  BY <1>1 DEF Exists
<1>2. CASE GuestStep
  BY <1>2 DEF GuestStep, GuestSpecializes, GuestInstalls, DeploymentNetworkPing,
              DeploymentCallback, Exists
<1>3. CASE Request \/ TimePasses \/ SweepStaleDeployments \/ UNCHANGED vars
  BY <1>1, <1>3 DEF Request, RequestRetry, TimePasses, SweepStaleDeployments, vars
<1>4. CASE Mishap
  BY <1>1, <1>4 DEF Mishap, Redeliver, Crash, Cancel, DeleteTemplate
<1>. QED  BY <1>2, <1>3, <1>4 DEF OtherStep

-----------------------------------------------------------------------------
(* One machine.  The hypervisor refuses a second machine of one name, so   *)
(* the machine a deployment names is the only one there is, and the one a  *)
(* job holds in a local variable is that machine.                          *)

MachinePcs == {"rd_attach", "rd_power", "post_apps", "post_installing",
               "post_scripts", "configuring", "complete"}

NamedOnly == row.vm_moref # NoVm => \A v \in Vms : Exists(v) => v = row.vm_moref

HeldMachine(e) ==
    /\ pc[e] = "rd_created" => \A v \in Vms : Exists(v) => v = ref[e]
    /\ pc[e] \in MachinePcs => ref[e] = row.vm_moref

MachineInv == NamedOnly /\ \A e \in Execs : HeldMachine(e)

(* A step of a slot makes no machine exist but by create_vm. *)
LEMMA NoNewMachine ==
    ASSUME TypeInv, NEW e \in Execs, SlotStep(e), ~CreateVm(e),
           ~CreateVmRaises(e), NEW v \in Vms, Exists(v)'
    PROVE  Exists(v)
<1>. USE DEF TypeInv, TypeOK, Exists
<1>1. CASE UNCHANGED guest
  BY <1>1
<1>2. CASE PowerOn(e)
  BY <1>2 DEF PowerOn
<1>3. CASE CloseWinRm(e)
  BY <1>3 DEF CloseWinRm, Answering
<1>4. CASE FailCleanup(e)
  BY <1>4 DEF FailCleanup, DeletedGuest
<1>. QED  BY <1>1, <1>2, <1>3, <1>4, HypervisorChanges

LEMMA MachineSlotStep ==
    ASSUME UniqueNames, TypeInv, SerialInv, LifeInv, MachineInv,
           NEW e \in Execs, SlotStep(e)
    PROVE  MachineInv'
<1>. USE DEF TypeInv, TypeOK
<1>1. SlotInv(e) /\ SlotSound(e) /\ RowSound /\ HeldMachine(e) /\ NamedOnly
  BY OthersIdle DEF SlotStep, LifeInv, MachineInv
<1>2. CASE CreateVm(e)
  <2>1. UNCHANGED row /\ row.vm_moref = NoVm
    BY <1>1, <1>2 DEF CreateVm, database, SlotSound, CreationSound, CreatingPcs
  <2>2. HeldMachine(e)'
    BY <1>2 DEF CreateVm, HeldMachine, Exists, MachinePcs, Goto
  <2>. QED
    <3>1. NamedOnly'
      BY <2>1 DEF NamedOnly
    <3>2. \A f \in Execs \ {e} : HeldMachine(f)'
      BY OthersIdle DEF SlotStep, Busy, HeldMachine, MachinePcs
    <3>. QED  BY <2>2, <3>1, <3>2 DEF MachineInv
<1>3. CASE CreateVmRaises(e)
  <2>1. UNCHANGED row /\ row.vm_moref = NoVm
    BY <1>1, <1>3 DEF CreateVmRaises, database, SlotSound, CreationSound, CreatingPcs
  <2>2. \A f \in Execs : pc'[f] \in {"idle", "failing"}
    BY <1>3, OthersIdle DEF SlotStep, Busy, CreateVmRaises, Goto
  <2>. QED  BY <2>1, <2>2 DEF MachineInv, NamedOnly, HeldMachine, MachinePcs
<1>4. CASE ~CreateVm(e) /\ ~CreateVmRaises(e)
  <2>1. \A v \in Vms : Exists(v)' => Exists(v)
    BY <1>4, NoNewMachine
  <2>2. CASE RecordVm(e)
    <3>1. row'.vm_moref = ref[e] /\ pc[e] = "rd_created" /\ ref' = ref
      BY <1>1, <2>2, RunDeploymentColumns DEF RecordVm, RowBecomes
    <3>2. NamedOnly'
      BY <1>1, <2>1, <3>1 DEF NamedOnly, HeldMachine
    <3>3. HeldMachine(e)'
      BY <2>2, <3>1 DEF RecordVm, Goto, HeldMachine
    <3>. QED  BY <3>2, <3>3, OthersIdle
              DEF SlotStep, Busy, MachineInv, HeldMachine, MachinePcs
  <2>3. CASE ~RecordVm(e)
    <3>1. row'.vm_moref = row.vm_moref \/ row'.vm_moref = NoVm
      <4>1. CASE FailCommit(e)
        BY <1>1, <4>1, FailColumns DEF RowBecomes
      <4>2. CASE CommitRetry(e)
        <5>1. Current(e)
          BY <1>1, <4>2 DEF CommitRetry, SlotInv, LoadedPcs
        <5>. QED  BY <4>2, <5>1, RetryColumns DEF MovesTo, RowBecomes
      <4>. QED  BY <2>3, <4>1, <4>2, RowChanges
    <3>2. NamedOnly'
      BY <1>1, <2>1, <3>1 DEF NamedOnly
    <3>3. HeldMachine(e)'
      <4>1. pc'[e] # "rd_created"
        BY <1>4, Entered
      <4>2. ASSUME pc'[e] \in MachinePcs
            PROVE  ref'[e] = row'.vm_moref
        <5>1. \/ AttachAndBoot(e) \/ BeginPostInstall(e) \/ InstallApps(e)
              \/ FinishApps(e) \/ Configure(e) \/ CloseWinRm(e)
          BY <2>3, <4>2, Entered DEF MachinePcs
        <5>2. row'.vm_moref = row.vm_moref
          BY <1>1, <5>1, RunDeploymentColumns, PostInstallColumns, QuietColumns
             DEF MovesTo, RowBecomes, QuietStep
        <5>3. CASE BeginPostInstall(e)
          <6>1. row.vm_moref # NoVm
            BY <1>1, <5>3, PostInstallColumns, Forward DEF RowSound, WithVmStates
          <6>2. ref'[e] \in Vms /\ Exists(ref'[e])
            BY <5>3 DEF BeginPostInstall, Answering, Exists
          <6>. QED  BY <1>1, <5>2, <6>1, <6>2 DEF NamedOnly
        <5>4. CASE ~BeginPostInstall(e)
          BY <1>1, <5>1, <5>2, <5>4
             DEF AttachAndBoot, InstallApps, FinishApps, Configure, CloseWinRm,
                 HeldMachine, MachinePcs
        <5>. QED  BY <5>3, <5>4
      <4>. QED  BY <4>1, <4>2 DEF HeldMachine
    <3>. QED  BY <3>2, <3>3, OthersIdle
              DEF SlotStep, Busy, MachineInv, HeldMachine, MachinePcs
  <2>. QED  BY <2>2, <2>3
<1>. QED  BY <1>2, <1>3, <1>4

LEMMA MachineOtherStep ==
    ASSUME TypeInv, MachineInv, OtherStep
    PROVE  MachineInv'
<1>1. row'.vm_moref = row.vm_moref /\ \A v \in Vms : Exists(v)' <=> Exists(v)
  BY OtherColumns, OtherMachines DEF RowStays, MovesTo, RowBecomes
<1>2. \A e \in Execs : \/ pc'[e] \in {"idle", "queued", "api_loaded"}
                       \/ pc'[e] = pc[e] /\ ref'[e] = ref[e]
  BY OtherSlots
<1>. QED  BY <1>1, <1>2 DEF MachineInv, NamedOnly, HeldMachine, MachinePcs

LEMMA MachineInit == Init => MachineInv
BY DEF Init, NewRow, MachineInv, NamedOnly, HeldMachine, MachinePcs

LEMMA NextSteps == [Next]_vars => OtherStep \/ \E e \in Execs : SlotStep(e)
BY DEF Next, OtherStep, SlotStep

LEMMA MachineInvariance ==
    ASSUME CalmEnvironment, UniqueNames
    PROVE  Spec => []MachineInv
<1>1. TypeInv /\ SerialInv /\ LifeInv /\ MachineInv /\ [Next]_vars => MachineInv'
  BY NextSteps, MachineSlotStep, MachineOtherStep
<1>2. Spec => []SerialInv
  BY SerialInvariance DEF CalmEnvironment
<1>. QED  BY <1>1, <1>2, MachineInit, LifeInvariance, TypeInvariance, PTL DEF Spec

-----------------------------------------------------------------------------
(* How far Windows got.  The install media are ejected, and post-install   *)
(* starts, only when the machine the deployment names has come to the      *)
(* specialize pass: a callback comes from that machine and never outlives  *)
(* a full retry, and WinRM does not answer before that pass.               *)

SpecializeReached ==
    \A v \in Vms : v = row.vm_moref => guest[v] \notin {"off", "setup"}

NamedAnswered ==
    \A v \in Vms : v = row.vm_moref =>
                      guest[v] \in {"specialized", "installed", "configured"}

CallbackSound ==
    row.token_used =>
        SpecializeReached /\ row.state \notin {"pending", "creating_vm", "booting"}

AnsweredSound ==
    row.state \in KEEPABLE_ON_FAILURE_STATES \cup {"failed"} => NamedAnswered

SessionSound(e) ==
    /\ pc[e] = "wait_eject" => SpecializeReached
    /\ pc[e] = "api_loaded" => snap[e].token_used = row.token_used

WindowsInv == CallbackSound /\ AnsweredSound /\ \A e \in Execs : SessionSound(e)

(* A full retry arms the callback again. *)
LEMMA RetryClearsToken ==
    ASSUME TypeInv, NEW e \in Execs, CommitRetry(e), job[e] = "run_deployment",
           snap[e].token_used = row.token_used
    PROVE  ~row'.token_used
<1>. USE DEF TypeInv, TypeOK
<1>. DEFINE new == Retried(snap[e])
<1>1. new \in Rows /\ row' = Flush(row, snap[e], new)
  BY SessionTypes DEF CommitRetry, RetriesLeft, Write
<1>2. row'["token_used"] = IF new["token_used"] # snap[e]["token_used"]
                           THEN new["token_used"] ELSE row["token_used"]
  BY <1>1, FlushType DEF Columns
<1>3. new.token_used = FALSE
  BY DEF Retried, Rows
<1>. QED  BY <1>2, <1>3

(* What a step of a slot does to the machine the deployment names. *)
LEMMA NamedMachineStep ==
    ASSUME UniqueNames, TypeInv, SerialInv, LifeInv, MachineInv,
           NEW e \in Execs, SlotStep(e),
           NEW v \in Vms, v = row.vm_moref, guest'[v] # guest[v]
    PROVE  \/ PowerOn(e) /\ row.state = "booting"
           \/ CloseWinRm(e) /\ guest'[v] = "configured"
           \/ FailCleanup(e) /\ ~KeepsVm(row) /\ guest'[v] = "gone"
<1>. USE DEF TypeInv, TypeOK
<1>1. SlotInv(e) /\ SlotSound(e) /\ v # NoVm
  BY OthersIdle, ProvisioningAssumption DEF SlotStep, LifeInv
<1>2. ~CreateVm(e) /\ ~CreateVmRaises(e)
  BY <1>1 DEF CreateVm, CreateVmRaises, SlotSound, CreationSound, CreatingPcs
<1>3. CASE PowerOn(e)
  BY <1>1, <1>3 DEF PowerOn, SlotSound, CreationSound
<1>4. CASE CloseWinRm(e)
  BY <1>4 DEF CloseWinRm
<1>5. CASE FailCleanup(e)
  <2>1. KeepsVm(snap[e]) <=> KeepsVm(row)
    BY <1>1, <1>5, FailColumns
  <2>. QED  BY <1>5, <2>1 DEF FailCleanup, DeletedGuest
<1>. QED  BY <1>2, <1>3, <1>4, <1>5, HypervisorChanges

(* A pass of Setup that is behind stays behind. *)
LEMMA SpecializeStaysReached ==
    ASSUME UniqueNames, TypeInv, SerialInv, LifeInv, MachineInv,
           NEW e \in Execs, SlotStep(e), SpecializeReached, row.state # "booting",
           row'.vm_moref \in {row.vm_moref, NoVm}
    PROVE  SpecializeReached'
<1>1. ASSUME NEW v \in Vms, v = row'.vm_moref
      PROVE  guest'[v] \notin {"off", "setup"}
  <2>1. v = row.vm_moref
    BY <1>1, ProvisioningAssumption
  <2>. QED  BY <2>1, NamedMachineStep DEF SpecializeReached
<1>. QED  BY <1>1 DEF SpecializeReached

(* Only RecordVm gives the deployment a machine. *)
LEMMA MachineKept ==
    ASSUME TypeInv, SerialInv, NEW e \in Execs, SlotStep(e), ~RecordVm(e)
    PROVE  row'.vm_moref \in {row.vm_moref, NoVm}
<1>1. SlotInv(e)
  BY OthersIdle DEF SlotStep
<1>2. CASE FailCommit(e)
  BY <1>1, <1>2, FailColumns DEF RowBecomes
<1>3. CASE CommitRetry(e)
  <2>1. Current(e)
    BY <1>1, <1>3 DEF CommitRetry, SlotInv, LoadedPcs
  <2>. QED  BY <1>3, <2>1, RetryColumns DEF MovesTo, RowBecomes
<1>. QED  BY <1>2, <1>3, RowChanges

LEMMA CallbackSlotStep ==
    ASSUME UniqueNames, TypeInv, SerialInv, LifeInv, MachineInv, WindowsInv,
           NEW e \in Execs, SlotStep(e)
    PROVE  CallbackSound'
<1>. USE DEF TypeInv, TypeOK
<1>1. /\ SlotInv(e) /\ SlotSound(e) /\ SessionSound(e)
      /\ CallbackSound
  BY OthersIdle DEF SlotStep, LifeInv, WindowsInv
<1>2. CASE CommitRetry(e)
  <2>1. CASE job[e] = "run_deployment"
    <3>1. ~row'.token_used
      BY <1>1, <1>2, <2>1, RetryClearsToken DEF SessionSound, CommitRetry
    <3>. QED  BY <3>1 DEF CallbackSound
  <2>2. CASE job[e] # "run_deployment"
    <3>1. row'.state = "installing_os" /\ row'.vm_moref = row.vm_moref
      BY <1>1, <1>2, <2>2, RetryColumns
         DEF CommitRetry, SlotInv, LoadedPcs, MovesTo, RowBecomes
    <3>2. row.state = "failed" /\ SpecializeReached
      BY <1>1, <1>2 DEF CommitRetry, SlotSound, RetrySound, WindowsInv,
                        AnsweredSound, NamedAnswered, SpecializeReached
    <3>3. SpecializeReached'
      BY <3>1, <3>2, SpecializeStaysReached
    <3>. QED  BY <3>1, <3>3 DEF CallbackSound
  <2>. QED  BY <2>1, <2>2
<1>3. CASE ~CommitRetry(e)
  <2> SUFFICES ASSUME row'.token_used
               PROVE  /\ SpecializeReached'
                      /\ row'.state \notin {"pending", "creating_vm", "booting"}
    BY DEF CallbackSound
  <2>1. row.token_used
    BY <1>3, RowChanges
  <2>2. SpecializeReached /\ row.state \notin {"pending", "creating_vm", "booting"}
    BY <1>1, <2>1 DEF CallbackSound
  <2>3. ~RecordVm(e)
    BY <1>1, <2>2 DEF RecordVm, SlotSound, CreationSound, CreatingPcs
  <2>4. SpecializeReached'
    BY <2>2, <2>3, SpecializeStaysReached, MachineKept
  <2>5. row'.state \notin {"pending", "creating_vm", "booting"}
    <3>1. ~BeginCreate(e) /\ ~AttachAndBoot(e)
      BY <1>1, <2>2, RunDeploymentColumns, Forward
    <3>2. EnterInstallingOs(e) => row'.state = "installing_os"
      BY <1>1, RunDeploymentColumns DEF MovesTo, RowBecomes
    <3>3. /\ BeginPostInstall(e) => row'.state = "post_install"
          /\ Configure(e) => row'.state = "configuring"
          /\ Complete(e) => row'.state = "completed"
      BY <1>1, PostInstallColumns DEF MovesTo, RowBecomes
    <3>4. FailCommit(e) => row'.state \in {"failed", row.state}
      BY <1>1, FailColumns DEF RowBecomes
    <3>. QED  BY <1>3, <2>2, <3>1, <3>2, <3>3, <3>4, RowChanges
  <2>. QED  BY <2>4, <2>5
<1>. QED  BY <1>2, <1>3

LEMMA AnsweredSlotStep ==
    ASSUME UniqueNames, TypeInv, SerialInv, LifeInv, MachineInv, WindowsInv,
           NEW e \in Execs, SlotStep(e)
    PROVE  AnsweredSound'
<1>. USE DEF TypeInv, TypeOK
<1>1. SlotInv(e) /\ SlotSound(e) /\ AnsweredSound /\ NamedOnly /\ HeldMachine(e)
  BY OthersIdle DEF SlotStep, LifeInv, WindowsInv, MachineInv
<1> SUFFICES ASSUME row'.state \in KEEPABLE_ON_FAILURE_STATES \cup {"failed"},
                    NEW v \in Vms, v = row'.vm_moref
             PROVE  guest'[v] \in {"specialized", "installed", "configured"}
  BY DEF AnsweredSound, NamedAnswered
<1>2. row'.state \in {"post_install", "configuring", "failed"}
  BY DEF KEEPABLE_ON_FAILURE_STATES
<1>3. CASE BeginPostInstall(e)
  <2>1. PICK u \in Vms : /\ u \in Answering /\ Exists(u)
                         /\ guest[u] \in {"specialized", "installed"}
    BY <1>3 DEF BeginPostInstall, Answering, Exists
  <2>2. row'.vm_moref = row.vm_moref /\ v = row.vm_moref /\ v # NoVm
    BY <1>1, <1>3, PostInstallColumns, ProvisioningAssumption DEF MovesTo, RowBecomes
  <2>3. v = u
    BY <1>1, <2>1, <2>2 DEF NamedOnly
  <2>. QED  BY <1>3, <2>1, <2>3 DEF BeginPostInstall, hypervisor
<1>4. CASE FailCommit(e)
  <2>1. row'.vm_moref = row.vm_moref /\ KeepsVm(row)
    BY <1>1, <1>4, FailColumns, ProvisioningAssumption DEF RowBecomes
  <2>2. guest[v] \in {"specialized", "installed", "configured"}
    BY <1>1, <2>1 DEF KeepsVm, AnsweredSound, NamedAnswered
  <2>. QED  BY <1>4, <2>2 DEF FailCommit, hypervisor
<1>5. CASE ~BeginPostInstall(e) /\ ~FailCommit(e)
  <2>1. ~CommitRetry(e)
    <3> SUFFICES ASSUME CommitRetry(e) PROVE FALSE
      OBVIOUS
    <3>1. Current(e)
      BY <1>1 DEF CommitRetry, SlotInv, LoadedPcs
    <3>. QED  BY <1>2, <3>1, RetryColumns DEF MovesTo, RowBecomes
  <2>2. /\ ~BeginCreate(e) /\ ~AttachAndBoot(e) /\ ~EnterInstallingOs(e)
        /\ ~Complete(e)
    BY <1>1, <1>2, RunDeploymentColumns, PostInstallColumns DEF MovesTo, RowBecomes
  <2>3. row.state \in {"post_install", "configuring", "failed"}
    <3>1. CASE Configure(e)
      BY <1>1, <3>1, PostInstallColumns, Forward
    <3>2. CASE ~Configure(e)
      BY <1>2, <1>5, <2>1, <2>2, <3>2, RowChanges
    <3>. QED  BY <3>1, <3>2
  <2>4. row.state # "failed"
    <3>1. pc[e] # "idle" /\ (pc[e] = "api_loaded" => CommitRetry(e))
      BY StepMovesItsSlot, Entered DEF SlotStep, Busy
    <3>. QED  BY <1>1, <2>1, <3>1 DEF SlotInv
  <2>5. row'.vm_moref = row.vm_moref
    <3>1. ~RecordVm(e)
      BY <1>1, <2>3 DEF RecordVm, SlotSound, CreationSound, CreatingPcs
    <3>. QED  BY <1>5, <2>1, <3>1, RowChanges
  <2>6. row.vm_moref # NoVm /\ v = row.vm_moref
    BY <2>5, ProvisioningAssumption
  <2>7. guest[v] \in {"specialized", "installed", "configured"}
    BY <1>1, <2>3, <2>4, <2>6
       DEF AnsweredSound, NamedAnswered, KEEPABLE_ON_FAILURE_STATES
  <2>8. KeepsVm(row)
    BY <2>3, <2>4, <2>6 DEF KeepsVm, KEEPABLE_ON_FAILURE_STATES
  <2>. QED  BY <2>3, <2>6, <2>7, <2>8, NamedMachineStep
<1>. QED  BY <1>3, <1>4, <1>5

LEMMA SessionSlotStep ==
    ASSUME UniqueNames, TypeInv, SerialInv, LifeInv, MachineInv, WindowsInv,
           NEW e \in Execs, SlotStep(e)
    PROVE  \A f \in Execs : SessionSound(f)'
<1>. USE DEF TypeInv, TypeOK
<1>1. CallbackSound /\ NamedOnly
  BY DEF WindowsInv, MachineInv
<1>2. ASSUME pc'[e] = "wait_eject"
      PROVE  SpecializeReached'
  <2>1. WaitForCallback(e) \/ Poll(e)
    BY <1>2, Entered
  <2>2. UNCHANGED row /\ UNCHANGED guest
    BY <2>1 DEF WaitForCallback, Poll, database, hypervisor
  <2>3. row.token_used \/ \E v \in Vms : v \in Answering
    BY <1>2, <2>1 DEF WaitForCallback, Starts, Poll, Goto, Stop,
                      GuestReachableOverWinrm, Answering
  <2>4. CASE row.token_used
    BY <1>1, <2>2, <2>4 DEF CallbackSound, SpecializeReached
  <2>5. ASSUME NEW v \in Vms, v \in Answering
        PROVE  SpecializeReached
    <3>1. guest[v] \in {"specialized", "installed"} /\ Exists(v)
      BY <2>5 DEF Answering, Exists
    <3>. QED  BY <1>1, <3>1, ProvisioningAssumption DEF NamedOnly, SpecializeReached
  <2>. QED  BY <2>2, <2>3, <2>4, <2>5 DEF SpecializeReached
<1>3. SessionSound(e)'
  BY <1>2, Entered DEF SessionSound
<1>4. \A f \in Execs \ {e} : pc'[f] = "idle"
  BY OthersIdle DEF SlotStep, Busy
<1>. QED  BY <1>3, <1>4 DEF SessionSound

LEMMA WindowsOtherStep ==
    ASSUME TypeInv, LifeInv, MachineInv, WindowsInv, OtherStep
    PROVE  WindowsInv'
<1>. USE DEF TypeInv, TypeOK
<1>1. row'.state = row.state /\ row'.vm_moref = row.vm_moref
  BY OtherColumns DEF RowStays, MovesTo, RowBecomes
<1>2. \A v \in Vms : \/ guest'[v] = guest[v]
                     \/ guest[v] = "setup" /\ guest'[v] = "specialized"
                     \/ guest[v] = "specialized" /\ guest'[v] = "installed"
  BY OtherMachines
<1>3. /\ SpecializeReached => SpecializeReached'
      /\ NamedAnswered => NamedAnswered'
  BY <1>1, <1>2 DEF SpecializeReached, NamedAnswered
<1>4. \/ row'.token_used = row.token_used
      \/ /\ SpecializeReached /\ row.state = "installing_os"
         /\ UNCHANGED slots
  <2>1. CASE GuestStep
    <3>1. PICK v \in Vms : \/ GuestSpecializes(v) \/ GuestInstalls(v)
                           \/ DeploymentNetworkPing(v) \/ DeploymentCallback(v)
      BY <2>1 DEF GuestStep
    <3>2. CASE DeploymentCallback(v)
      <4>1. Exists(v) /\ row.vm_moref # NoVm
        BY <3>2 DEF DeploymentCallback, Exists, LifeInv, RowSound, WithVmStates
      <4>2. SpecializeReached
        BY <3>2, <4>1 DEF MachineInv, NamedOnly, SpecializeReached, DeploymentCallback
      <4>. QED  BY <3>2, <4>2 DEF DeploymentCallback
    <3>3. CASE DeploymentNetworkPing(v)
      BY <3>3 DEF DeploymentNetworkPing, Rows
    <3>4. CASE GuestSpecializes(v) \/ GuestInstalls(v)
      BY <3>4 DEF GuestSpecializes, GuestInstalls, database
    <3>. QED  BY <3>1, <3>2, <3>3, <3>4
  <2>2. CASE Mishap
    BY <2>2 DEF Mishap, Redeliver, Crash, Cancel, DeleteTemplate, database, Rows
  <2>3. CASE Request \/ TimePasses \/ SweepStaleDeployments \/ UNCHANGED vars
    BY <2>3 DEF Request, RequestRetry, TimePasses, SweepStaleDeployments,
                vars, database
  <2>. QED  BY <2>1, <2>2, <2>3 DEF OtherStep
<1>5. CallbackSound'
  BY <1>1, <1>3, <1>4 DEF WindowsInv, CallbackSound
<1>6. AnsweredSound'
  BY <1>1, <1>3 DEF WindowsInv, AnsweredSound
<1>7. ASSUME NEW e \in Execs
      PROVE  SessionSound(e)'
  <2>1. pc'[e] = "wait_eject" => SpecializeReached'
    BY <1>3, OtherSlots DEF WindowsInv, SessionSound
  <2>2. ASSUME pc'[e] = "api_loaded"
        PROVE  snap'[e].token_used = row'.token_used
    <3>1. CASE pc[e] = "api_loaded" /\ snap'[e] = snap[e]
      <4>1. row.state = "failed"
        BY <3>1 DEF LifeInv, SlotSound, RetrySound
      <4>. QED  BY <1>4, <3>1, <4>1 DEF WindowsInv, SessionSound
    <3>. QED  BY <2>2, <3>1, OtherSlots
  <2>. QED  BY <2>1, <2>2 DEF SessionSound
<1>. QED  BY <1>5, <1>6, <1>7 DEF WindowsInv

LEMMA WindowsInit == Init => WindowsInv
BY ProvisioningAssumption
   DEF Init, NewRow, WindowsInv, CallbackSound, AnsweredSound, SessionSound,
       KEEPABLE_ON_FAILURE_STATES

LEMMA WindowsInvariance ==
    ASSUME CalmEnvironment, UniqueNames
    PROVE  Spec => []WindowsInv
<1>1. ASSUME TypeInv, SerialInv, LifeInv, MachineInv, WindowsInv, [Next]_vars
      PROVE  WindowsInv'
  <2>1. ASSUME NEW e \in Execs, SlotStep(e)
        PROVE  WindowsInv'
    BY <1>1, <2>1, CallbackSlotStep, AnsweredSlotStep, SessionSlotStep
       DEF WindowsInv
  <2>. QED  BY <1>1, <2>1, NextSteps, WindowsOtherStep
<1>2. Spec => []SerialInv
  BY SerialInvariance DEF CalmEnvironment
<1>. QED
  BY <1>1, <1>2, WindowsInit, MachineInvariance, LifeInvariance, TypeInvariance,
     PTL DEF Spec

(* A machine that a failed deployment still names has answered over WinRM, *)
(* so that a post-install retry can reach it: the half-made machine of an  *)
(* early failure is never kept.  It may still be in specialize or later in *)
(* Setup.                                                                  *)
THEOREM FailedVmAnsweredHolds ==
    ASSUME CalmEnvironment, UniqueNames
    PROVE  Spec => []FailedVmAnswered
<1>1. TypeInv /\ WindowsInv => FailedVmAnswered
  BY DEF TypeInv, TypeOK, Rows, WindowsInv, AnsweredSound, NamedAnswered,
         FailedVmAnswered
<1>. QED  BY <1>1, WindowsInvariance, TypeInvariance, PTL

-----------------------------------------------------------------------------
(* The media Setup is started from. *)

MediaInv ==
    /\ MediaUntilAnswer
    /\ \A e \in Execs : pc[e] = "rd_power" => ref[e] \in media

LEMMA MediaSlotStep ==
    ASSUME TypeInv, SerialInv, LifeInv, WindowsInv, MediaInv,
           NEW e \in Execs, SlotStep(e)
    PROVE  MediaInv'
<1>. USE DEF TypeInv, TypeOK
<1>1. SlotInv(e) /\ SessionSound(e)
  BY OthersIdle DEF SlotStep, WindowsInv
<1>2. ASSUME NEW v \in Vms, guest'[v] = "setup"
      PROVE  v \in media'
  <2>1. \/ guest[v] = "setup"
        \/ PowerOn(e) /\ v = ref[e]
    <3>1. CASE CreateVm(e) \/ CreateVmRaises(e)
      BY <1>2, <3>1 DEF CreateVm, CreateVmRaises
    <3>2. CASE PowerOn(e)
      BY <1>2, <3>2 DEF PowerOn
    <3>3. CASE CloseWinRm(e)
      BY <1>2, <3>3 DEF CloseWinRm
    <3>4. CASE FailCleanup(e)
      BY <1>2, <3>4 DEF FailCleanup, DeletedGuest
    <3>. QED  BY <1>2, <3>1, <3>2, <3>3, <3>4, HypervisorChanges
  <2>2. v \in media
    BY <2>1 DEF MediaInv, MediaUntilAnswer, PowerOn
  <2>3. CASE AttachAndBoot(e)
    BY <2>2, <2>3 DEF AttachAndBoot
  <2>4. CASE Eject(e)
    <3>1. guest[v] = "setup"
      BY <1>2, <2>4 DEF Eject
    <3>2. v # snap[e].vm_moref
      BY <1>1, <2>4, <3>1, CurrentColumns
         DEF Eject, SlotInv, LoadedPcs, SessionSound, SpecializeReached
    <3>. QED  BY <2>2, <2>4, <3>2 DEF Eject
  <2>5. CASE FailCleanup(e)
    BY <1>2, <2>2, <2>5 DEF FailCleanup
  <2>. QED  BY <2>2, <2>3, <2>4, <2>5, HypervisorChanges
<1>3. pc'[e] = "rd_power" => ref'[e] \in media'
  BY Entered DEF AttachAndBoot
<1>4. \A f \in Execs \ {e} : pc'[f] # "rd_power"
  BY OthersIdle DEF SlotStep, Busy
<1>. QED  BY <1>2, <1>3, <1>4 DEF MediaInv, MediaUntilAnswer

LEMMA MediaOtherStep ==
    ASSUME TypeInv, MediaInv, OtherStep
    PROVE  MediaInv'
<1>1. /\ media' = media
      /\ \A v \in Vms : guest'[v] = "setup" => guest[v] = "setup"
  BY OtherMachines
<1>2. \A e \in Execs : pc'[e] = "rd_power" => pc[e] = "rd_power" /\ ref'[e] = ref[e]
  BY OtherSlots
<1>. QED  BY <1>1, <1>2 DEF MediaInv, MediaUntilAnswer

(* A machine keeps its install media until it has come to the specialize   *)
(* pass, whichever of callback and WinRM fallback the wait ends by and     *)
(* however often the deployment is retried.  (In specialize, where WinRM   *)
(* answers, the fallback may already take them.)                           *)
THEOREM MediaUntilAnswerHolds ==
    ASSUME CalmEnvironment, UniqueNames
    PROVE  Spec => []MediaUntilAnswer
<1>1. Init => MediaInv
  BY DEF Init, MediaInv, MediaUntilAnswer
<1>2. TypeInv /\ SerialInv /\ LifeInv /\ WindowsInv /\ MediaInv /\ [Next]_vars
        => MediaInv'
  BY NextSteps, MediaSlotStep, MediaOtherStep
<1>3. Spec => []SerialInv
  BY SerialInvariance DEF CalmEnvironment
<1>4. MediaInv => MediaUntilAnswer
  BY DEF MediaInv
<1>. QED
  BY <1>1, <1>2, <1>3, <1>4, WindowsInvariance, LifeInvariance, TypeInvariance,
     PTL DEF Spec

-----------------------------------------------------------------------------
(* The machine of a completed deployment.  Assumed: the call that closes   *)
(* WinRM, whose failure is swallowed, does not fail.                       *)

NamedConfigured ==
    \A v \in Vms : v = row.vm_moref => guest[v] = "configured"

ConfiguredInv ==
    /\ row.state = "completed" => NamedConfigured
    /\ \A e \in Execs : pc[e] = "complete" => NamedConfigured

LEMMA ConfiguredSlotStep ==
    ASSUME UniqueNames, "winrm" \notin Incidents,
           TypeInv, SerialInv, LifeInv, MachineInv, ConfiguredInv,
           NEW e \in Execs, SlotStep(e)
    PROVE  ConfiguredInv'
<1>. USE DEF TypeInv, TypeOK
<1>1. SlotInv(e) /\ SlotSound(e) /\ HeldMachine(e)
  BY OthersIdle DEF SlotStep, LifeInv, MachineInv
<1>2. Busy(e)
  BY StepMovesItsSlot DEF SlotStep
<1>3. ASSUME row'.state = "completed"
      PROVE  NamedConfigured'
  <2>1. CASE Complete(e)
    <3>1. row'.vm_moref = row.vm_moref /\ UNCHANGED guest /\ NamedConfigured
      BY <1>1, <2>1, PostInstallColumns DEF Complete, ConfiguredInv, RowBecomes
    <3>. QED  BY <3>1 DEF NamedConfigured
  <2>2. CASE ~Complete(e)
    <3>1. row.state = "completed"
      <4>1. /\ ~BeginCreate(e) /\ ~AttachAndBoot(e) /\ ~EnterInstallingOs(e)
            /\ ~BeginPostInstall(e) /\ ~Configure(e)
        BY <1>1, <1>3, RunDeploymentColumns, PostInstallColumns DEF MovesTo, RowBecomes
      <4>2. FailCommit(e) => row.state = "completed"
        BY <1>1, <1>3, FailColumns DEF RowBecomes
      <4>3. CommitRetry(e) => Current(e)
        BY <1>1 DEF CommitRetry, SlotInv, LoadedPcs
      <4>4. ~CommitRetry(e)
        BY <1>3, <4>3, RetryColumns DEF MovesTo, RowBecomes
      <4>. QED  BY <1>3, <2>2, <4>1, <4>2, <4>4, RowChanges
    <3>2. pc[e] \in {"announce", "queued"}
      BY <1>1, <1>2, <3>1 DEF SlotSound, CompletedSound
    <3>3. UNCHANGED guest
      BY <3>2, HypervisorChanges
         DEF CreateVm, CreateVmRaises, PowerOn, CloseWinRm, FailCleanup
    <3>4. row'.vm_moref = row.vm_moref
      BY <3>2, RowChanges DEF RecordVm, FailCommit, CommitRetry
    <3>. QED  BY <3>1, <3>3, <3>4 DEF ConfiguredInv, NamedConfigured
  <2>. QED  BY <2>1, <2>2
<1>4. ASSUME pc'[e] = "complete"
      PROVE  NamedConfigured'
  <2>1. CloseWinRm(e)
    BY <1>4, Entered
  <2>2. /\ ref[e] = row.vm_moref /\ UNCHANGED row
        /\ guest' = [guest EXCEPT ![ref[e]] = "configured"]
    BY <1>1, <2>1 DEF CloseWinRm, HeldMachine, MachinePcs, Incident, database
  <2>. QED  BY <2>2 DEF NamedConfigured
<1>5. \A f \in Execs \ {e} : pc'[f] # "complete"
  BY OthersIdle DEF SlotStep, Busy
<1>. QED  BY <1>3, <1>4, <1>5 DEF ConfiguredInv

LEMMA ConfiguredOtherStep ==
    ASSUME TypeInv, ConfiguredInv, OtherStep
    PROVE  ConfiguredInv'
<1>1. row'.state = row.state /\ row'.vm_moref = row.vm_moref
  BY OtherColumns DEF RowStays, MovesTo, RowBecomes
<1>2. NamedConfigured => NamedConfigured'
  BY <1>1, OtherMachines DEF NamedConfigured
<1>3. \A e \in Execs : pc'[e] = "complete" => pc[e] = "complete"
  BY OtherSlots
<1>. QED  BY <1>1, <1>2, <1>3 DEF ConfiguredInv

(* A deployment shown as completed names the machine that went through     *)
(* post-install to its end, whatever earlier attempts left behind.         *)
THEOREM CompletedGuestIsConfiguredHolds ==
    ASSUME CalmEnvironment, UniqueNames, "winrm" \notin Incidents
    PROVE  Spec => []CompletedGuestIsConfigured
<1>1. Init => ConfiguredInv
  BY DEF Init, NewRow, ConfiguredInv
<1>2. TypeInv /\ SerialInv /\ LifeInv /\ MachineInv /\ ConfiguredInv /\ [Next]_vars
        => ConfiguredInv'
  BY NextSteps, ConfiguredSlotStep, ConfiguredOtherStep
<1>3. Spec => []SerialInv
  BY SerialInvariance DEF CalmEnvironment
<1>4. TypeInv /\ LifeInv /\ ConfiguredInv => CompletedGuestIsConfigured
  BY DEF TypeInv, TypeOK, Rows, LifeInv, RowSound, WithVmStates, ConfiguredInv,
         NamedConfigured, CompletedGuestIsConfigured
<1>. QED
  BY <1>1, <1>2, <1>3, <1>4, MachineInvariance, LifeInvariance, TypeInvariance,
     PTL DEF Spec

-----------------------------------------------------------------------------
(* What is left behind while nothing happens from outside (incidents = 0): *)
(* no deletion fails, no job is interrupted.  Every place in the code that *)
(* holds a secret or a machine then has one way on, and that way clears it.*)

LEMMA Leaves ==
    ASSUME TypeInv, NEW e \in Execs, SlotStep(e)
    PROVE  /\ pc[e] = "rd_floppy_done" => RecordFloppy(e)
           /\ pc[e] = "rd_created" => RecordVm(e)
           /\ pc[e] = "post_installing" => FinishApps(e) \/ pc'[e] = "failing"
           /\ pc[e] = "failing" => FailCleanup(e)
           /\ pc[e] = "fail_commit" => FailCommit(e)
<1>. USE DEF TypeInv, TypeOK, Goto
<1>1. CASE RunDeploymentStep(e)
  BY <1>1 DEF RunDeploymentStep, RunDeployment, BeginCreate, UploadFloppy,
      RecordFloppy, CreateVm, RecordVm, AttachAndBoot, PowerOn,
      EnterInstallingOs, EnqueueWait, Starts
<1>2. CASE WaitStep(e) \/ PollTimeout(e)
  BY <1>2 DEF WaitStep, PollTimeout, WaitForCallback, Poll, Eject, Starts
<1>3. CASE PostInstallStep(e)
  BY <1>3 DEF PostInstallStep, RunPostInstall, ReResolve, BeginPostInstall,
      InstallApps, FinishApps, Configure, CloseWinRm, Complete, Announce, Starts
<1>4. CASE FailStep(e) \/ ApiStep(e)
  BY <1>4 DEF FailStep, ApiStep, Raise, CreateVmRaises, CleanupDeployment,
      FailCleanup, FailCommit, CommitRetry, Enqueue, Starts, TryPcs
<1>. QED  BY <1>1, <1>2, <1>3, <1>4 DEF SlotStep, Step

LEMMA StillCalm ==
    ASSUME TypeInv, [Next]_vars, incidents' = 0
    PROVE  /\ incidents = 0
           /\ \A kind : ~Incident(kind)
           /\ \A done \in BOOLEAN : BestEffort(done) => done
<1>. USE ProvisioningAssumption DEF TypeInv, TypeOK
<1>1. \A kind : ~Incident(kind)
  BY DEF Incident
<1>2. \A done \in BOOLEAN : BestEffort(done) => done /\ UNCHANGED incidents
  BY <1>1 DEF BestEffort
<1>3. ASSUME NEW e \in Execs, Step(e) \/ PollTimeout(e)
      PROVE  UNCHANGED incidents
  <2>1. CASE RunDeploymentStep(e)
    BY <2>1 DEF RunDeploymentStep, RunDeployment, BeginCreate, UploadFloppy,
        RecordFloppy, CreateVm, RecordVm, AttachAndBoot, PowerOn,
        EnterInstallingOs, EnqueueWait
  <2>2. CASE WaitStep(e) \/ PollTimeout(e)
    BY <1>2, <2>2 DEF WaitStep, PollTimeout, WaitForCallback, Poll, Eject
  <2>3. CASE PostInstallStep(e)
    BY <1>1, <1>2, <2>3
       DEF PostInstallStep, RunPostInstall, ReResolve, BeginPostInstall,
           InstallApps, FinishApps, Configure, CloseWinRm, Complete, Announce
  <2>4. CASE FailStep(e) \/ ApiStep(e)
    BY <1>1, <1>2, <2>4
       DEF FailStep, ApiStep, Raise, CreateVmRaises, CleanupDeployment,
           FailCleanup, FailCommit, CommitRetry, Enqueue
  <2>. QED  BY <1>3, <2>1, <2>2, <2>3, <2>4 DEF Step
<1>4. ASSUME OtherStep
      PROVE  UNCHANGED incidents
  BY <1>1, <1>4
     DEF OtherStep, Request, RequestRetry, TimePasses, SweepStaleDeployments,
         GuestStep, GuestSpecializes, GuestInstalls, DeploymentNetworkPing,
         DeploymentCallback, Mishap, Redeliver, Crash, Cancel, DeleteTemplate, vars
<1>5. UNCHANGED incidents
  BY <1>3, <1>4 DEF Next, OtherStep
<1>. QED  BY <1>1, <1>2, <1>5

(* Then nothing but its own steps moves a slot that is under way. *)
LEMMA CalmOtherSlots ==
    ASSUME TypeInv, OtherStep, [Next]_vars, incidents' = 0, NEW e \in Execs, Busy(e)
    PROVE  pc'[e] = pc[e] /\ ref'[e] = ref[e]
<1>1. ~Mishap
  BY StillCalm DEF Mishap, Redeliver, Crash, Cancel, DeleteTemplate
<1>. QED
  BY <1>1 DEF OtherStep, Request, RequestRetry, TimePasses, SweepStaleDeployments,
      GuestStep, GuestSpecializes, GuestInstalls, DeploymentNetworkPing,
      DeploymentCallback, vars, slots, Busy, Goto, TypeInv, TypeOK

FloppyKnown ==
    floppy => row.floppy_path \/ \E e \in Execs : pc[e] = "rd_floppy_done"

FloppyGone ==
    /\ row.state \in TERMINAL_STATES => ~floppy /\ ~row.floppy_path
    /\ \A e \in Execs : pc[e] = "fail_commit" => ~floppy

TokenVoided ==
    row.app_token =>
        \E e \in Execs : pc[e] \in {"post_installing", "failing", "fail_commit"}

MachineDeleted ==
    \A e \in Execs : pc[e] = "fail_commit" =>
        \A v \in Vms : v = row.vm_moref /\ Exists(v) => KeepsVm(row)

CleanInv ==
    incidents = 0 => FloppyKnown /\ FloppyGone /\ TokenVoided /\ MachineDeleted

LEMMA FloppySlotStep ==
    ASSUME TypeInv, SerialInv, LifeInv, FloppyKnown, FloppyGone,
           [Next]_vars, incidents' = 0, NEW e \in Execs, SlotStep(e)
    PROVE  FloppyKnown' /\ FloppyGone'
<1>. USE DEF TypeInv, TypeOK
<1>1. /\ SlotInv(e) /\ SlotSound(e) /\ Busy(e)
      /\ \A f \in Execs \ {e} : pc[f] = "idle" /\ pc'[f] = "idle"
  BY OthersIdle, StepMovesItsSlot DEF SlotStep, LifeInv, Busy
<1>2. ASSUME Eject(e) \/ Complete(e) \/ FailCleanup(e)
      PROVE  ~floppy'
  <2>1. floppy' = (floppy /\ ~snap[e].floppy_path)
    BY <1>2, StillCalm DEF Eject, Complete, FailCleanup, CleanupAnswerFloppy
  <2>2. snap[e].floppy_path = row.floppy_path /\ pc[e] # "rd_floppy_done"
    BY <1>1, <1>2, CurrentColumns
       DEF Eject, Complete, FailCleanup, SlotInv, LoadedPcs
  <2>. QED  BY <1>1, <2>1, <2>2 DEF FloppyKnown
<1>3. FloppyKnown'
  <2> SUFFICES ASSUME floppy'
               PROVE  row'.floppy_path \/ pc'[e] = "rd_floppy_done"
    BY DEF FloppyKnown
  <2>1. CASE UploadFloppy(e)
    BY <2>1 DEF UploadFloppy, Goto
  <2>2. CASE RecordFloppy(e)
    BY <1>1, <2>2, RunDeploymentColumns DEF RowBecomes
  <2>3. CASE ~UploadFloppy(e) /\ ~RecordFloppy(e)
    <3>1. floppy
      BY <1>2, <2>3, HypervisorChanges
    <3>2. row.floppy_path
      BY <1>1, <2>3, <3>1, Leaves DEF FloppyKnown
    <3>3. ~FailCommit(e)
      BY <3>1 DEF FailCommit, FloppyGone
    <3>4. ~CommitRetry(e)
      BY <1>1, <3>1 DEF CommitRetry, SlotSound, RetrySound, FloppyGone, TERMINAL_STATES
    <3>. QED  BY <1>2, <2>3, <3>2, <3>3, <3>4, RowChanges
  <2>. QED  BY <2>1, <2>2, <2>3
<1>4. ASSUME row'.state \in TERMINAL_STATES
      PROVE  ~floppy' /\ ~row'.floppy_path
  <2>1. CASE Complete(e)
    BY <1>1, <1>2, <2>1, PostInstallColumns DEF RowBecomes
  <2>2. CASE FailCommit(e)
    BY <1>1, <2>2, FailColumns DEF FailCommit, hypervisor, FloppyGone, RowBecomes
  <2>3. CASE ~Complete(e) /\ ~FailCommit(e)
    <3>1. CommitRetry(e) => Current(e)
      BY <1>1 DEF CommitRetry, SlotInv, LoadedPcs
    <3>2. ~CommitRetry(e)
      BY <1>4, <3>1, RetryColumns DEF MovesTo, RowBecomes, TERMINAL_STATES
    <3>3. /\ ~BeginCreate(e) /\ ~AttachAndBoot(e) /\ ~EnterInstallingOs(e)
          /\ ~BeginPostInstall(e) /\ ~Configure(e)
      BY <1>1, <1>4, RunDeploymentColumns, PostInstallColumns
         DEF MovesTo, RowBecomes, TERMINAL_STATES
    <3>4. row.state \in TERMINAL_STATES
      BY <1>4, <2>3, <3>2, <3>3, RowChanges
    <3>5. pc[e] # "api_loaded"
      BY <3>2, Entered
    <3>6. pc[e] \in {"announce", "queued"}
      BY <1>1, <3>4, <3>5 DEF SlotInv, SlotSound, CompletedSound, Busy, TERMINAL_STATES
    <3>7. UNCHANGED floppy
      BY <3>6, HypervisorChanges DEF UploadFloppy, Eject, Complete, FailCleanup
    <3>8. row'.floppy_path = row.floppy_path
      BY <3>6, RowChanges
         DEF RecordFloppy, Eject, Complete, FailCleanup, FailCommit, CommitRetry
    <3>. QED  BY <3>4, <3>7, <3>8 DEF FloppyGone
  <2>. QED  BY <2>1, <2>2, <2>3
<1>5. \A f \in Execs : pc'[f] = "fail_commit" => ~floppy'
  BY <1>1, <1>2, Entered
<1>. QED  BY <1>3, <1>4, <1>5 DEF FloppyGone

LEMMA TokenSlotStep ==
    ASSUME TypeInv, SerialInv, TokenVoided, NEW e \in Execs, SlotStep(e)
    PROVE  TokenVoided'
<1>1. SlotInv(e) /\ \A f \in Execs \ {e} : pc[f] = "idle"
  BY OthersIdle DEF SlotStep, Busy
<1> SUFFICES ASSUME row'.app_token
             PROVE  pc'[e] \in {"post_installing", "failing", "fail_commit"}
  BY DEF TokenVoided
<1>2. CASE InstallApps(e)
  BY <1>2 DEF InstallApps, Goto, TypeInv, TypeOK
<1>3. CASE ~InstallApps(e)
  <2>1. ~FinishApps(e) /\ ~FailCommit(e)
    BY <1>1, PostInstallColumns, FailColumns DEF RowBecomes
  <2>2. row.app_token
    <3>1. CASE FailCleanup(e)
      BY <1>1, <3>1, FailColumns DEF RowStays, MovesTo, RowBecomes
    <3>. QED  BY <1>3, <2>1, <3>1, RowChanges
  <2>3. pc[e] \in {"post_installing", "failing", "fail_commit"}
    BY <1>1, <2>2 DEF TokenVoided
  <2>. QED  BY <2>1, <2>3, Leaves DEF FailCleanup, Goto, TypeInv, TypeOK
<1>. QED  BY <1>2, <1>3

LEMMA DeletedSlotStep ==
    ASSUME TypeInv, SerialInv, [Next]_vars, incidents' = 0,
           NEW e \in Execs, SlotStep(e)
    PROVE  MachineDeleted'
<1>. USE DEF TypeInv, TypeOK
<1>1. SlotInv(e) /\ \A f \in Execs \ {e} : pc'[f] = "idle"
  BY OthersIdle DEF SlotStep, Busy
<1>2. ASSUME pc'[e] = "fail_commit", NEW v \in Vms, v = row'.vm_moref, Exists(v)'
      PROVE  KeepsVm(row)'
  <2>1. FailCleanup(e) /\ (KeepsVm(snap[e]) <=> KeepsVm(row))
    BY <1>1, <1>2, Entered, FailColumns
  <2>2. row'.state = row.state /\ row'.vm_moref = row.vm_moref
    BY <1>1, <2>1, FailColumns DEF RowStays, MovesTo, RowBecomes
  <2>3. guest'[v] = DeletedGuest(snap[e], v)
    BY <2>1, StillCalm DEF FailCleanup
  <2>4. v = snap[e].vm_moref
    BY <1>1, <1>2, <2>1, <2>2, CurrentColumns DEF FailCleanup, SlotInv, LoadedPcs
  <2>5. KeepsVm(row)
    BY <1>2, <2>1, <2>3, <2>4 DEF DeletedGuest, Exists
  <2>. QED  BY <2>2, <2>5 DEF KeepsVm
<1>. QED  BY <1>1, <1>2 DEF MachineDeleted

LEMMA CleanOtherStep ==
    ASSUME TypeInv, FloppyKnown, FloppyGone, TokenVoided, MachineDeleted,
           OtherStep, [Next]_vars, incidents' = 0
    PROVE  FloppyKnown' /\ FloppyGone' /\ TokenVoided' /\ MachineDeleted'
<1>1. RowStays /\ UNCHANGED floppy /\ \A v \in Vms : Exists(v)' <=> Exists(v)
  BY OtherColumns, OtherMachines
<1>2. \A e \in Execs : Busy(e) => pc'[e] = pc[e]
  BY CalmOtherSlots
<1>3. \A e \in Execs : pc'[e] = "fail_commit" => pc[e] = "fail_commit"
  BY OtherSlots
<1>4. FloppyKnown' /\ TokenVoided'
  BY <1>1, <1>2 DEF FloppyKnown, TokenVoided, Busy, RowStays, MovesTo, RowBecomes
<1>5. FloppyGone'
  BY <1>1, <1>3 DEF FloppyGone, RowStays, MovesTo, RowBecomes
<1>6. MachineDeleted'
  BY <1>1, <1>3 DEF MachineDeleted, KeepsVm, RowStays, MovesTo, RowBecomes
<1>. QED  BY <1>4, <1>5, <1>6

LEMMA CleanInvariance ==
    ASSUME CalmEnvironment
    PROVE  Spec => []CleanInv
<1>1. Init => CleanInv
  BY DEF Init, NewRow, CleanInv, FloppyKnown, FloppyGone, TokenVoided,
         MachineDeleted, TERMINAL_STATES
<1>2. ASSUME TypeInv, SerialInv, LifeInv, CleanInv, [Next]_vars
      PROVE  CleanInv'
  <2> SUFFICES ASSUME incidents' = 0
               PROVE  FloppyKnown' /\ FloppyGone' /\ TokenVoided' /\ MachineDeleted'
    BY DEF CleanInv
  <2>1. FloppyKnown /\ FloppyGone /\ TokenVoided /\ MachineDeleted
    BY <1>2, StillCalm DEF CleanInv
  <2>2. ASSUME NEW e \in Execs, SlotStep(e)
        PROVE  FloppyKnown' /\ FloppyGone' /\ TokenVoided' /\ MachineDeleted'
    BY <1>2, <2>1, <2>2, FloppySlotStep, TokenSlotStep, DeletedSlotStep
  <2>. QED  BY <1>2, <2>1, <2>2, NextSteps, CleanOtherStep
<1>3. Spec => []SerialInv
  BY SerialInvariance DEF CalmEnvironment
<1>. QED
  BY <1>1, <1>2, <1>3, LifeInvariance, TypeInvariance, PTL DEF Spec

(* A deployment at rest to which nothing has happened from outside leaves  *)
(* no administrator's password on the datastore, no reference to it, and   *)
(* no download token that still opens anything.                            *)
THEOREM NoSecretsAtRestHolds ==
    ASSUME CalmEnvironment
    PROVE  Spec => []NoSecretsAtRest
<1>1. CleanInv => NoSecretsAtRest
  BY DEF CleanInv, FloppyGone, TokenVoided, NoSecretsAtRest, AtRest, Busy
<1>. QED  BY <1>1, CleanInvariance, PTL

(* Nothing but a full retry forgets a machine that still exists: the name  *)
(* of a machine leaves the row after the machine has left the hypervisor.  *)
THEOREM OnlyRetryAbandonsVmHolds ==
    ASSUME CalmEnvironment
    PROVE  Spec => OnlyRetryAbandonsVm
<1>1. ASSUME TypeInv, SerialInv, LifeInv, CleanInv, [Next]_vars,
             NEW v \in Vms, Orphan(v)', ~Orphan(v), incidents' = 0
      PROVE  CommitsRetry
  <2>. USE DEF TypeInv, TypeOK
  <2>1. MachineDeleted
    BY <1>1, StillCalm DEF CleanInv
  <2>2. /\ Exists(v)' /\ row'.vm_moref # v
        /\ \A f \in Execs : ~(pc'[f] = "rd_created" /\ ref'[f] = v)
    BY <1>1 DEF Orphan
  <2>3. ~OtherStep
    <3> SUFFICES ASSUME OtherStep PROVE FALSE
      OBVIOUS
    <3>1. Exists(v) /\ row.vm_moref # v
      BY <1>1, <2>2, OtherColumns, OtherMachines DEF RowStays, MovesTo, RowBecomes
    <3>2. PICK f \in Execs : pc[f] = "rd_created" /\ ref[f] = v
      BY <1>1, <3>1 DEF Orphan
    <3>. QED  BY <1>1, <2>2, <3>2, CalmOtherSlots DEF Busy
  <2>4. PICK e \in Execs : SlotStep(e)
    BY <1>1, <2>3, NextSteps
  <2>5. /\ SlotInv(e) /\ SlotSound(e)
        /\ \A f \in Execs \ {e} : pc[f] = "idle"
    BY <1>1, <2>4, OthersIdle DEF SlotStep, LifeInv, Busy
  <2>6. ~CreateVm(e)
    <3> SUFFICES ASSUME CreateVm(e) PROVE FALSE
      OBVIOUS
    <3>1. PICK u \in Vms : /\ guest' = [guest EXCEPT ![u] = "off"]
                           /\ ref' = [ref EXCEPT ![e] = u]
      BY DEF CreateVm
    <3>2. v # u
      BY <1>1, <2>2, <2>4, <3>1 DEF CreateVm, Goto
    <3>3. Exists(v) /\ row.vm_moref # v
      BY <2>2, <3>1, <3>2 DEF CreateVm, Exists, database
    <3>4. \A f \in Execs : pc[f] # "rd_created"
      BY <2>5 DEF CreateVm
    <3>. QED  BY <1>1, <3>3, <3>4 DEF Orphan
  <2>7. Exists(v)
    <3>1. ~CreateVmRaises(e)
      BY <1>1, StillCalm DEF CreateVmRaises
    <3>. QED  BY <1>1, <2>2, <2>4, <2>6, <3>1, NoNewMachine
  <2>8. CASE RecordVm(e)
    <3>1. row.vm_moref = NoVm /\ row'.vm_moref = ref[e]
      BY <1>1, <2>5, <2>8, RunDeploymentColumns
         DEF RecordVm, SlotSound, CreationSound, CreatingPcs, RowBecomes
    <3>. QED  BY <1>1, <2>2, <2>5, <2>7, <3>1, ProvisioningAssumption DEF Orphan
  <2>9. CASE FailCommit(e)
    <3>1. row.vm_moref = v
      BY <1>1, <2>5, <2>7, <2>9 DEF Orphan, FailCommit
    <3>2. KeepsVm(row)
      BY <2>1, <2>7, <2>9, <3>1 DEF FailCommit, MachineDeleted
    <3>. QED  BY <1>1, <2>2, <2>5, <2>9, <3>1, <3>2, FailColumns DEF RowBecomes
  <2>10. CASE ~RecordVm(e) /\ ~FailCommit(e)
    <3>1. \A f \in Execs : pc[f] # "rd_created"
      BY <1>1, <2>4, <2>5, <2>10, Leaves
    <3>2. row.vm_moref = v
      BY <1>1, <2>7, <3>1 DEF Orphan
    <3>3. CommitRetry(e)
      BY <1>1, <2>2, <2>4, <2>10, <3>2, RowChanges
    <3>. QED  BY <1>1, <2>4, <3>3 DEF CommitRetry, Goto, CommitsRetry
  <2>. QED  BY <2>8, <2>9, <2>10
<1>2. TypeInv /\ SerialInv /\ LifeInv /\ CleanInv /\ [Next]_vars =>
        [\A v \in Vms : Orphan(v)' /\ ~Orphan(v) /\ incidents' = 0 =>
            \E e \in Execs : pc[e] = "api_loaded" /\ pc'[e] = "api_enqueue"]_vars
  BY <1>1 DEF CommitsRetry
<1>3. Spec => []SerialInv
  BY SerialInvariance DEF CalmEnvironment
<1>. QED
  BY <1>2, <1>3, CleanInvariance, LifeInvariance, TypeInvariance, PTL
     DEF Spec, OnlyRetryAbandonsVm

-----------------------------------------------------------------------------
(* The sweep.  Its cleanup jobs run beside the deployment's own job, on    *)
(* copies of the row that are not current, and the names of machines need  *)
(* not be unique.  Without retries there is one job that may create a      *)
(* machine; as long as it has not, no session has seen one, so that every  *)
(* session that ever holds a machine holds that one.                       *)

SweepEnvironment ==
    /\ Operators = {}
    /\ {"redeliver", "crash", "cancel", "delete", "lost"} \cap Incidents = {}

Creator(e) ==
    \/ pc[e] \in CreatingPcs \cup {"rd_begin"}
    \/ pc[e] \in {"api_enqueue", "queued"} /\ job[e] = "run_deployment"

OneCreator ==
    \A e \in Execs : Creator(e) =>
        /\ row.vm_moref = NoVm
        /\ \A f \in Execs : snap[f].vm_moref = NoVm /\ (Creator(f) => f = e)

(* Two sessions, or a session and the row, never name different machines.  *)
OneName ==
    \A e \in Execs : snap[e].vm_moref # NoVm /\ row.vm_moref # NoVm =>
                        snap[e].vm_moref = row.vm_moref

DeletedFirst ==
    \A e \in Execs : pc[e] = "fail_commit" /\ ~KeepsVm(snap[e]) =>
        \A v \in Vms : v = snap[e].vm_moref => ~Exists(v)

NoRetry == \A e \in Execs : pc[e] # "api_loaded"

OrphanInv == OneCreator /\ OneName /\ DeletedFirst /\ NoRetry /\ NoOrphanVm

LEMMA NoLostMachine ==
    ASSUME SweepEnvironment, NEW e \in Execs PROVE ~CreateVmRaises(e)
BY DEF SweepEnvironment, CreateVmRaises, Incident

LEMMA WriteKeepsVm ==
    ASSUME TypeOK, NEW e \in Execs, NEW new \in Rows,
           new.vm_moref = snap[e].vm_moref, Write(e, new)
    PROVE  row'.vm_moref = row.vm_moref /\ snap'[e].vm_moref = snap[e].vm_moref
<1>1. row'["vm_moref"] = IF new["vm_moref"] # snap[e]["vm_moref"]
                         THEN new["vm_moref"] ELSE row["vm_moref"]
  BY FlushType DEF Write, TypeOK, Columns
<1>2. snap'[e] = new
  BY DEF Write, TypeOK
<1>. QED  BY <1>1, <1>2

(* What a step does to the machine in the row and in its own session,      *)
(* whatever the session holds.                                             *)
SessionVmKept(e) ==
    /\ row'.vm_moref = row.vm_moref
    /\ snap'[e].vm_moref \in {snap[e].vm_moref, row.vm_moref, NoVm}

SessionVmCleared(e) ==
    /\ FailCommit(e) /\ ~KeepsVm(snap[e]) /\ snap[e].vm_moref # NoVm
    /\ row'.vm_moref = NoVm /\ snap'[e].vm_moref = NoVm

LEMMA SessionVm ==
    ASSUME TypeInv, NEW e \in Execs, SlotStep(e), ~RecordVm(e), pc[e] # "api_loaded"
    PROVE  SessionVmKept(e) \/ SessionVmCleared(e)
<1>. USE DEF TypeInv, TypeOK, SessionVmKept
<1>1. ASSUME NEW to \in DeploymentState, Transition(e, to)
      PROVE  SessionVmKept(e)
  <2>. DEFINE new == [snap[e] EXCEPT !.state = to]
  <2>1. new \in Rows /\ new.vm_moref = snap[e].vm_moref
    BY DEF Rows
  <2>. QED  BY <1>1, <2>1, WriteKeepsVm DEF Transition
<1>2. CASE BeginCreate(e) \/ AttachAndBoot(e) \/ EnterInstallingOs(e)
           \/ BeginPostInstall(e) \/ Configure(e)
  BY <1>1, <1>2 DEF BeginCreate, AttachAndBoot, EnterInstallingOs,
                    BeginPostInstall, Configure, DeploymentState
<1>3. CASE RecordFloppy(e)
  <2>. DEFINE new == [snap[e] EXCEPT !.floppy_path = TRUE]
  <2>1. new \in Rows /\ new.vm_moref = snap[e].vm_moref
    BY DEF Rows
  <2>. QED  BY <1>3, <2>1, WriteKeepsVm DEF RecordFloppy
<1>4. CASE Eject(e) \/ Complete(e)
  <2>. DEFINE ejected   == WithoutFloppy(snap[e])
              completed == [WithoutFloppy(snap[e]) EXCEPT !.state = "completed"]
  <2>1. ejected.vm_moref = snap[e].vm_moref /\ completed.vm_moref = snap[e].vm_moref
    BY DEF Rows, WithoutFloppy
  <2>2. ejected \in Rows /\ completed \in Rows
    BY SessionTypes
  <2>3. Write(e, ejected) \/ Write(e, completed)
    BY <1>4 DEF Eject, Complete
  <2>. QED  BY <2>1, <2>2, <2>3, WriteKeepsVm
<1>5. CASE ReResolve(e)
  <2>. DEFINE new == [snap[e] EXCEPT !.reported_ip = snap[e].vm_moref]
  <2>1. new \in Rows /\ new.vm_moref = snap[e].vm_moref
    BY DEF Rows
  <2>2. Write(e, new) \/ UNCHANGED <<row, snap>>
    BY <1>5 DEF ReResolve
  <2>. QED  BY <2>1, <2>2, WriteKeepsVm
<1>6. CASE InstallApps(e) \/ FinishApps(e)
  <2>. DEFINE new(b) == [snap[e] EXCEPT !.app_token = b]
  <2>1. \A b \in BOOLEAN : new(b) \in Rows /\ new(b).vm_moref = snap[e].vm_moref
    BY DEF Rows
  <2>2. PICK b \in BOOLEAN : Write(e, new(b))
    BY <1>6 DEF InstallApps, FinishApps
  <2>. QED  BY <2>1, <2>2, WriteKeepsVm
<1>7. CASE FailCleanup(e)
  <2>. DEFINE new == WithoutSecrets(snap[e])
  <2>1. new.vm_moref = snap[e].vm_moref
    BY DEF Rows, WithoutSecrets
  <2>2. new \in Rows
    BY SessionTypes
  <2>3. Write(e, new) \/ UNCHANGED <<row, snap>>
    BY <1>7 DEF FailCleanup
  <2>. QED  BY <2>1, <2>2, <2>3, WriteKeepsVm
<1>8. CASE FailCommit(e)
  <2>. DEFINE new == Failed(snap[e])
  <2>1. new.vm_moref = IF KeepsVm(snap[e]) THEN snap[e].vm_moref ELSE NoVm
    BY DEF Failed, WithoutSecrets, Rows
  <2>2. new \in Rows /\ row' = Flush(row, snap[e], new)
    BY <1>8, SessionTypes DEF FailCommit
  <2>3. row'["vm_moref"] = IF new["vm_moref"] # snap[e]["vm_moref"]
                           THEN new["vm_moref"] ELSE row["vm_moref"]
    BY <2>2, FlushType DEF Columns
  <2>4. snap'[e].vm_moref = NoVm
    BY <1>8 DEF FailCommit, Stop, NewRow
  <2>. QED  BY <1>8, <2>1, <2>3, <2>4 DEF SessionVmCleared
<1>9. CASE QuietStep(e)
  <2>1. UNCHANGED row
    BY <1>9, QuietColumns
  <2>2. \/ snap'[e] = snap[e] \/ snap'[e] = NewRow("dhcp") \/ snap'[e] = row
        \/ snap'[e] = [row EXCEPT !.template = snap[e].template]
    BY <1>9 DEF QuietStep, RunDeployment, UploadFloppy, CreateVm, PowerOn,
       EnqueueWait, WaitForCallback, Poll, PollTimeout, RunPostInstall,
       CloseWinRm, Announce, Raise, CreateVmRaises, CleanupDeployment, Enqueue,
       Load, Stop
  <2>. QED  BY <2>1, <2>2 DEF NewRow, Rows
<1>10. ~CommitRetry(e)
  BY DEF CommitRetry
<1>. QED
  BY <1>2, <1>3, <1>4, <1>5, <1>6, <1>7, <1>8, <1>9, <1>10
     DEF SlotStep, Step, RunDeploymentStep, WaitStep, PostInstallStep, FailStep,
         ApiStep, QuietStep

(* A step leaves the local variables of the other slots alone, and makes   *)
(* its slot the creator only if it was.                                    *)
LEMMA OwnSlotOnly ==
    ASSUME TypeInv, NEW e \in Execs, SlotStep(e)
    PROVE  /\ \A f \in Execs \ {e} : ref'[f] = ref[f] /\ job'[f] = job[f]
           /\ pc[e] # "api_loaded" /\ Creator(e)' => Creator(e)
           /\ CreateVm(e) \/ RecordVm(e) => Creator(e)
           /\ RecordVm(e) => ~Creator(e)'
<1>. USE DEF TypeInv, TypeOK, Goto, Creator, CreatingPcs
<1>1. CASE RunDeploymentStep(e)
  <2>1. CASE \/ RunDeployment(e) \/ BeginCreate(e) \/ UploadFloppy(e)
             \/ RecordFloppy(e) \/ CreateVm(e)
    BY <2>1 DEF RunDeployment, BeginCreate, UploadFloppy, RecordFloppy, CreateVm,
                RecordVm, Starts
  <2>2. CASE \/ RecordVm(e) \/ AttachAndBoot(e) \/ PowerOn(e)
             \/ EnterInstallingOs(e) \/ EnqueueWait(e)
    BY <2>2 DEF RecordVm, AttachAndBoot, PowerOn, EnterInstallingOs, EnqueueWait,
                CreateVm
  <2>. QED  BY <1>1, <2>1, <2>2 DEF RunDeploymentStep
<1>2. CASE WaitStep(e) \/ PollTimeout(e)
  BY <1>2 DEF WaitStep, PollTimeout, WaitForCallback, Poll, Eject, Starts, Stop,
              CreateVm, RecordVm
<1>3. CASE PostInstallStep(e)
  BY <1>3 DEF PostInstallStep, RunPostInstall, ReResolve, BeginPostInstall,
      InstallApps, FinishApps, Configure, CloseWinRm, Complete, Announce, Starts,
      Stop, CreateVm, RecordVm
<1>4. CASE FailStep(e) \/ ApiStep(e)
  BY <1>4 DEF FailStep, ApiStep, Raise, CreateVmRaises, CleanupDeployment,
      FailCleanup, FailCommit, CommitRetry, Enqueue, Starts, Stop, TryPcs, CreateVm, RecordVm
<1>. QED  BY <1>1, <1>2, <1>3, <1>4 DEF SlotStep, Step

LEMMA RecordVmColumns ==
    ASSUME TypeInv, NEW e \in Execs, RecordVm(e), snap[e].vm_moref = NoVm
    PROVE  row'.vm_moref = ref[e] /\ snap'[e].vm_moref = ref[e]
<1>. USE DEF TypeInv, TypeOK
<1>. DEFINE new == WithVm(snap[e], ref[e])
<1>1. new.vm_moref = ref[e] /\ ref[e] # NoVm
  BY ProvisioningAssumption DEF WithVm, Rows, RecordVm, HoldsVm
<1>2. new \in Rows /\ row' = Flush(row, snap[e], new) /\ snap'[e] = new
  BY SessionTypes DEF RecordVm, Write
<1>3. row'["vm_moref"] = IF new["vm_moref"] # snap[e]["vm_moref"]
                         THEN new["vm_moref"] ELSE row["vm_moref"]
  BY <1>2, FlushType DEF Columns
<1>. QED  BY <1>1, <1>2, <1>3

LEMMA NamesSlotStep ==
    ASSUME TypeInv, OrphanInv, NEW e \in Execs, SlotStep(e)
    PROVE  OneCreator' /\ OneName' /\ NoRetry'
<1>1. \A f \in Execs \ {e} : /\ pc'[f] = pc[f] /\ snap'[f] = snap[f]
                             /\ job'[f] = job[f]
  BY StepMovesItsSlot, OwnSlotOnly DEF SlotStep
<1>2. NoRetry'
  BY <1>1, Entered DEF OrphanInv, NoRetry
<1>3. \A f \in Execs : Creator(f)' => Creator(f)
  BY <1>1, OwnSlotOnly DEF Creator, OrphanInv, NoRetry
<1>4. CASE RecordVm(e)
  <2>1. Creator(e) /\ ~Creator(e)'
    BY <1>4, OwnSlotOnly
  <2>2. /\ \A f \in Execs : Creator(f) => f = e
        /\ \A f \in Execs : snap[f].vm_moref = NoVm
    BY <2>1 DEF OrphanInv, OneCreator
  <2>3. \A f \in Execs : ~Creator(f)'
    BY <1>3, <2>1, <2>2
  <2>4. row'.vm_moref = ref[e] /\ snap'[e].vm_moref = ref[e]
    BY <1>4, <2>2, RecordVmColumns
  <2>5. OneName'
    BY <1>1, <2>2, <2>4 DEF OneName
  <2>. QED  BY <1>2, <2>3, <2>5 DEF OneCreator
<1>5. CASE ~RecordVm(e)
  <2>1. /\ row'.vm_moref \in {row.vm_moref, NoVm}
        /\ snap'[e].vm_moref \in {snap[e].vm_moref, row.vm_moref, NoVm}
    BY <1>5, SessionVm DEF OrphanInv, NoRetry, SessionVmKept, SessionVmCleared
  <2>2. OneName'
    BY <1>1, <2>1 DEF OrphanInv, OneName
  <2>3. OneCreator'
    BY <1>1, <1>3, <2>1 DEF OrphanInv, OneCreator
  <2>. QED  BY <1>2, <2>2, <2>3
<1>. QED  BY <1>4, <1>5

LEMMA DeletedFirstSlotStep ==
    ASSUME SweepEnvironment, TypeInv, OrphanInv, NEW e \in Execs, SlotStep(e)
    PROVE  DeletedFirst'
<1>. USE DEF TypeInv, TypeOK
<1> SUFFICES ASSUME NEW f \in Execs, pc'[f] = "fail_commit", ~KeepsVm(snap'[f]),
                    NEW v \in Vms, v = snap'[f].vm_moref
             PROVE  ~Exists(v)'
  BY DEF DeletedFirst, KeepsVm
<1>1. CASE f = e
  <2>1. FailCleanup(e)
    BY <1>1, Entered
  <2>. DEFINE new == WithoutSecrets(snap[e])
  <2>2. new.vm_moref = snap[e].vm_moref /\ new.state = snap[e].state
    BY DEF WithoutSecrets, Rows
  <2>3. snap'[e] = snap[e] \/ snap'[e] = new
    BY <2>1 DEF FailCleanup, Write
  <2>4. ~KeepsVm(snap[e]) /\ v = snap[e].vm_moref
    BY <1>1, <2>2, <2>3 DEF KeepsVm
  <2>5. guest'[v] = DeletedGuest(snap[e], v)
    BY <2>1 DEF FailCleanup, BestEffort, Incident, SweepEnvironment
  <2>. QED  BY <2>4, <2>5 DEF DeletedGuest, Exists
<1>2. CASE f # e
  <2>1. pc[f] = "fail_commit" /\ snap'[f] = snap[f]
    BY <1>2, StepMovesItsSlot DEF SlotStep
  <2>2. ~Exists(v)
    BY <2>1 DEF OrphanInv, DeletedFirst
  <2>3. ~CreateVm(e)
    BY <2>1, OwnSlotOnly, ProvisioningAssumption DEF OrphanInv, OneCreator
  <2>. QED  BY <2>2, <2>3, NoNewMachine, NoLostMachine
<1>. QED  BY <1>1, <1>2

LEMMA NoOrphanSlotStep ==
    ASSUME SweepEnvironment, TypeInv, OrphanInv, NEW e \in Execs, SlotStep(e)
    PROVE  NoOrphanVm'
<1>. USE DEF TypeInv, TypeOK
<1>1. \A f \in Execs \ {e} : pc'[f] = pc[f] /\ ref'[f] = ref[f]
  BY StepMovesItsSlot, OwnSlotOnly DEF SlotStep
<1> SUFFICES ASSUME NEW v \in Vms, Exists(v)'
             PROVE  \/ row'.vm_moref = v
                    \/ \E f \in Execs : pc'[f] = "rd_created" /\ ref'[f] = v
  BY DEF NoOrphanVm, Orphan
<1>2. Exists(v) => \/ row.vm_moref = v
                   \/ \E f \in Execs : pc[f] = "rd_created" /\ ref[f] = v
  BY DEF OrphanInv, NoOrphanVm, Orphan
<1>3. ASSUME NEW f \in Execs, pc[f] = "rd_created", Creator(e)
      PROVE  f = e
  BY <1>3 DEF OrphanInv, OneCreator, Creator, CreatingPcs
<1>4. CASE CreateVm(e)
  <2>1. Creator(e) /\ row.vm_moref = NoVm /\ pc[e] = "rd_create"
    BY <1>4, OwnSlotOnly DEF OrphanInv, OneCreator, CreateVm
  <2>2. PICK u \in Vms : /\ guest' = [guest EXCEPT ![u] = "off"]
                         /\ ref' = [ref EXCEPT ![e] = u]
    BY <1>4 DEF CreateVm
  <2>3. v = u
    BY <1>2, <1>3, <2>1, <2>2, ProvisioningAssumption DEF Exists
  <2>. QED  BY <1>4, <2>2, <2>3 DEF CreateVm, Goto
<1>5. CASE RecordVm(e)
  <2>1. Creator(e) /\ row.vm_moref = NoVm /\ snap[e].vm_moref = NoVm
    BY <1>5, OwnSlotOnly DEF OrphanInv, OneCreator
  <2>2. row'.vm_moref = ref[e]
    BY <1>5, <2>1, RecordVmColumns
  <2>3. Exists(v)
    BY <1>5, NoNewMachine, NoLostMachine DEF RecordVm, CreateVm
  <2>. QED  BY <1>2, <1>3, <2>1, <2>2, <2>3, ProvisioningAssumption
<1>6. CASE ~CreateVm(e) /\ ~RecordVm(e)
  <2>1. Exists(v)
    BY <1>6, NoNewMachine, NoLostMachine
  <2>2. CASE \E f \in Execs : pc[f] = "rd_created" /\ ref[f] = v
    BY <1>1, <1>6, <2>2, Leaves
  <2>3. CASE row.vm_moref = v
    <3>1. CASE SessionVmKept(e)
      BY <2>3, <3>1 DEF SessionVmKept
    <3>2. CASE SessionVmCleared(e)
      <4>1. snap[e].vm_moref = v
        BY <2>3, <3>2, ProvisioningAssumption
           DEF SessionVmCleared, OrphanInv, OneName
      <4>. QED  BY <2>1, <3>2, <4>1
                DEF SessionVmCleared, FailCommit, OrphanInv, DeletedFirst
    <3>. QED  BY <1>6, <3>1, <3>2, SessionVm DEF OrphanInv, NoRetry
  <2>. QED  BY <1>2, <2>1, <2>2, <2>3
<1>. QED  BY <1>4, <1>5, <1>6

(* Outside the slots' steps only the sweep starts a job, a cleanup.        *)
LEMMA SweepSlots ==
    ASSUME SweepEnvironment, TypeInv, OtherStep, NEW e \in Execs
    PROVE  /\ UNCHANGED <<snap, ref>>
           /\ \/ pc'[e] = pc[e] /\ job'[e] = job[e]
              \/ pc[e] = "idle" /\ pc'[e] = "queued" /\ job'[e] = "cleanup_deployment"
<1>. USE DEF TypeInv, TypeOK
<1>1. ~Request
  BY DEF Request, SweepEnvironment
<1>2. CASE SweepStaleDeployments
  BY <1>2 DEF SweepStaleDeployments
<1>3. CASE Mishap
  <2>1. DeleteTemplate
    BY <1>3 DEF Mishap, Redeliver, Crash, Cancel, Incident, SweepEnvironment
  <2>. QED  BY <2>1 DEF DeleteTemplate, slots
<1>4. CASE TimePasses \/ GuestStep \/ UNCHANGED vars
  BY <1>4 DEF TimePasses, GuestStep, GuestSpecializes, GuestInstalls,
              DeploymentNetworkPing, DeploymentCallback, slots, vars
<1>. QED  BY <1>1, <1>2, <1>3, <1>4 DEF OtherStep

LEMMA OrphanOtherStep ==
    ASSUME SweepEnvironment, TypeInv, OrphanInv, OtherStep
    PROVE  OrphanInv'
<1>1. row'.vm_moref = row.vm_moref /\ \A v \in Vms : Exists(v)' <=> Exists(v)
  BY OtherColumns, OtherMachines DEF RowStays, MovesTo, RowBecomes
<1>2. UNCHANGED <<snap, ref>> \/ Execs = {}
  BY SweepSlots
<1>3. \A e \in Execs :
        \/ pc'[e] = pc[e] /\ job'[e] = job[e]
        \/ pc[e] = "idle" /\ pc'[e] = "queued" /\ job'[e] = "cleanup_deployment"
  BY SweepSlots
<1>4. \A e \in Execs : Creator(e)' => Creator(e)
  BY <1>3 DEF Creator, CreatingPcs
<1>5. OneCreator' /\ OneName'
  BY <1>1, <1>2, <1>4 DEF OrphanInv, OneCreator, OneName
<1>6. DeletedFirst' /\ NoRetry' /\ NoOrphanVm'
  BY <1>1, <1>2, <1>3
     DEF OrphanInv, DeletedFirst, KeepsVm, NoRetry, NoOrphanVm, Orphan
<1>. QED  BY <1>5, <1>6 DEF OrphanInv

LEMMA OrphanInit == Init => OrphanInv
<1> SUFFICES ASSUME Init PROVE OrphanInv
  OBVIOUS
<1>1. /\ row.vm_moref = NoVm
      /\ \A f \in Execs : snap[f].vm_moref = NoVm
      /\ \A v \in Vms : ~Exists(v)
  BY DEF Init, NewRow, Exists
<1>2. PICK e \in Execs :
        /\ pc = [f \in Execs |-> IF f = e THEN "api_enqueue" ELSE "idle"]
        /\ job = [f \in Execs |-> IF f = e THEN "run_deployment" ELSE "none"]
  BY DEF Init
<1>3. \A f \in Execs : Creator(f) => f = e
  BY <1>2 DEF Creator, CreatingPcs
<1>. QED  BY <1>1, <1>2, <1>3 DEF OrphanInv, OneCreator, OneName, DeletedFirst,
                                  NoRetry, NoOrphanVm, Orphan

(* However many cleanup jobs of the sweep run beside the deployment's own, *)
(* with copies of the row however old, they forget no machine: none takes  *)
(* a name out of the row whose machine it has not deleted.  (No retries,   *)
(* no killed or cancelled job, no failing deletion, and create_vm does not *)
(* raise once it has made a machine.)                                      *)
THEOREM NoOrphanVmHolds ==
    ASSUME SweepEnvironment
    PROVE  Spec => []NoOrphanVm
<1>1. ASSUME TypeInv, OrphanInv, [Next]_vars
      PROVE  OrphanInv'
  <2>1. ASSUME NEW e \in Execs, SlotStep(e)
        PROVE  OrphanInv'
    BY <1>1, <2>1, NamesSlotStep, DeletedFirstSlotStep, NoOrphanSlotStep
       DEF OrphanInv
  <2>. QED  BY <1>1, <2>1, NextSteps, OrphanOtherStep
<1>2. OrphanInv => NoOrphanVm
  BY DEF OrphanInv
<1>. QED  BY <1>1, <1>2, OrphanInit, TypeInvariance, PTL DEF Spec

===============================================================================
