----------------------------- MODULE Provisioning -----------------------------
(***************************************************************************)
(* One deployment, from the API call that stores it to the virtual machine *)
(* it leaves on the hypervisor.  The row in the database is shared by arq  *)
(* jobs (run_deployment, wait_for_callback, run_post_install and           *)
(* cleanup_deployment, worker/tasks/provision.py), by the API's two retry  *)
(* routes and by the guest's own callbacks.  Every one of them works on    *)
(* its own ORM session, a copy of the row that is not read again after a   *)
(* commit (module OrmSession).                                             *)
(*                                                                         *)
(* An execution slot runs one job or one API request at a time.  A step of *)
(* a slot is the code between two points where other processes may act:    *)
(* a commit, a call to the hypervisor, a wait.  Left out: log lines,       *)
(* notification rows, error_message, the rendered answer file, the ISO     *)
(* uploads and the content of the post-install steps; none of them is read *)
(* by the control modelled here.  Database commits and Redis deliveries do *)
(* not fail unless an incident says so.                                    *)
(***************************************************************************)
EXTENDS Naturals, FiniteSets, DeploymentStates, OrmSession

CONSTANTS
    Execs,              \* slots for jobs and requests that are under way
    Vms,                \* machines the hypervisor may create, and addresses
    NoVm,               \* vm_moref, reported_ip: None
    IpModes,            \* how the deployment may be addressed
    Operators,          \* the retry requests operators make
    Incidents,          \* what may go wrong
    ConcurrentRequests, \* two retry requests may overlap
    UniqueNames,        \* the hypervisor refuses a second VM of one name
    MaxRetries,         \* bound: retries of the deployment
    MaxIncidents        \* bound: incidents, the sweep not counted

ASSUME ProvisioningAssumption ==
    /\ NoVm \notin Vms
    /\ IpModes \subseteq {"dhcp", "static"}
    /\ Operators \subseteq {"retry", "retry_post_install"}
    /\ Incidents \subseteq {"redeliver", "crash", "cancel", "sweep", "delete",
                            "dispatch", "template", "winrm", "lost"}
    /\ {ConcurrentRequests, UniqueNames} \subseteq BOOLEAN
    /\ MaxRetries \in Nat /\ MaxIncidents \in Nat

VARIABLES
    row,        \* the deployments row
    stale,      \* updated_at is older than os_install_timeout_minutes
    floppy,     \* the answer floppy image is on the datastore
    guest,      \* what each machine is doing
    media,      \* machines with the install media attached
    job,        \* the arq job of each slot
    pc,         \* where the code of each slot is
    snap,       \* the session's copy of the row of each slot
    ref,        \* the machine held in a local variable of each slot
    incidents   \* incidents so far

database   == <<row, stale>>
hypervisor == <<floppy, guest, media>>
slots      == <<job, pc, snap, ref>>
vars       == <<database, hypervisor, slots, incidents>>

-----------------------------------------------------------------------------
(* State. *)

(* The deployments row as the API creates it. *)
NewRow(mode) ==
    [state |-> "pending", template |-> TRUE, token_used |-> FALSE,
     reported_ip |-> NoVm, vm_moref |-> NoVm, floppy_path |-> FALSE,
     app_token |-> FALSE, retry_count |-> 0, ip_mode |-> mode]

Rows == [state : DeploymentState, template : BOOLEAN, token_used : BOOLEAN,
         reported_ip : Vms \cup {NoVm}, vm_moref : Vms \cup {NoVm},
         floppy_path : BOOLEAN, app_token : BOOLEAN,
         retry_count : 0 .. MaxRetries, ip_mode : {"dhcp", "static"}]

WorkerJobs == {"run_deployment", "wait_for_callback", "run_post_install",
               "cleanup_deployment"}

(* A machine is not created yet, powered off, in the passes of Windows     *)
(* Setup before specialize, in specialize or after it, through with Setup, *)
(* through post-install, or deleted.                                       *)
GuestStates == {"none", "off", "setup", "specialized", "installed",
                "configured", "gone"}

ApiPcs == {"api_loaded", "api_enqueue"}

(* Definitions named ...Fault are wrong on purpose: each is the definition *)
(* below it with one plausible slip, and shows that a property notices.    *)

TryPcsFault == {"post_apps", "announce"}

(* The pcs inside run_deployment's and run_post_install's try blocks at    *)
(* which the code calls something that may raise.                          *)
TryPcs == {"rd_begin", "rd_floppy", "rd_create", "rd_attach", "rd_power",
           "rd_booted", "post_reach", "post_rereach", "post_apps",
           "post_installing", "post_scripts", "configuring"}

(* The pcs at which a slot has read the row and may yet write it. *)
LoadedPcs == TryPcs \cup {"api_loaded", "rd_floppy_done", "rd_created",
                          "wait_poll", "wait_eject", "complete", "announce",
                          "failing", "fail_commit"}

Pcs == LoadedPcs \cup {"idle", "queued", "api_enqueue", "rd_enqueue",
                       "post_start"}

Init ==
    /\ \E mode \in IpModes : row = NewRow(mode)
    /\ stale = FALSE
    /\ floppy = FALSE
    /\ guest = [v \in Vms |-> "none"]
    /\ media = {}
    /\ \E e \in Execs :
          /\ pc = [f \in Execs |-> IF f = e THEN "api_enqueue" ELSE "idle"]
          /\ job = [f \in Execs |-> IF f = e THEN "run_deployment" ELSE "none"]
    /\ snap = [f \in Execs |-> NewRow("dhcp")]
    /\ ref = [f \in Execs |-> NoVm]
    /\ incidents = 0

-----------------------------------------------------------------------------
(* Steps every job is made of. *)

Goto(e, p) == pc' = [pc EXCEPT ![e] = p]

(* The job or the request is over. *)
Stop(e) ==
    /\ pc'   = [pc EXCEPT ![e] = "idle"]
    /\ job'  = [job EXCEPT ![e] = "none"]
    /\ snap' = [snap EXCEPT ![e] = NewRow("dhcp")]
    /\ ref'  = [ref EXCEPT ![e] = NoVm]

(* db.get() in a new session. *)
Load(e) == snap' = [snap EXCEPT ![e] = row]

(* commit(): updated_at moves when, and only when, an UPDATE is emitted. *)
Write(e, new) ==
    /\ row'   = Flush(row, snap[e], new)
    /\ snap'  = [snap EXCEPT ![e] = new]
    /\ stale' = (stale /\ Dirty(snap[e], new) = {})

(* DeploymentStateMachine.transition, on the session's copy. *)
Transition(e, to) ==
    /\ CanTransition(snap[e].state, to)
    /\ Write(e, [snap[e] EXCEPT !.state = to])

Incident(kind) ==
    /\ kind \in Incidents
    /\ incidents < MaxIncidents
    /\ incidents' = incidents + 1

(* Deletions on the hypervisor are attempted; their failure is swallowed.  *)
BestEffort(done) == IF done THEN UNCHANGED incidents ELSE Incident("delete")

Exists(v) == guest[v] \notin {"none", "gone"}

(* The machines on which WinRM answers.  Its listener is set up in the     *)
(* specialize pass, so that it answers before Setup is over.               *)
Answering == {v \in Vms : guest[v] \in {"specialized", "installed"}}

Starts(e, j) == pc[e] = "queued" /\ job[e] = j

-----------------------------------------------------------------------------
(* run_deployment *)

(* A template deleted meanwhile sends the job straight to _fail. *)
RunDeployment(e) ==
    /\ Starts(e, "run_deployment")
    /\ Load(e)
    /\ Goto(e, IF row.template THEN "rd_begin" ELSE "failing")
    /\ UNCHANGED <<database, hypervisor, job, ref, incidents>>

BeginCreate(e) ==
    /\ pc[e] = "rd_begin"
    /\ Transition(e, "creating_vm")
    /\ Goto(e, "rd_floppy")
    /\ UNCHANGED <<hypervisor, job, ref, incidents>>

(* The image has one name per deployment: every attempt overwrites it. *)
UploadFloppy(e) ==
    /\ pc[e] = "rd_floppy"
    /\ floppy' = TRUE
    /\ Goto(e, "rd_floppy_done")
    /\ UNCHANGED <<database, guest, media, job, snap, ref, incidents>>

RecordFloppy(e) ==
    /\ pc[e] = "rd_floppy_done"
    /\ Write(e, [snap[e] EXCEPT !.floppy_path = TRUE])
    /\ Goto(e, "rd_create")
    /\ UNCHANGED <<hypervisor, job, ref, incidents>>

CreateVm(e) ==
    /\ pc[e] = "rd_create"
    /\ UniqueNames => \A v \in Vms : ~Exists(v)
    /\ \E v \in Vms :
          /\ guest[v] = "none"
          /\ guest' = [guest EXCEPT ![v] = "off"]
          /\ ref' = [ref EXCEPT ![e] = v]
    /\ Goto(e, "rd_created")
    /\ UNCHANGED <<database, floppy, media, job, snap, incidents>>

WithVmFault(d, v) == [d EXCEPT !.floppy_path = v]

(* deployment.vm_moref = vm_ref *)
WithVm(d, v) == [d EXCEPT !.vm_moref = v]

RecordVm(e) ==
    /\ pc[e] = "rd_created"
    /\ Write(e, WithVm(snap[e], ref[e]))
    /\ Goto(e, "rd_attach")
    /\ UNCHANGED <<hypervisor, job, ref, incidents>>

(* The ISO and the floppy are attached, the boot order set, booting saved. *)
AttachAndBoot(e) ==
    /\ pc[e] = "rd_attach"
    /\ floppy /\ guest[ref[e]] = "off"
    /\ media' = media \cup {ref[e]}
    /\ Transition(e, "booting")
    /\ Goto(e, "rd_power")
    /\ UNCHANGED <<floppy, guest, job, ref, incidents>>

PowerOn(e) ==
    /\ pc[e] = "rd_power"
    /\ guest[ref[e]] = "off"
    /\ guest' = [guest EXCEPT ![ref[e]] = "setup"]
    /\ Goto(e, "rd_booted")
    /\ UNCHANGED <<database, floppy, media, job, snap, ref, incidents>>

(* After the keypresses, whose own failures are swallowed. *)
EnterInstallingOs(e) ==
    /\ pc[e] = "rd_booted"
    /\ Transition(e, "installing_os")
    /\ Goto(e, "rd_enqueue")
    /\ UNCHANGED <<hypervisor, job, ref, incidents>>

(* run_deployment ends by enqueueing wait_for_callback; the slot that ends *)
(* is the one the new job is queued in.                                    *)
EnqueueWait(e) ==
    /\ pc[e] = "rd_enqueue"
    /\ pc' = [pc EXCEPT ![e] = "queued"]
    /\ job' = [job EXCEPT ![e] = "wait_for_callback"]
    /\ snap' = [snap EXCEPT ![e] = NewRow("dhcp")]
    /\ ref' = [ref EXCEPT ![e] = NoVm]
    /\ UNCHANGED <<database, hypervisor, incidents>>

-----------------------------------------------------------------------------
(* wait_for_callback *)

AwaitsCallback(d) == d.state = "installing_os"

WaitForCallback(e) ==
    /\ Starts(e, "wait_for_callback")
    /\ IF AwaitsCallback(row)
       THEN /\ Load(e)
            /\ Goto(e, IF row.token_used THEN "wait_eject" ELSE "wait_poll")
            /\ UNCHANGED <<job, ref>>
       ELSE Stop(e)
    /\ UNCHANGED <<database, hypervisor, incidents>>

(* The machines whose address _guest_reachable_over_winrm would try: a     *)
(* static address is the same for every machine of the deployment, a       *)
(* reported one belongs to the machine that reported it.                   *)
FallbackTargets(d) ==
    IF d.ip_mode = "static" THEN Vms
    ELSE {IF d.reported_ip # NoVm THEN d.reported_ip ELSE d.vm_moref}

GuestReachableOverWinrm(d) == FallbackTargets(d) \cap Answering # {}

(* One turn of the poll loop.  The row is read again; the template object  *)
(* is the one loaded when the job started.                                 *)
Poll(e) ==
    LET fresh == [row EXCEPT !.template = snap[e].template]
    IN  /\ pc[e] = "wait_poll"
        /\ IF ~fresh.token_used /\ fresh.state = "failed"
           THEN Stop(e)
           ELSE /\ snap' = [snap EXCEPT ![e] = fresh]
                /\ \/ /\ fresh.token_used
                      /\ Goto(e, "wait_eject")
                   \/ /\ ~fresh.token_used
                      /\ fresh.template /\ GuestReachableOverWinrm(fresh)
                      /\ Goto(e, "wait_eject")
                   \/ /\ ~fresh.token_used
                      /\ UNCHANGED pc
                /\ UNCHANGED <<job, ref>>
        /\ UNCHANGED <<database, hypervisor, incidents>>

PollTimeout(e) ==
    /\ pc[e] = "wait_poll"
    /\ Goto(e, "failing")
    /\ UNCHANGED <<database, hypervisor, job, snap, ref, incidents>>

WithoutFloppy(d) == [d EXCEPT !.floppy_path = FALSE]

(* _cleanup_answer_floppy asks the session whether there is an image. *)
CleanupAnswerFloppy(d, done) == floppy' = (floppy /\ ~(done /\ d.floppy_path))

(* _eject_install_media; run_post_install follows inside the same job. *)
Eject(e) ==
    /\ pc[e] = "wait_eject"
    /\ \E done \in BOOLEAN :
          /\ BestEffort(done)
          /\ CleanupAnswerFloppy(snap[e], done)
          /\ media' = media \ (IF done THEN {snap[e].vm_moref} ELSE {})
    /\ Write(e, WithoutFloppy(snap[e]))
    /\ Goto(e, "post_start")
    /\ UNCHANGED <<guest, job, ref>>

-----------------------------------------------------------------------------
(* run_post_install *)

AwaitsPostInstall(d) == d.state = "installing_os"

(* guest_ip: the static address (NoVm here), the reported one, or, if the  *)
(* machine tells one, the one the hypervisor reports.                      *)
GuestIp(d) == IF d.ip_mode = "static" THEN NoVm
              ELSE IF d.reported_ip # NoVm THEN d.reported_ip
              ELSE d.vm_moref

(* Inline at the end of wait_for_callback, or a job of its own. *)
RunPostInstall(e) ==
    /\ pc[e] = "post_start" \/ Starts(e, "run_post_install")
    /\ IF AwaitsPostInstall(row)
       THEN /\ Load(e)
            /\ ref' = [ref EXCEPT ![e] = GuestIp(row)]
            /\ Goto(e, IF row.template THEN "post_reach" ELSE "failing")
            /\ UNCHANGED job
       ELSE Stop(e)
    /\ UNCHANGED <<database, hypervisor, incidents>>

(* Once per run: the hypervisor's view of the address replaces guest_ip.   *)
ReResolve(e) ==
    LET current == snap[e].vm_moref
    IN  /\ pc[e] = "post_reach"
        /\ current # NoVm /\ current # ref[e] /\ Exists(current)
        /\ ref' = [ref EXCEPT ![e] = current]
        /\ IF snap[e].ip_mode = "static"
           THEN UNCHANGED <<row, stale, snap>>
           ELSE Write(e, [snap[e] EXCEPT !.reported_ip = current])
        /\ Goto(e, "post_rereach")
        /\ UNCHANGED <<hypervisor, job, incidents>>

(* WinRM answers on guest_ip; ref is from here on the machine that did.    *)
BeginPostInstall(e) ==
    /\ pc[e] \in {"post_reach", "post_rereach"}
    /\ \E v \in Answering :
          /\ ref[e] = v \/ (ref[e] = NoVm /\ snap[e].ip_mode = "static")
          /\ ref' = [ref EXCEPT ![e] = v]
    /\ Transition(e, "post_install")
    /\ Goto(e, "post_apps")
    /\ UNCHANGED <<hypervisor, job, incidents>>

(* Tools, roles and features are behind; the app downloads get a token.    *)
InstallApps(e) ==
    /\ pc[e] = "post_apps"
    /\ ref[e] \in Answering
    /\ Write(e, [snap[e] EXCEPT !.app_token = TRUE])
    /\ Goto(e, "post_installing")
    /\ UNCHANGED <<hypervisor, job, ref, incidents>>

FinishApps(e) ==
    /\ pc[e] = "post_installing"
    /\ ref[e] \in Answering
    /\ Write(e, [snap[e] EXCEPT !.app_token = FALSE])
    /\ Goto(e, "post_scripts")
    /\ UNCHANGED <<hypervisor, job, ref, incidents>>

(* A template without apps comes here straight from post_apps. *)
Configure(e) ==
    /\ pc[e] \in {"post_apps", "post_scripts"}
    /\ ref[e] \in Answering
    /\ Transition(e, "configuring")
    /\ Goto(e, "configuring")
    /\ UNCHANGED <<hypervisor, job, ref, incidents>>

(* Updates, domain join and the last reboot need the guest; closing WinRM  *)
(* is one call whose exceptions are swallowed, so it may not happen.       *)
CloseWinRm(e) ==
    /\ pc[e] = "configuring"
    /\ ref[e] \in Answering
    /\ \/ /\ guest' = [guest EXCEPT ![ref[e]] = "configured"]
          /\ UNCHANGED incidents
       \/ /\ Incident("winrm")
          /\ UNCHANGED guest
    /\ Goto(e, "complete")
    /\ UNCHANGED <<database, floppy, media, job, snap, ref>>

Complete(e) ==
    /\ pc[e] = "complete"
    /\ CanTransition(snap[e].state, "completed")
    /\ \E done \in BOOLEAN :
          /\ BestEffort(done)
          /\ CleanupAnswerFloppy(snap[e], done)
    /\ Write(e, [WithoutFloppy(snap[e]) EXCEPT !.state = "completed"])
    /\ Goto(e, "announce")
    /\ UNCHANGED <<guest, media, job, ref>>

(* The notifications and webhooks are queued, still inside the try block.  *)
Announce(e) ==
    /\ pc[e] = "announce"
    /\ \/ /\ Stop(e)
          /\ UNCHANGED incidents
       \/ /\ Incident("dispatch")
          /\ Goto(e, "failing")
          /\ UNCHANGED <<job, snap, ref>>
    /\ UNCHANGED <<database, hypervisor>>

-----------------------------------------------------------------------------
(* _fail and cleanup_deployment *)

(* Something inside the try block raises. *)
Raise(e) ==
    /\ pc[e] \in TryPcs
    /\ Goto(e, "failing")
    /\ UNCHANGED <<database, hypervisor, job, snap, ref, incidents>>

(* create_vm raises although vSphere has made the machine: the answer is   *)
(* lost, or the session's end (Disconnect, in its finally) raises.         *)
CreateVmRaises(e) ==
    /\ pc[e] = "rd_create"
    /\ Incident("lost")
    /\ UniqueNames => \A v \in Vms : ~Exists(v)
    /\ \E v \in Vms :
          /\ guest[v] = "none"
          /\ guest' = [guest EXCEPT ![v] = "off"]
    /\ Goto(e, "failing")
    /\ UNCHANGED <<database, floppy, media, job, snap, ref>>

(* cleanup_deployment loads the row and calls _fail, whatever its state.   *)
CleanupDeployment(e) ==
    /\ Starts(e, "cleanup_deployment")
    /\ Load(e)
    /\ Goto(e, "failing")
    /\ UNCHANGED <<database, hypervisor, job, ref, incidents>>

KeepsVmFault(d) == d.vm_moref # NoVm

KeepsVm(d) == d.vm_moref # NoVm /\ d.state \in KEEPABLE_ON_FAILURE_STATES

WithoutSecretsFault(d) == [d EXCEPT !.floppy_path = FALSE]

WithoutSecrets(d) == [d EXCEPT !.floppy_path = FALSE, !.app_token = FALSE]

FailedFault(d) ==
    [WithoutSecrets(d) EXCEPT
        !.vm_moref = NoVm,
        !.state    = IF CanTransition(d.state, "failed") THEN "failed" ELSE @]

Failed(d) ==
    [WithoutSecrets(d) EXCEPT
        !.vm_moref = IF KeepsVm(d) THEN @ ELSE NoVm,
        !.state    = IF CanTransition(d.state, "failed") THEN "failed" ELSE @]

DeletedGuestFault(d, v) == guest[v]

DeletedGuest(d, v) ==
    IF ~KeepsVm(d) /\ v = d.vm_moref THEN "gone" ELSE guest[v]

(* The hypervisor's part of _fail.  The log line that says that the VM is  *)
(* kept commits what has been assigned to the session so far.              *)
FailCleanup(e) ==
    /\ pc[e] = "failing"
    /\ \E done \in BOOLEAN :
          /\ BestEffort(done)
          /\ CleanupAnswerFloppy(snap[e], done)
          /\ guest' = [v \in Vms |-> IF done THEN DeletedGuest(snap[e], v)
                                     ELSE guest[v]]
    /\ media' = {v \in media : guest'[v] # "gone"}
    /\ IF KeepsVm(snap[e])
       THEN Write(e, WithoutSecrets(snap[e]))
       ELSE UNCHANGED <<row, stale, snap>>
    /\ Goto(e, "fail_commit")
    /\ UNCHANGED <<job, ref>>

(* The FAILED transition, or, from a terminal state, the plain commit that *)
(* follows it; then the notifications, whose failure only ends the job.    *)
FailCommit(e) ==
    LET new == Failed(snap[e])
    IN  /\ pc[e] = "fail_commit"
        /\ row' = Flush(row, snap[e], new)
        /\ stale' = (stale /\ Dirty(snap[e], new) = {})
        /\ Stop(e)
        /\ UNCHANGED <<hypervisor, incidents>>

-----------------------------------------------------------------------------
(* The API: retry and retry-post-install *)

RetriedFault(d) ==
    [d EXCEPT !.state = "pending", !.retry_count = @ + 1, !.vm_moref = NoVm,
              !.floppy_path = FALSE]

Retried(d) ==
    [d EXCEPT !.state = "pending", !.retry_count = @ + 1, !.vm_moref = NoVm,
              !.floppy_path = FALSE, !.token_used = FALSE]

RetriedPostInstall(d) ==
    [d EXCEPT !.state = "installing_os", !.retry_count = @ + 1]

JobOf(kind) == IF kind = "retry" THEN "run_deployment" ELSE "run_post_install"

MayRetryFault(d, kind) == kind = "retry_post_install" => d.vm_moref # NoVm

MayRetry(d, kind) ==
    /\ d.state = "failed"
    /\ kind = "retry_post_install" => d.vm_moref # NoVm

(* A request that MayRetry refuses is answered 409 and changes nothing.    *)
(* Without ConcurrentRequests one request ends before the next one starts. *)
RequestRetry(e, kind) ==
    /\ pc[e] = "idle" /\ kind \in Operators
    /\ ~ConcurrentRequests => \A f \in Execs : pc[f] \notin ApiPcs
    /\ row.retry_count < MaxRetries
    /\ MayRetry(row, kind)
    /\ Load(e)
    /\ job' = [job EXCEPT ![e] = JobOf(kind)]
    /\ Goto(e, "api_loaded")
    /\ UNCHANGED <<database, hypervisor, ref, incidents>>

CommitRetry(e) ==
    /\ pc[e] = "api_loaded"
    /\ Write(e, IF job[e] = "run_deployment" THEN Retried(snap[e])
                ELSE RetriedPostInstall(snap[e]))
    /\ Goto(e, "api_enqueue")
    /\ UNCHANGED <<hypervisor, job, ref, incidents>>

(* Both retry routes, and create_deployment, enqueue after their commit.   *)
Enqueue(e) ==
    /\ pc[e] = "api_enqueue"
    /\ Goto(e, "queued")
    /\ snap' = [snap EXCEPT ![e] = NewRow("dhcp")]
    /\ UNCHANGED <<database, hypervisor, job, ref, incidents>>

-----------------------------------------------------------------------------
(* The sweep *)

(* Time matters to nothing but the sweep. *)
TimePasses ==
    /\ "sweep" \in Incidents
    /\ ~stale /\ row.state \notin TERMINAL_STATES
    /\ stale' = TRUE
    /\ UNCHANGED <<row, hypervisor, slots, incidents>>

OverDueFault(d) == stale /\ d.state = "installing_os"

OverDue(d) == stale /\ d.state \notin TERMINAL_STATES

SweepStaleDeployments ==
    /\ "sweep" \in Incidents
    /\ OverDue(row)
    /\ \E e \in Execs :
          /\ pc[e] = "idle"
          /\ pc' = [pc EXCEPT ![e] = "queued"]
          /\ job' = [job EXCEPT ![e] = "cleanup_deployment"]
    /\ UNCHANGED <<database, hypervisor, snap, ref, incidents>>

-----------------------------------------------------------------------------
(* The guest and its callbacks *)

(* Windows Setup is started from the install media. *)
GuestSpecializes(v) ==
    /\ guest[v] = "setup" /\ v \in media
    /\ guest' = [guest EXCEPT ![v] = "specialized"]
    /\ UNCHANGED <<database, floppy, media, slots, incidents>>

(* From the specialize pass on it may get through without them. *)
GuestInstalls(v) ==
    /\ guest[v] = "specialized"
    /\ guest' = [guest EXCEPT ![v] = "installed"]
    /\ UNCHANGED <<database, floppy, media, slots, incidents>>

(* Both callback routes read and commit the row in one short request.      *)
DeploymentNetworkPing(v) ==
    /\ guest[v] = "specialized"
    /\ row.state = "installing_os"
    /\ row' = [row EXCEPT !.reported_ip = v]
    /\ stale' = (stale /\ row' = row)
    /\ UNCHANGED <<hypervisor, slots, incidents>>

DeploymentCallback(v) ==
    /\ guest[v] = "installed"
    /\ ~row.token_used /\ row.state = "installing_os"
    /\ row' = [row EXCEPT !.token_used = TRUE, !.reported_ip = v]
    /\ stale' = FALSE
    /\ UNCHANGED <<hypervisor, slots, incidents>>

-----------------------------------------------------------------------------
(* Incidents *)

(* arq delivers at least once: a second execution of a job starts while    *)
(* the first one is still running.                                         *)
Redeliver(e, f) ==
    /\ Incident("redeliver")
    /\ pc[e] \notin ApiPcs \cup {"idle", "queued"} /\ pc[f] = "idle"
    /\ pc' = [pc EXCEPT ![f] = "queued"]
    /\ job' = [job EXCEPT ![f] = job[e]]
    /\ UNCHANGED <<database, hypervisor, snap, ref>>

(* The worker process dies and the job is delivered again; a request that  *)
(* dies, or cannot reach Redis, is lost.                                   *)
Crash(e) ==
    /\ Incident("crash")
    /\ pc[e] \notin {"idle", "queued"}
    /\ IF pc[e] \in ApiPcs
       THEN Stop(e)
       ELSE /\ pc' = [pc EXCEPT ![e] = "queued"]
            /\ snap' = [snap EXCEPT ![e] = NewRow("dhcp")]
            /\ ref' = [ref EXCEPT ![e] = NoVm]
            /\ UNCHANGED job
    /\ UNCHANGED <<database, hypervisor>>

(* arq cancels a job past its timeout; "except Exception" does not catch   *)
(* the cancellation, and the job is not tried again.                       *)
Cancel(e) ==
    /\ Incident("cancel")
    /\ pc[e] \notin ApiPcs \cup {"idle", "queued"}
    /\ Stop(e)
    /\ UNCHANGED <<database, hypervisor>>

(* ON DELETE SET NULL on template_id; not an ORM update. *)
DeleteTemplate ==
    /\ Incident("template")
    /\ row.template
    /\ row' = [row EXCEPT !.template = FALSE]
    /\ UNCHANGED <<stale, hypervisor, slots>>

-----------------------------------------------------------------------------
(* Specification *)

RunDeploymentStep(e) ==
    \/ RunDeployment(e) \/ BeginCreate(e) \/ UploadFloppy(e) \/ RecordFloppy(e)
    \/ CreateVm(e) \/ RecordVm(e) \/ AttachAndBoot(e) \/ PowerOn(e)
    \/ EnterInstallingOs(e) \/ EnqueueWait(e)

WaitStep(e) == WaitForCallback(e) \/ Poll(e) \/ Eject(e)

PostInstallStep(e) ==
    \/ RunPostInstall(e) \/ ReResolve(e) \/ BeginPostInstall(e)
    \/ InstallApps(e) \/ FinishApps(e) \/ Configure(e) \/ CloseWinRm(e)
    \/ Complete(e) \/ Announce(e)

FailStep(e) == \/ Raise(e) \/ CreateVmRaises(e)
               \/ CleanupDeployment(e) \/ FailCleanup(e) \/ FailCommit(e)

ApiStep(e) == CommitRetry(e) \/ Enqueue(e)

Step(e) == \/ RunDeploymentStep(e) \/ WaitStep(e) \/ PostInstallStep(e)
           \/ FailStep(e) \/ ApiStep(e)

Request == \E e \in Execs, kind \in Operators : RequestRetry(e, kind)

GuestStep == \E v \in Vms : \/ GuestSpecializes(v) \/ GuestInstalls(v)
                            \/ DeploymentNetworkPing(v) \/ DeploymentCallback(v)

Mishap == \/ \E e, f \in Execs : Redeliver(e, f)
          \/ \E e \in Execs : Crash(e) \/ Cancel(e)
          \/ DeleteTemplate

Next == \/ \E e \in Execs : Step(e) \/ PollTimeout(e)
        \/ Request
        \/ TimePasses \/ SweepStaleDeployments
        \/ GuestStep
        \/ Mishap

Spec == Init /\ [][Next]_vars

(* The worker and the API keep running what has started, a poll loop that  *)
(* never hears of the guest reaches its deadline, and the cron job fires   *)
(* every five minutes.  Nothing is assumed of operators, guests, mishaps.  *)
Fairness ==
    /\ \A e \in Execs : WF_vars(Step(e)) /\ WF_vars(PollTimeout(e))
    /\ WF_vars(TimePasses)
    /\ WF_vars(SweepStaleDeployments)

FairSpec == Spec /\ Fairness

-----------------------------------------------------------------------------
(* Properties *)

(* Every variable has its type: the columns of the row and of every copy   *)
(* of it, what each machine does, where each slot is and what it holds.    *)
TypeOK ==
    /\ row \in Rows
    /\ stale \in BOOLEAN
    /\ floppy \in BOOLEAN
    /\ guest \in [Vms -> GuestStates]
    /\ media \in SUBSET Vms
    /\ job \in [Execs -> WorkerJobs \cup {"none"}]
    /\ pc \in [Execs -> Pcs]
    /\ snap \in [Execs -> Rows]
    /\ ref \in [Execs -> Vms \cup {NoVm}]
    /\ incidents \in 0 .. MaxIncidents

Busy(e) == pc[e] # "idle"

(* At any time at most one job or request works on the deployment, as long *)
(* as nothing is delivered twice, the sweep does not step in and requests  *)
(* do not overlap: crashes, cancelled jobs and retries never leave a       *)
(* second driver behind.                                                   *)
SoleDriver == \A e, f \in Execs : Busy(e) /\ Busy(f) => e = f

(* The columns that only the API and the worker write. *)
OwnColumns == {"state", "vm_moref", "floppy_path", "app_token", "retry_count"}

(* Under the same conditions the copy a session works on, which no code    *)
(* reads again after a commit, still agrees with the row in every column   *)
(* the pipeline decides on.                                                *)
SnapshotCurrent ==
    \A e \in Execs : pc[e] \in LoadedPcs =>
        \A c \in OwnColumns : snap[e][c] = row[c]

(* A deployment shown as completed names a machine that exists and went    *)
(* through post-install to the end; it is not another attempt's machine.   *)
CompletedGuestIsConfigured ==
    row.state = "completed" =>
        row.vm_moref # NoVm /\ guest[row.vm_moref] = "configured"

(* A machine whose Setup has not come to the specialize pass, in which     *)
(* WinRM starts to answer, keeps its install media: no callback of an      *)
(* earlier machine, no answer on an address the machines share and no      *)
(* repeated job ends the wait for it early.  (The rest of Setup may lose   *)
(* them, see MediaDuringSetup.)  Names are unique, nothing is delivered    *)
(* twice, the sweep does not step in and requests do not overlap.          *)
MediaUntilAnswer == \A v \in Vms : guest[v] = "setup" => v \in media

(* A machine on the hypervisor that the row does not name and no session   *)
(* is about to record.                                                     *)
Orphan(v) == /\ Exists(v) /\ row.vm_moref # v
             /\ \A e \in Execs : ~(pc[e] = "rd_created" /\ ref[e] = v)

(* No machine is forgotten by clean-ups of the sweep that race the job     *)
(* which creates and records it, while there are no retries, no job is     *)
(* killed or cancelled, deletions succeed and create_vm raises only when   *)
(* it has made no machine.                                                 *)
NoOrphanVm == \A v \in Vms : ~Orphan(v)

(* Nothing but a full retry forgets a machine that still exists: no        *)
(* failing path does until the first incident (a crash, a cancellation, a  *)
(* deletion or an answer of create_vm that is lost).                       *)
OnlyRetryAbandonsVm ==
    [][\A v \in Vms : Orphan(v)' /\ ~Orphan(v) /\ incidents' = 0 =>
          \E e \in Execs : pc[e] = "api_loaded" /\ pc'[e] = "api_enqueue"]_vars

AtRest == row.state \in TERMINAL_STATES /\ \A e \in Execs : ~Busy(e)

(* Once a deployment to which nothing has happened from outside rests, the *)
(* floppy image with the administrator's password is off the datastore,    *)
(* nothing refers to it, and the token of the app downloads is void.       *)
NoSecretsAtRest ==
    AtRest /\ incidents = 0 => ~floppy /\ ~row.floppy_path /\ ~row.app_token

(* A deployment that failed for good names a machine only if WinRM has     *)
(* answered on it: the partial machine of an earlier failure is deleted.   *)
(* Setup may not be over on the machine that is kept.  The conditions are  *)
(* those of MediaUntilAnswer.                                              *)
FailedVmAnswered ==
    AtRest /\ row.state = "failed" /\ row.vm_moref # NoVm =>
        guest[row.vm_moref] \in {"specialized", "installed", "configured"}

(* No commit of a worker's stale session takes back a callback that has    *)
(* landed: only a full retry arms the token again.                         *)
CallbackNotLost ==
    [][row.token_used /\ ~row'.token_used =>
          \E e \in Execs : pc[e] = "api_loaded" /\ pc'[e] = "api_enqueue"]_vars

(* Whatever job is lost, cancelled or interrupted, the deployment ends up  *)
(* completed or failed.                                                    *)
EventuallyTerminal ==
    row.state \notin TERMINAL_STATES ~> row.state \in TERMINAL_STATES

(* The properties below are what documentation, comments or tests say and  *)
(* the code does not keep.                                                 *)

(* provision.py, wait_for_callback: when the wait ends, by the callback or *)
(* by an answer over WinRM, is "the one point we can be sure the install   *)
(* media is safe to unmount", because Setup is over.                       *)
MediaDuringSetup ==
    \A v \in Vms : guest[v] \in {"setup", "specialized"} => v \in media

(* provision.py, _fail and cleanup_deployment: what is cleaned up is a     *)
(* deployment that failed or is stuck.  A session that has read, or        *)
(* written, "completed" does not delete the machine.                       *)
CompletedVmSurvives ==
    \A e \in Execs :
        /\ pc[e] = "fail_commit"
        /\ snap[e].state = "completed" /\ snap[e].vm_moref # NoVm
        => guest[snap[e].vm_moref] # "gone"

(* provision.py, _KEEPABLE_ON_FAILURE_STATES: a machine that was kept for  *)
(* a post-install retry (the only retry of this run) is not deleted when   *)
(* that retry fails in turn.                                               *)
KeptVmStaysKept ==
    row.retry_count > 0 /\ row.state = "failed" => row.vm_moref # NoVm

(* The pipeline implements the lifecycle of module DeploymentLifecycle. *)
Lifecycle == INSTANCE DeploymentLifecycle
                WITH state <- row.state, hasVm <- (row.vm_moref # NoVm)

LifecycleSpec == Lifecycle!Spec

===============================================================================
