------------------------------ MODULE PostInstall ------------------------------
(***************************************************************************)
(* run_post_install from the inside: what the worker does to one guest     *)
(* over WinRM once the guest has called back or answered.  WinRM answers   *)
(* from Setup's specialize pass on, so Setup may have a restart of its own *)
(* still to make.  Provisioning has this as a few steps of the pipeline;   *)
(* here are its stages, the calls each of them makes, the tasks it leaves  *)
(* to the guest's scheduler, and the guest, which shuts down, restarts,    *)
(* installs and enrolls in its own time.  One execution works at a time    *)
(* (SoleDriver of Provisioning); a killed worker and retries come in       *)
(* between.  A loop that polls is a step that is taken when what it waits  *)
(* for is there, and a step that gives up.                                 *)
(***************************************************************************)
EXTENDS Integers, Sequences, FiniteSets

CONSTANTS
    Templates,      \* what the templates ask for
    Addresses,      \* addresses the guest may get
    None,           \* no address
    MaxRetries,     \* bound on retries of the post-install
    MaxIncidents,   \* bound on what goes wrong
    Incidents       \* what may go wrong

Apps == {"agent", "exe", "msi"}
Optional == {"layout", "tools", "features", "rdp", "scripts", "updates", "join", "admin"}

ASSUME PostInstallAssumption ==
    /\ Templates \subseteq SUBSET (Apps \cup Optional)
    /\ MaxRetries \in Nat /\ MaxIncidents \in Nat /\ None \notin Addresses
    /\ Incidents \subseteq {"call", "failure", "late", "move", "crash", "asset"}

VARIABLES
    deployment,     \* its row, its managed host and its template
    assets,         \* the applications that have not been deleted
    exec,           \* the execution of run_post_install
    guest,          \* the virtual machine
    task,           \* scheduled tasks registered on the guest
    retries, incidents,
    lost            \* the worker has lost track of a task on the guest

vars == <<deployment, assets, exec, guest, task, retries, incidents, lost>>

external == <<assets, retries, lost>>

Wanted == deployment.wanted

-----------------------------------------------------------------------------
(* Stages.  Definitions named ...Fault are wrong on purpose. *)

OrderFault == <<"reach", "layout", "tools", "features", "rdp", "apps", "scripts",
                "updates", "close", "join", "reboot", "admin", "complete">>

Order == <<"reach", "layout", "tools", "features", "rdp", "apps", "scripts",
           "updates", "join", "reboot", "admin", "close", "complete">>

Stages == {Order[i] : i \in DOMAIN Order}

(* The next stage is the next in order that is wanted or not optional.     *)
Skipped(stage) == stage \in Optional \ Wanted

NextStage(stage, next) ==
    \E i, j \in DOMAIN Order :
        /\ i < j /\ Order[i] = stage /\ Order[j] = next
        /\ ~Skipped(next)
        /\ \A k \in i + 1 .. j - 1 : Skipped(Order[k])

(* The row says how far the execution has come: what comes before the      *)
(* updates is post_install, and a machine that fails is kept from there on.*)
StateAt(stage) ==
    IF stage \in {"updates", "join", "reboot", "admin", "close", "complete"}
    THEN "configuring" ELSE "post_install"

(* unit: the tools are mounted in a drive; ok: how the task ended.         *)
Idle == [stage |-> "none", at |-> "idle", todo |-> {}, what |-> "none", ok |-> "none",
         addr |-> None, unit |-> FALSE]

Entered == [Idle EXCEPT !.stage = "reach", !.at = "address"]

Proceed ==
    \E stage \in Stages :
        /\ NextStage(exec.stage, stage)
        /\ exec' = [exec EXCEPT !.stage = stage, !.at = "begin", !.unit = FALSE,
                      !.todo = IF stage = "apps" THEN Wanted \cap Apps ELSE {}]
        /\ deployment' = [deployment EXCEPT !.state = StateAt(stage)]

In(stage, at) == exec.stage = stage /\ exec.at = at
Goto(at) == exec' = [exec EXCEPT !.at = at] /\ UNCHANGED deployment

(* The machine is kept when the failure comes after installing_os.         *)
Failed(d) == [d EXCEPT !.state = "failed", !.kept = d.state # "installing_os"]
Fail == exec' = Idle /\ deployment' = Failed(deployment)

Incident(i) ==
    i \in Incidents /\ incidents < MaxIncidents /\ incidents' = incidents + 1

(* The hypervisor's calls: what is known of the machine, and the machine    *)
(* afterwards.                                                             *)
GetGuestIp == guest.addr
GetPowerState == guest.power
MountToolsInstaller == [guest EXCEPT !.media = "tools"]
DetachIso == [guest EXCEPT !.media = "empty"]
RemoveCdrom == [guest EXCEPT !.media = "removed"]
PowerOnVm == [guest EXCEPT !.power = "on"]

(* The guest's commands. *)
Reboot == [guest EXCEPT !.pending = "restart"]
Shutdown == [guest EXCEPT !.pending = "shutdown"]
FeaturesInstalled == [guest EXCEPT !.features = TRUE]
Joined == [guest EXCEPT !.joined = TRUE]
Closed == [guest EXCEPT !.winrm = FALSE]

(* Whether the guest answers on an address. *)
Answers(addr) == guest.power = "on" /\ guest.winrm /\ guest.addr = addr

(* A call over WinRM returns what the guest says, or it raises; then it    *)
(* may have had its effect all the same.                                   *)
Returns == Answers(exec.addr) /\ UNCHANGED incidents

Raises(effect) ==
    \/ ~Answers(exec.addr) /\ guest' = guest /\ UNCHANGED incidents
    \/ Answers(exec.addr) /\ Incident("call") /\ guest' \in {guest, effect}

Init ==
    /\ \E wanted \in Templates, addr \in Addresses, known \in BOOLEAN,
          setup \in {"none", "restart"} :
          /\ deployment = [state |-> "installing_os", wanted |-> wanted, host |-> "none",
                           kept |-> TRUE, addr |-> IF known THEN addr ELSE None]
          /\ guest = [power |-> "on", pending |-> setup, winrm |-> TRUE, addr |-> addr,
                      features |-> FALSE, apps |-> {}, agent |-> "none",
                      joined |-> FALSE, media |-> "empty"]
    /\ assets = Apps /\ exec = Entered
    /\ task = {} /\ retries = 0 /\ incidents = 0 /\ lost = FALSE

-----------------------------------------------------------------------------
(* Reaching the guest *)

(* Without an address in the row the hypervisor is asked, which knows it   *)
(* once VMware Tools run.                                                  *)
FindAddress ==
    /\ In("reach", "address")
    /\ \/ /\ exec' = [exec EXCEPT !.at = "probe",
                         !.addr = IF deployment.addr = None THEN GetGuestIp
                                  ELSE deployment.addr]
          /\ UNCHANGED <<deployment, incidents>>
       \/ deployment.addr = None /\ Incident("late") /\ Fail
    /\ UNCHANGED <<external, guest, task>>

(* The wait ends with an answer, or after some ten minutes without one.    *)
Probe ==
    /\ In("reach", "probe")
    /\ \/ Returns /\ Proceed
       \/ /\ ~Answers(exec.addr)
          /\ (exec.addr = guest.addr /\ UNCHANGED incidents) \/ Incident("late")
          /\ Fail
    /\ UNCHANGED <<external, guest, task>>

(* The hypervisor's address differs: a client for it, and it is written    *)
(* to the row for the next attempt.                                        *)
SwitchAddress ==
    /\ In("reach", "probe") /\ ~Answers(exec.addr) /\ GetGuestIp # exec.addr
    /\ exec' = [exec EXCEPT !.addr = GetGuestIp]
    /\ deployment' = [deployment EXCEPT !.addr = GetGuestIp]
    /\ UNCHANGED <<external, guest, task, incidents>>

-----------------------------------------------------------------------------
(* Stages of one command.  A command that fails or raises fails the        *)
(* deployment.                                                             *)

Command(stage, effect) ==
    /\ In(stage, "begin")
    /\ \/ Returns /\ guest' = effect /\ Proceed
       \/ Incident("failure") /\ Fail /\ UNCHANGED guest
       \/ Raises(effect) /\ Fail
    /\ UNCHANGED <<external, task>>

RunPostInstallScripts == Command("layout", guest) \/ Command("scripts", guest)

EnableRdp == Command("rdp", guest)

(* A computer that is in the domain refuses to join it again. *)
JoinDomain ==
    \/ ~guest.joined /\ Command("join", Joined)
    \/ /\ In("join", "begin") /\ guest.joined /\ Fail
       /\ UNCHANGED <<external, guest, task, incidents>>

(* Tried three times; an account that stays enabled is a warning.          *)
DisableBuiltinAdministrator ==
    \/ Command("admin", guest)
    \/ /\ In("admin", "begin") /\ Incident("failure") /\ Proceed
       /\ UNCHANGED <<external, guest, task>>

InstallFeatures ==
    /\ In("features", "begin")
    /\ \/ Returns /\ guest' = FeaturesInstalled /\ Goto("verified")
       \/ Incident("failure") /\ Fail /\ UNCHANGED guest
       \/ Raises(FeaturesInstalled) /\ Fail
    /\ UNCHANGED <<external, task>>

(* The features are looked up again, and some need a restart. *)
FeaturesVerified ==
    /\ In("features", "verified")
    /\ \/ Returns /\ (Proceed \/ Goto("restart")) /\ UNCHANGED guest
       \/ Incident("failure") /\ Fail /\ UNCHANGED guest
       \/ Raises(guest) /\ Fail
    /\ UNCHANGED <<external, task>>

-----------------------------------------------------------------------------
(* Restarts *)

Restart ==
    /\ In("reboot", "begin") \/ In("features", "restart")
    /\ (Returns /\ guest' = Reboot) \/ Raises(Reboot)
    /\ Goto("settle")
    /\ UNCHANGED <<external, task>>

(* Three answers in a row, which may come before the guest has gone down:  *)
(* then the boot time is the old one and a warning is all there is.        *)
Settled ==
    /\ exec.at = "settle"
    /\ \/ Returns /\ guest.pending = "none" /\ Proceed
       \/ Answers(exec.addr) /\ guest.pending # "none" /\ Incident("late") /\ Proceed
       \/ ~Answers(exec.addr) /\ guest.pending = "none" /\ Fail /\ UNCHANGED incidents
    /\ UNCHANGED <<external, guest, task>>

-----------------------------------------------------------------------------
(* VMware Tools *)

MountTools ==
    /\ In("tools", "begin")
    /\ \/ /\ guest.media # "removed" /\ UNCHANGED incidents
          /\ guest' = MountToolsInstaller
          /\ exec' = [exec EXCEPT !.at = "install", !.unit = TRUE]
       \/ /\ (guest.media = "removed" /\ UNCHANGED incidents) \/ Incident("failure")
          /\ exec' = [exec EXCEPT !.at = "install"] /\ UNCHANGED guest
    /\ UNCHANGED <<deployment, external, task>>

InstallTools ==
    /\ In("tools", "install")
    /\ \/ Returns /\ Goto(IF guest.media = "tools" THEN "shutdown" ELSE "eject")
       \/ Incident("failure") /\ Goto("eject")
       \/ Raises(guest) /\ Fail
    /\ UNCHANGED <<external, guest, task>>

EjectTools ==
    /\ In("tools", "eject")
    /\ \/ /\ guest' = IF exec.unit THEN DetachIso ELSE guest
          /\ UNCHANGED incidents
       \/ exec.unit /\ Incident("failure") /\ UNCHANGED guest
    /\ Proceed
    /\ UNCHANGED <<external, task>>

ShutDown ==
    /\ In("tools", "shutdown")
    /\ (Returns /\ guest' = Shutdown) \/ Raises(Shutdown)
    /\ Goto("await off")
    /\ UNCHANGED <<external, task>>

(* Two minutes for the guest to go down. *)
AwaitPowerOff ==
    /\ In("tools", "await off")
    /\ \/ GetPowerState = "off" /\ Goto("remove") /\ UNCHANGED incidents
       \/ /\ GetPowerState = "on"
          /\ (guest.pending = "none" /\ UNCHANGED incidents) \/ Incident("late")
          /\ Goto("power on")
       \/ Incident("failure") /\ Fail
    /\ UNCHANGED <<external, guest, task>>

RemoveMedia ==
    /\ In("tools", "remove")
    /\ \/ /\ guest' = IF exec.unit THEN RemoveCdrom ELSE guest
          /\ UNCHANGED incidents
       \/ Incident("failure") /\ UNCHANGED guest
    /\ Goto("power on")
    /\ UNCHANGED <<external, task>>

(* Nothing is done for a guest that is still on. *)
PowerOn ==
    /\ In("tools", "power on")
    /\ \/ guest' = PowerOnVm /\ Goto("settle") /\ UNCHANGED incidents
       \/ Incident("failure") /\ Fail /\ UNCHANGED guest
    /\ UNCHANGED <<external, task>>

-----------------------------------------------------------------------------
(* Scheduled tasks: applications and updates *)

(* The task of an application has a name of its own for each attempt, the  *)
(* updates' one has a fixed name.                                          *)
TryOfFault(what) == retries + 1

TryOf(what) == IF what = "updates" THEN 0 ELSE retries

Mine == {t \in task : t.what = exec.what /\ t.try = TryOf(exec.what)}

Registered ==
    (task \ Mine) \cup
    {[what |-> exec.what, try |-> TryOf(exec.what), st |-> "running", res |-> "none"]}

(* The managed host of the deployment is looked up before it is made.      *)
GetOrCreateManagedHost ==
    [deployment EXCEPT !.host = IF @ = "none" THEN "made" ELSE @]

(* An asset that is gone is skipped, and so is an agent that has enrolled. *)
BeginApp(what) ==
    /\ In("apps", "begin") /\ what \in exec.todo
    /\ LET todo == exec.todo \ {what}
           agent == what = "agent" /\ what \in assets
           skip == what \notin assets \/ (agent /\ deployment.host = "enrolled")
       IN  /\ exec' = [exec EXCEPT !.todo = todo, !.what = what,
                          !.at = IF skip THEN "begin" ELSE "register"]
           /\ deployment' = IF agent THEN GetOrCreateManagedHost ELSE deployment
    /\ UNCHANGED <<external, guest, task, incidents>>

AppsDone ==
    /\ In("apps", "begin") /\ exec.todo = {} /\ Proceed
    /\ UNCHANGED <<external, guest, task, incidents>>

BeginUpdates ==
    /\ In("updates", "begin")
    /\ exec' = [exec EXCEPT !.what = "updates", !.at = "register"]
    /\ UNCHANGED <<deployment, external, guest, task, incidents>>

(* A registration that raises or is refused is not cleaned up after.       *)
RegisterTask ==
    /\ exec.at = "register"
    /\ \/ Returns /\ task' = Registered /\ Goto("poll") /\ UNCHANGED lost
       \/ /\ Answers(exec.addr) /\ Incident("failure") /\ UNCHANGED <<task, lost>>
          /\ IF exec.what = "updates" THEN Proceed ELSE Fail
       \/ /\ Raises(guest) /\ Fail
          /\ \/ UNCHANGED <<task, lost>>
             \/ Answers(exec.addr) /\ task' = Registered /\ lost' = TRUE
    /\ UNCHANGED <<assets, retries, guest>>

Running == {t \in task : t.st = "running"}

(* A check that raises is made again, until the attempts are used up.      *)
GivesUpFault == FALSE /\ UNCHANGED incidents

GivesUp == (~Answers(exec.addr) /\ UNCHANGED incidents) \/ Incident("late")

PollTask ==
    /\ exec.at = "poll"
    /\ \/ /\ Answers(exec.addr) /\ Mine # {} /\ Mine \cap Running = {}
          /\ Goto("read") /\ UNCHANGED incidents
       \/ /\ GivesUp
          /\ exec' = [exec EXCEPT !.at = "clean", !.ok = "FAIL"]
          /\ UNCHANGED deployment
    /\ UNCHANGED <<external, guest, task>>

(* A result file that is not there is a failure; three reads that raise    *)
(* raise.                                                                  *)
OutcomeFault == IF \E t \in Mine : t.res = "FAIL" THEN "FAIL" ELSE "OK"

Outcome == IF \E t \in Mine : t.res = "OK" THEN "OK" ELSE "FAIL"

ReadResult ==
    /\ exec.at = "read"
    /\ \/ Returns /\ exec' = [exec EXCEPT !.at = "clean", !.ok = Outcome]
       \/ Raises(guest) /\ exec' = [exec EXCEPT !.at = "clean", !.ok = "raised"]
    /\ UNCHANGED <<deployment, external, guest, task>>

(* The task is stopped and unregistered whatever has happened; that this   *)
(* call may not land is passed over.                                       *)
CleanedFault == task \ (Mine \ Running)

Cleaned == task \ Mine

CleanTask ==
    /\ exec.at = "clean"
    /\ \/ Returns /\ task' = Cleaned /\ UNCHANGED lost
       \/ Raises(guest) /\ UNCHANGED task /\ lost' = TRUE
    /\ \/ exec.ok = "raised" /\ Fail
       \/ exec.what = "updates" /\ exec.ok # "raised" /\ Proceed
       \/ exec.what \in Apps /\ exec.ok = "FAIL" /\ Fail
       \/ /\ exec.what \in Apps /\ exec.ok = "OK"
          /\ Goto(IF exec.what = "agent" THEN "enrol" ELSE "begin")
    /\ UNCHANGED <<assets, retries, guest>>

(* Installed is not enrolled: the agent's work goes on in the background.  *)
AwaitEnrolmentFault ==
    exec.at = "enrol" /\ Goto("begin") /\ UNCHANGED <<external, guest, task, incidents>>

AwaitEnrolment ==
    /\ exec.at = "enrol"
    /\ \/ deployment.host = "enrolled" /\ Goto("begin") /\ UNCHANGED incidents
       \/ /\ deployment.host # "enrolled" /\ Fail
          /\ (guest.power = "off" /\ UNCHANGED incidents) \/ Incident("late")
    /\ UNCHANGED <<external, guest, task>>

-----------------------------------------------------------------------------
(* The end *)

(* The call may cut its own connection, so nothing is made of an answer.   *)
CloseWinRm ==
    /\ In("close", "begin")
    /\ (Returns /\ guest' = Closed) \/ Raises(Closed)
    /\ Proceed
    /\ UNCHANGED <<external, task>>

Complete ==
    /\ In("complete", "begin")
    /\ exec' = Idle /\ deployment' = [deployment EXCEPT !.state = "completed"]
    /\ UNCHANGED <<external, guest, task, incidents>>

(* The worker is killed; a second delivery of the job finds the state past *)
(* installing_os and leaves, so the sweep ends the deployment.             *)
Crash ==
    /\ exec # Idle /\ Incident("crash")
    /\ exec' = Idle /\ lost' = (lost \/ task # {})
    /\ UNCHANGED <<deployment, assets, guest, task, retries>>

(* Its race with an execution that is still at work is in Provisioning.    *)
Sweep ==
    /\ exec = Idle /\ deployment.state \in {"installing_os", "post_install", "configuring"}
    /\ deployment' = Failed(deployment)
    /\ UNCHANGED <<external, exec, guest, task, incidents>>

RetryPostInstall ==
    /\ deployment.state = "failed" /\ deployment.kept /\ exec = Idle
    /\ retries < MaxRetries /\ retries' = retries + 1
    /\ deployment' = [deployment EXCEPT !.state = "installing_os"]
    /\ exec' = Entered
    /\ UNCHANGED <<assets, guest, task, incidents, lost>>

DeleteAsset(what) ==
    /\ what \in assets /\ Incident("asset") /\ assets' = assets \ {what}
    /\ UNCHANGED <<deployment, exec, guest, task, retries, lost>>

-----------------------------------------------------------------------------
(* The guest *)

Interrupted == {IF t.st = "running" THEN [t EXCEPT !.st = "done"] ELSE t : t \in task}

GuestRestarts ==
    /\ guest.power = "on" /\ guest.pending = "restart"
    /\ \/ guest' = [guest EXCEPT !.pending = "none"] /\ UNCHANGED incidents
       \/ /\ Incident("move")
          /\ \E addr \in Addresses \ {guest.addr} :
                guest' = [guest EXCEPT !.pending = "none", !.addr = addr]
    /\ task' = Interrupted
    /\ UNCHANGED <<deployment, external, exec>>

GuestShutsDown ==
    /\ guest.power = "on" /\ guest.pending = "shutdown"
    /\ guest' = [guest EXCEPT !.power = "off", !.pending = "none"]
    /\ task' = Interrupted
    /\ UNCHANGED <<deployment, external, exec, incidents>>

Ended(t, result) == (task \ {t}) \cup {[t EXCEPT !.st = "done", !.res = result]}

(* What counts is the installer's exit code; for an EXE a new entry in the *)
(* registry's Uninstall keys has to appear as well.                        *)
InstallerResult(what) ==
    IF what = "exe" /\ "exe" \in guest.apps THEN "FAIL" ELSE "OK"

InstallerEnds(t) ==
    /\ t \in Running /\ t.what \in Apps /\ guest.power = "on"
    /\ guest' = [guest EXCEPT !.apps = @ \cup {t.what},
                    !.agent = IF t.what = "agent" /\ @ = "none" THEN "working" ELSE @]
    /\ task' = Ended(t, InstallerResult(t.what))
    /\ UNCHANGED <<deployment, external, exec, incidents>>

UpdatesEnd(t) ==
    /\ t \in Running /\ t.what = "updates" /\ guest.power = "on"
    /\ task' = Ended(t, "OK")
    /\ UNCHANGED <<deployment, external, exec, guest, incidents>>

(* A download, an installer or the update server fails. *)
TaskFails(t) ==
    /\ t \in Running /\ guest.power = "on" /\ Incident("failure")
    /\ task' = Ended(t, "FAIL")
    /\ UNCHANGED <<deployment, external, exec, guest>>

(* The agent's own work survives restarts. *)
EnrollAgent ==
    /\ guest.agent = "working" /\ guest.power = "on"
    /\ guest' = [guest EXCEPT !.agent = "enrolled"]
    /\ deployment' = [deployment EXCEPT !.host = "enrolled"]
    /\ UNCHANGED <<external, exec, task, incidents>>

-----------------------------------------------------------------------------
(* Specification *)

Work ==
    \/ FindAddress \/ Probe \/ SwitchAddress
    \/ RunPostInstallScripts \/ EnableRdp \/ JoinDomain \/ DisableBuiltinAdministrator
    \/ InstallFeatures \/ FeaturesVerified \/ Restart \/ Settled
    \/ MountTools \/ InstallTools \/ EjectTools
    \/ ShutDown \/ AwaitPowerOff \/ RemoveMedia \/ PowerOn
    \/ \E what \in Apps : BeginApp(what)
    \/ AppsDone \/ BeginUpdates
    \/ RegisterTask \/ PollTask \/ ReadResult \/ CleanTask \/ AwaitEnrolment
    \/ CloseWinRm \/ Complete

Guest ==
    \/ GuestRestarts \/ GuestShutsDown \/ EnrollAgent
    \/ \E t \in task : InstallerEnds(t) \/ UpdatesEnd(t) \/ TaskFails(t)

Next ==
    \/ Work \/ Guest \/ Sweep \/ Crash \/ RetryPostInstall
    \/ \E what \in Apps : DeleteAsset(what)

Spec == Init /\ [][Next]_vars

(* The worker runs its job, the guest does what it was told, the sweep     *)
(* runs every few minutes; nobody has to retry.                            *)
FairSpec == Spec /\ WF_vars(Work) /\ WF_vars(Guest) /\ WF_vars(Sweep)

-----------------------------------------------------------------------------
(* Properties *)

TypeOK ==
    /\ deployment.state \in {"installing_os", "post_install", "configuring",
                             "failed", "completed"}
    /\ deployment.wanted \in Templates /\ deployment.kept \in BOOLEAN
    /\ deployment.addr \in Addresses \cup {None}
    /\ deployment.host \in {"none", "made", "enrolled"}
    /\ assets \subseteq Apps
    /\ exec.todo \subseteq Apps /\ exec.addr \in Addresses \cup {None}
    /\ exec.ok \in {"none", "OK", "FAIL", "raised"}
    /\ guest.power \in {"on", "off"} /\ guest.pending \in {"none", "restart", "shutdown"}
    /\ guest.addr \in Addresses /\ guest.apps \subseteq Apps
    /\ guest.media \in {"empty", "tools", "removed"}
    /\ task \subseteq [what : Apps \cup {"updates"}, try : 0 .. MaxRetries,
                       st : {"running", "done"}, res : {"none", "OK", "FAIL"}]
    /\ lost \in BOOLEAN

Done ==
    /\ Wanted \cap assets \subseteq guest.apps
    /\ "features" \in Wanted => guest.features
    /\ "join" \in Wanted => guest.joined
    /\ "agent" \in Wanted \cap assets => deployment.host = "enrolled"

(* A completed deployment has what its template asks for and still exists: *)
(* through failures, lost answers, restarts that come late and end a task, *)
(* killed workers and retries no stage counts as done that has not         *)
(* happened.                                                               *)
CompletedIsDone == deployment.state = "completed" => Done

(* The guest is only closed to the worker when nothing is left to do on    *)
(* it, whoever fails or dies afterwards.  (A worker that dies after the    *)
(* close leaves the row in configuring; the sweep keeps the machine as     *)
(* failed, and no retry reaches it.)                                       *)
ClosedIsDone == ~guest.winrm => Done

(* Unless the worker was killed while a task was there, or the call that   *)
(* registers or cleans it up got lost, nothing is left on the guest by a   *)
(* task whose end is no longer waited for.                                 *)
NoTaskLeft == ~lost /\ exec.at \notin {"poll", "read", "clean"} => task = {}

(* The final restart does not hit the agent's work in the background.      *)
AgentDoneBeforeRestart ==
    deployment.state = "configuring" /\ "agent" \in Wanted \cap assets
        => guest.agent # "working"

(* Every post-install comes to an end, whatever the guest does. *)
PostInstallEnds ==
    <>[](exec = Idle /\ deployment.state \in {"failed", "completed"})

(* "It's powered back on regardless rather than left off indefinitely."    *)
NotLeftOff ==
    deployment.state = "failed" /\ guest.pending = "none" => guest.power = "on"
================================================================================
