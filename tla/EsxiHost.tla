------------------------------- MODULE EsxiHost -------------------------------
(***************************************************************************)
(* One ESXi host and what ESXiDriver does to it for several deployments of *)
(* one template: the pipeline's calls in their order, each in a thread of  *)
(* its own that goes on when the job that awaits it is cancelled.  Between *)
(* the vSphere and datastore calls it consists of, the other deployments,  *)
(* an operator and the guest may act.  How jobs are delivered, and what    *)
(* post-install does besides VMware Tools, is in Provisioning and          *)
(* PostInstall.                                                            *)
(***************************************************************************)
EXTENDS Integers

CONSTANTS
    Deployments,
    Machines,       \* managed object ids, never used twice
    Names,          \* host names: a machine's folder on the datastore has its name
    None,           \* no machine
    MaxRetries,     \* bound on retries, all deployments together
    MaxIncidents,   \* bound on what goes wrong
    Incidents       \* what may go wrong

Kinds == {"call",       \* a call raises before it does anything
          "lost",       \* a call raises though it did what it should
          "delete",     \* delete_vm raises before it does anything
          "put",        \* the datastore does not take all of a file
          "late",       \* a wait is given up
          "operator",   \* an operator uses the power menu
          "cancel",     \* a job is cancelled, its thread goes on
          "crash"}      \* a worker dies with its threads

ASSUME HostAssumption ==
    /\ MaxRetries \in Nat /\ MaxIncidents \in Nat
    /\ None \notin Machines /\ Incidents \subseteq Kinds

VARIABLES
    hostname,       \* the name each deployment gives its machine
    row,            \* of each deployment: vm_moref, answer_iso_remote_path, state
    call,           \* where each thread is
    life, power, drive, answering,      \* the machines: see HypervisorDriver
    owner,          \* the deployment a machine was created for
    files,          \* machines whose folder is on the datastore
    closing,        \* machines whose guest was told to shut down
    image,          \* the Windows ISO on the datastore
    answer,         \* deployments whose answer file is on the datastore
    retries, incidents,
    happened        \* which kinds of incident there were

files_ == <<image, answer>>
machines_ == <<life, power, drive, answering, owner, files, closing>>
counters == <<retries, incidents, happened>>
vars == <<hostname, row, call, machines_, files_, counters>>

Contract == INSTANCE HypervisorDriver

Drives == Contract!Drives
NoDrives == Contract!NoDrives
Media == Contract!Media

Threads == Deployments \X {"job", "stray"}
Job(d) == <<d, "job">>
Stray(d) == <<d, "stray">>

-----------------------------------------------------------------------------
(* The pipeline's calls.  Definitions named ...Fault are wrong on purpose. *)

Building == {"upload_answer", "upload_iso", "create_vm", "attach_iso", "attach_floppy",
             "set_boot_order", "power_on"}
Ejecting == {"detach_iso", "detach_floppy", "delete_answer"}
Tooling == {"mount_tools", "eject_tools", "shutdown", "remove_floppy", "remove_cdrom",
            "check_power", "power_up"}
Failing == {"fail_answer", "delete_vm"}
Calls == Building \cup Ejecting \cup Tooling \cup Failing
Rest == {"idle", "setup", "install_tools", "abandoned", "kept", "failed", "done"}
Ops == Calls \cup Rest

(* An exception of these is caught and the pipeline goes on.               *)
BestEffort == Ejecting \cup Failing \cup
              {"mount_tools", "eject_tools", "remove_floppy", "remove_cdrom"}

(* Calls that change something, and those that begin with a machine.       *)
Lasting == Calls \ {"shutdown", "check_power"}
MachineCalls == Lasting \ {"upload_answer", "upload_iso", "create_vm", "delete_answer",
                           "fail_answer"}

(* Which call comes after one that returned.  A failure keeps the machine  *)
(* from post-install on.                                                   *)
Then(d, op) ==
    CASE op = "upload_answer" -> "upload_iso"
      [] op = "upload_iso"    -> "create_vm"
      [] op = "create_vm"     -> "attach_iso"
      [] op = "attach_iso"    -> "attach_floppy"
      [] op = "attach_floppy" -> "set_boot_order"
      [] op = "set_boot_order" -> "power_on"
      [] op = "power_on"      -> "setup"
      [] op = "detach_iso"    -> "detach_floppy"
      [] op = "detach_floppy" -> "delete_answer"
      [] op = "delete_answer" -> "mount_tools"
      [] op = "mount_tools"   -> "install_tools"
      [] op = "remove_floppy" -> IF row[d].unit THEN "remove_cdrom" ELSE "check_power"
      [] op = "remove_cdrom"  -> "check_power"
      [] op = "fail_answer"   -> IF row[d].vm = None THEN "failed"
                                 ELSE IF row[d].keep THEN "kept" ELSE "delete_vm"
      [] op = "delete_vm"     -> "failed"
      [] OTHER                -> "done"

RaisedFault(d, op) == IF op \in BestEffort THEN Then(d, op) ELSE "failed"

(* And after one that raised.                                              *)
Raised(d, op) == IF op \in BestEffort THEN Then(d, op) ELSE "fail_answer"

(* The row after a call.  keep: the state is one in which a failure keeps  *)
(* the machine.  unit: tools_cdrom_unit, a local variable.                 *)
RowAfter(d, op, ok) ==
    [vm     |-> IF op = "delete_vm" THEN None ELSE row[d].vm,
     answer |-> IF op = "upload_answer" THEN ok
                ELSE row[d].answer /\ op \notin {"delete_answer", "fail_answer"},
     keep   |-> row[d].keep \/ op = "delete_answer",
     unit   |-> IF op = "mount_tools" THEN ok ELSE row[d].unit]

Enter(op, m) == [op |-> op, step |-> "begin", vm |-> m]
Idle == Enter("idle", None)

At(t, op, step) == call[t].op = op /\ call[t].step = step
Goto(t, step) == call' = [call EXCEPT ![t] = [op |-> call[t].op, step |-> step, vm |-> call[t].vm]]

(* A job goes on to another stage.                                         *)
Turn(d, op) == call' = [call EXCEPT ![Job(d)] = Enter(op, row[d].vm)]

Quiet == UNCHANGED <<incidents, happened>>

Incident(kind) ==
    /\ kind \in Incidents /\ incidents < MaxIncidents
    /\ incidents' = incidents + 1 /\ happened' = happened \cup {kind}

(* A call is over: the job that awaits it goes on, a thread without a job  *)
(* just ends.                                                              *)
Finish(t, ok) ==
    LET d == t[1]  op == call[t].op  after == RowAfter(d, op, ok)
    IN  IF t = Job(d)
        THEN /\ call' = [call EXCEPT ![t] =
                   Enter(IF ok THEN Then(d, op) ELSE Raised(d, op), after.vm)]
             /\ row' = [row EXCEPT ![d] = after]
        ELSE call' = [call EXCEPT ![t] = Idle] /\ UNCHANGED row

(* It has had its effect; the answer may be lost, or Disconnect raise.     *)
Returns(t) ==
    /\ \/ Finish(t, TRUE) /\ Quiet
       \/ Finish(t, FALSE) /\ Incident("lost")
    /\ UNCHANGED <<hostname, retries>>

(* It has had none.                                                        *)
Raises(t) == Finish(t, FALSE) /\ UNCHANGED <<hostname, retries, machines_, files_>>

Init ==
    /\ hostname \in [Deployments -> Names]
    /\ row = [d \in Deployments |-> [vm |-> None, answer |-> FALSE, keep |-> FALSE, unit |-> FALSE]]
    /\ call = [t \in Threads |-> IF t = Job(t[1]) THEN Enter("upload_answer", None) ELSE Idle]
    /\ Contract!Init
    /\ owner = [m \in Machines |-> None] /\ files = {} /\ closing = {}
    /\ image = "none" /\ answer = {}
    /\ retries = 0 /\ incidents = 0 /\ happened = {}

-----------------------------------------------------------------------------
(* What the host accepts. *)

There(m) == m \in Machines /\ life[m] = "there"

SameName(m, d) == There(m) /\ hostname[owner[m]] = hostname[d]

(* A drive is added to a machine that is off, its medium changed at any    *)
(* time; devices are removed, and power turned on, when it is off.         *)
Accepts(op, m) ==
    /\ There(m)
    /\ op = "attach_iso" => drive[m]["cdrom"] # "absent" \/ power[m] = "off"
    /\ op = "attach_floppy" => drive[m]["floppy"] # "absent" \/ power[m] = "off"
    /\ op = "mount_tools" => drive[m]["cdrom"] # "absent"
    /\ op \in {"remove_cdrom", "remove_floppy", "power_on", "power_up"} => power[m] = "off"
    /\ op \in {"power_on", "power_up"} => m \in files

(* A backing file that is not there may be refused or not.                 *)
FileMissing(t) ==
    \/ call[t].op = "attach_iso" /\ image = "none"
    \/ call[t].op = "attach_floppy" /\ t[1] \notin answer

-----------------------------------------------------------------------------
(* ESXiDriver: one thread's steps *)

(* Detaching and removing look for the drive first.                        *)
DriveGone(op, m) ==
    \/ op \in {"detach_iso", "eject_tools", "remove_cdrom"} /\ drive[m]["cdrom"] = "absent"
    \/ op \in {"detach_floppy", "remove_floppy"} /\ drive[m]["floppy"] = "absent"

NothingToDo(t) ==
    LET op == call[t].op  m == call[t].vm
    IN  /\ op \in MachineCalls /\ There(m) /\ DriveGone(op, m)
        /\ Finish(t, TRUE)
        /\ UNCHANGED <<hostname, machines_, files_, counters>>

(* The host is not reached, the guest says no.                             *)
CallFails(t) ==
    /\ call[t].op \in Calls /\ call[t].step # "folder" /\ call[t].step # "writing"
    /\ Incident(IF call[t].op = "delete_vm" THEN "delete" ELSE "call")
    /\ Raises(t)

(* The machine is gone, in another state, or has a name that is taken.     *)
Refuses(t) ==
    LET op == call[t].op  m == call[t].vm  step == call[t].step
    IN  \/ op \in MachineCalls /\ step = "begin" /\ ~There(m)
        \/ op \in MachineCalls \ {"delete_vm"} /\ There(m) /\ ~DriveGone(op, m)
           /\ (~Accepts(op, m) \/ FileMissing(t))
        \/ step = "off" /\ (~There(m) \/ power[m] = "off")
        \/ step = "destroy" /\ (~There(m) \/ power[m] = "on")
        \/ op = "create_vm" /\ \E n \in Machines : SameName(n, t[1])

Refused(t) ==
    /\ Refuses(t)
    /\ Raises(t) /\ Quiet

CreatedRefFault(m) == "success"

(* The new machine is the task's result, not what waiting for it returns.  *)
CreatedRef(m) == m

CreateVm(t) ==
    LET d == t[1]
    IN  /\ At(t, "create_vm", "begin")
        /\ ~\E n \in Machines : SameName(n, d)
        /\ \E m \in Machines :
              /\ life[m] = "fresh"
              /\ life' = [life EXCEPT ![m] = "there"]
              /\ owner' = [owner EXCEPT ![m] = d] /\ files' = files \cup {m}
              /\ \/ /\ t = Job(d) /\ Quiet
                    /\ row' = [row EXCEPT ![d] = [row[d] EXCEPT !.vm = CreatedRef(m)]]
                    /\ call' = [call EXCEPT ![t] = Enter(Then(d, "create_vm"), CreatedRef(m))]
                 \/ Finish(t, FALSE) /\ IF t = Job(d) THEN Incident("lost") ELSE Quiet
        /\ UNCHANGED <<hostname, power, drive, answering, closing, files_, retries>>

(* ReconfigVM_Task: the drive gets another medium, or comes, or goes.      *)
Reconfigure(t, op, k, medium) ==
    LET m == call[t].vm
    IN  /\ At(t, op, "begin") /\ Accepts(op, m) /\ ~DriveGone(op, m)
        /\ drive' = [drive EXCEPT ![m] = [drive[m] EXCEPT ![k] = medium]]
        /\ Returns(t)
        /\ UNCHANGED <<life, power, answering, owner, files, closing, files_>>

AttachIso(t) == Reconfigure(t, "attach_iso", "cdrom", "setup")
AttachFloppy(t) == Reconfigure(t, "attach_floppy", "floppy", "setup")

DetachIsoFault(t) ==
    LET m == row[t[1]].vm
    IN  /\ \E op \in {"detach_iso", "eject_tools"} : At(t, op, "begin")
        /\ There(m) /\ drive[m]["cdrom"] # "absent"
        /\ drive' = [drive EXCEPT ![m] = [drive[m] EXCEPT !["cdrom"] = "empty"]]
        /\ Returns(t)
        /\ UNCHANGED <<life, power, answering, owner, files, closing, files_>>

DetachIso(t) == \E op \in {"detach_iso", "eject_tools"} : Reconfigure(t, op, "cdrom", "empty")
DetachFloppy(t) == Reconfigure(t, "detach_floppy", "floppy", "empty")
RemoveFloppy(t) == Reconfigure(t, "remove_floppy", "floppy", "absent")
RemoveCdrom(t) == Reconfigure(t, "remove_cdrom", "cdrom", "absent")
MountToolsInstaller(t) == Reconfigure(t, "mount_tools", "cdrom", "tools")

SetBootOrder(t) ==
    /\ At(t, "set_boot_order", "begin") /\ Accepts("set_boot_order", call[t].vm)
    /\ Returns(t) /\ UNCHANGED <<machines_, files_>>

PowerOn(t) ==
    LET m == call[t].vm
    IN  /\ \E op \in {"power_on", "power_up"} : At(t, op, "begin") /\ Accepts(op, m)
        /\ power' = [power EXCEPT ![m] = "on"]
        /\ Returns(t)
        /\ UNCHANGED <<life, drive, answering, owner, files, closing, files_>>

(* delete_vm: power off what was seen running, destroy, and delete the     *)
(* folder of that name in case it is still there.                          *)
FindToDelete(t) ==
    /\ At(t, "delete_vm", "begin") /\ There(call[t].vm)
    /\ Goto(t, IF power[call[t].vm] = "on" THEN "off" ELSE "destroy")
    /\ UNCHANGED <<hostname, row, machines_, files_, counters>>

PowerOffToDelete(t) ==
    LET m == call[t].vm
    IN  /\ At(t, "delete_vm", "off") /\ There(m) /\ power[m] = "on"
        /\ power' = [power EXCEPT ![m] = "off"] /\ closing' = closing \ {m}
        /\ Goto(t, "destroy")
        /\ UNCHANGED <<hostname, row, life, drive, answering, owner, files, files_, counters>>

Destroy(t) ==
    LET m == call[t].vm
    IN  /\ At(t, "delete_vm", "destroy") /\ There(m) /\ power[m] = "off"
        /\ life' = [life EXCEPT ![m] = "gone"]
        /\ drive' = [drive EXCEPT ![m] = NoDrives]
        /\ owner' = [owner EXCEPT ![m] = None]
        /\ answering' = answering \ {m} /\ files' = files \ {m} /\ closing' = closing \ {m}
        /\ Goto(t, "folder")
        /\ UNCHANGED <<hostname, row, power, files_, counters>>

FolderOfFault(d) == {m \in Machines : There(m)}

FolderOf(d) == {m \in Machines : SameName(m, d)}

(* The files of a machine that runs are locked.                            *)
DeleteFolder(t) ==
    /\ At(t, "delete_vm", "folder")
    /\ files' = files \ {m \in FolderOf(t[1]) : power[m] = "off"}
    /\ Finish(t, TRUE)
    /\ UNCHANGED <<hostname, life, power, drive, answering, owner, closing, files_, counters>>

-----------------------------------------------------------------------------
(* Files on the datastore *)

(* The answer file is written whatever is there.                           *)
UploadAnswer(t) ==
    /\ At(t, "upload_answer", "begin")
    /\ answer' = answer \cup {t[1]}
    /\ Returns(t)
    /\ UNCHANGED <<machines_, image>>

(* httpx.put returns a response that says the datastore did not take it;   *)
(* nothing looks at it.                                                    *)
AnswerNotTaken(t) ==
    /\ At(t, "upload_answer", "begin") /\ Incident("put") /\ Finish(t, TRUE)
    /\ UNCHANGED <<hostname, machines_, files_, retries>>

(* skip_if_exists: whether there is a file of that name.                   *)
ProbeImage(t) ==
    /\ At(t, "upload_iso", "begin")
    /\ \/ image # "none" /\ Finish(t, TRUE)
       \/ image = "none" /\ Goto(t, "put") /\ UNCHANGED row
    /\ UNCHANGED <<hostname, machines_, files_, counters>>

Writing == {t \in Threads : At(t, "upload_iso", "writing")}

StartPut(t) ==
    /\ At(t, "upload_iso", "put")
    /\ \/ image' = "partial" /\ Goto(t, "writing") /\ UNCHANGED row
       \/ Writing # {} /\ Finish(t, TRUE) /\ UNCHANGED image      \* locked: refused
    /\ UNCHANGED <<hostname, machines_, answer, counters>>

EndPut(t) ==
    /\ At(t, "upload_iso", "writing")
    /\ image' = IF Writing = {t} THEN "whole" ELSE image
    /\ Returns(t)
    /\ UNCHANGED <<machines_, answer>>

(* It breaks off, with an error status or with an exception.               *)
BreakPut(t) ==
    /\ At(t, "upload_iso", "writing") /\ Incident("put")
    /\ Finish(t, TRUE) \/ Finish(t, FALSE)
    /\ UNCHANGED <<hostname, machines_, files_, retries>>

(* _cleanup_answer_floppy.  The file of a floppy in a running machine is   *)
(* locked; either way the row forgets it.                                  *)
Locked(d) == \E m \in Machines :
    There(m) /\ owner[m] = d /\ power[m] = "on" /\ drive[m]["floppy"] = "setup"

DeleteAnswer(t) ==
    /\ \E op \in {"delete_answer", "fail_answer"} : At(t, op, "begin")
    /\ answer' = IF Locked(t[1]) \/ (t = Job(t[1]) /\ ~row[t[1]].answer) THEN answer
                 ELSE answer \ {t[1]}
    /\ Finish(t, TRUE)
    /\ UNCHANGED <<hostname, machines_, image, counters>>

-----------------------------------------------------------------------------
(* The pipeline between the calls *)

Stands(d, op) == call[Job(d)].op = op

Waits == UNCHANGED <<hostname, row, machines_, files_, retries>>

SetupEndsFault(d) ==
    /\ Stands(d, "setup") /\ Waits
    /\ Turn(d, "detach_iso") /\ Quiet

(* The wait for Setup ends when the guest has answered, by its callback or *)
(* over WinRM, which listens from specialize on: Setup may not be over     *)
(* yet.  Or it has taken too long.                                         *)
SetupEnds(d) ==
    /\ Stands(d, "setup") /\ Waits
    /\ \/ row[d].vm \in answering /\ Turn(d, "detach_iso") /\ Quiet
       \/ Turn(d, "fail_answer") /\ Incident("late")

(* VMware Tools were installed and the guest is told to shut down, or not. *)
InstallTools(d) ==
    /\ Stands(d, "install_tools")
    /\ \/ Turn(d, "shutdown") /\ closing' = closing \cup {row[d].vm}
       \/ /\ Turn(d, IF row[d].unit THEN "eject_tools" ELSE "done")
          /\ UNCHANGED closing
    /\ UNCHANGED <<hostname, row, life, power, drive, answering, owner, files, files_, counters>>

IsOff(m) == m \in Machines /\ power[m] = "off"

AwaitPowerOff(d) ==
    /\ Stands(d, "shutdown") /\ Waits
    /\ \/ IsOff(row[d].vm) /\ Turn(d, "remove_floppy") /\ Quiet
       \/ ~IsOff(row[d].vm) /\ Turn(d, "check_power") /\ Incident("late")

CheckPower(d) ==
    /\ Stands(d, "check_power") /\ Waits /\ Quiet
    /\ Turn(d, IF IsOff(row[d].vm) THEN "power_up" ELSE "done")

(* Whether the job awaits a call that has something to do.                 *)
Awaits(d) ==
    LET op == call[Job(d)].op
    IN  op \in Lasting /\ (op \in {"delete_answer", "fail_answer"} => row[d].answer)

(* The job is cancelled and its thread goes on, or its worker dies.        *)
Abandon(d) ==
    LET c == call[Job(d)]
    IN  /\ c.op \notin {"idle", "abandoned", "kept", "failed", "done"}
        /\ call[Stray(d)] = Idle
        /\ \E kind \in {"cancel", "crash"} :
              /\ Incident(kind)
              /\ call' = [call EXCEPT ![Job(d)] = Enter("abandoned", row[d].vm),
                     ![Stray(d)] = IF kind = "cancel" /\ Awaits(d) THEN c ELSE Idle]
        /\ Waits

(* The sweep finds it, and cleanup_deployment fails it.                    *)
CleanUp(d) == Stands(d, "abandoned") /\ Turn(d, "fail_answer") /\ Quiet /\ Waits

Retry(d) ==
    /\ retries < MaxRetries /\ retries' = retries + 1
    /\ \/ /\ Stands(d, "failed") /\ Turn(d, "upload_answer")
          /\ row' = [row EXCEPT ![d] = [vm |-> None, answer |-> FALSE, keep |-> FALSE, unit |-> FALSE]]
       \/ Stands(d, "kept") /\ Turn(d, "mount_tools") /\ UNCHANGED row
    /\ UNCHANGED <<hostname, machines_, files_>> /\ Quiet

-----------------------------------------------------------------------------
(* Others *)

(* The power menu, of a deployment and of its managed host.  A reset       *)
(* leaves the machine running.                                             *)
OperatorPowers(d) ==
    /\ There(row[d].vm) /\ Incident("operator")
    /\ \/ /\ row[d].vm \in files /\ power[row[d].vm] = "off"
          /\ power' = [power EXCEPT ![row[d].vm] = "on"]
       \/ power[row[d].vm] = "on" /\ power' = [power EXCEPT ![row[d].vm] = "off"]
    /\ closing' = closing \ {row[d].vm}
    /\ UNCHANGED <<hostname, row, call, life, drive, answering, owner, files, files_, retries>>

(* Windows Setup, from the two media, comes to the specialize pass, which  *)
(* opens WinRM.                                                            *)
GuestSpecializes(m) ==
    /\ There(m) /\ power[m] = "on" /\ m \notin answering /\ m \in files
    /\ \A k \in Drives : drive[m][k] = "setup"
    /\ image = "whole" /\ owner[m] \in answer
    /\ answering' = answering \cup {m}
    /\ UNCHANGED <<hostname, row, call, life, power, drive, owner, files, closing, files_, counters>>

GuestShutsDown(m) ==
    /\ There(m) /\ m \in closing /\ power[m] = "on"
    /\ power' = [power EXCEPT ![m] = "off"] /\ closing' = closing \ {m}
    /\ UNCHANGED <<hostname, row, call, life, drive, answering, owner, files, files_, counters>>

Driver(t) ==
    \/ NothingToDo(t) \/ CallFails(t) \/ Refused(t) \/ CreateVm(t)
    \/ AttachIso(t) \/ AttachFloppy(t) \/ DetachIso(t) \/ DetachFloppy(t)
    \/ RemoveFloppy(t) \/ RemoveCdrom(t) \/ MountToolsInstaller(t) \/ SetBootOrder(t)
    \/ PowerOn(t) \/ FindToDelete(t) \/ PowerOffToDelete(t) \/ Destroy(t) \/ DeleteFolder(t)
    \/ UploadAnswer(t) \/ AnswerNotTaken(t) \/ ProbeImage(t) \/ StartPut(t) \/ EndPut(t)
    \/ BreakPut(t) \/ DeleteAnswer(t)

Pipeline(d) ==
    \/ SetupEnds(d) \/ InstallTools(d) \/ AwaitPowerOff(d) \/ CheckPower(d)
    \/ Abandon(d) \/ CleanUp(d) \/ Retry(d) \/ OperatorPowers(d)

Guest(m) == GuestSpecializes(m) \/ GuestShutsDown(m)

Next ==
    \/ \E t \in Threads : Driver(t)
    \/ \E d \in Deployments : Pipeline(d)
    \/ \E m \in Machines : Guest(m)

Spec == Init /\ [][Next]_vars

-----------------------------------------------------------------------------
(* Properties *)

TypeOK ==
    /\ hostname \in [Deployments -> Names]
    /\ row \in [Deployments -> [vm : Machines \cup {None}, answer : BOOLEAN, keep : BOOLEAN,
                                unit : BOOLEAN]]
    /\ call \in [Threads -> [op : Ops, vm : Machines \cup {None},
            step : {"begin", "off", "destroy", "folder", "put", "writing"}]]
    /\ life \in [Machines -> {"fresh", "there", "gone"}]
    /\ power \in [Machines -> {"on", "off"}]
    /\ drive \in [Machines -> [Drives -> Media]]
    /\ answering \subseteq Machines
    /\ owner \in [Machines -> Deployments \cup {None}]
    /\ files \subseteq Machines /\ closing \subseteq Machines
    /\ image \in {"none", "partial", "whole"} /\ answer \subseteq Deployments
    /\ retries \in 0 .. MaxRetries /\ incidents \in 0 .. MaxIncidents
    /\ happened \subseteq Incidents

Without(kinds) == happened \cap kinds = {}

Distinct == \A d, e \in Deployments : hostname[d] = hostname[e] => d = e

(* Deleting the folder of a machine that was destroyed (esxi.py, after      *)
(* Destroy_Task) never takes the files of a machine that was created since *)
(* under the same name, by a retry for example; unless another deployment  *)
(* has that name or a deletion outlived its job.                           *)
FilesKept ==
    Without({"cancel"}) =>
        \A m \in Machines : There(m) /\ m \notin files =>
            \E d \in Deployments : d # owner[m] /\ hostname[d] = hostname[owner[m]]

(* While a job waits for Windows Setup its machine exists and has the ISO   *)
(* and the answer file in its drives, whatever calls of earlier attempts   *)
(* are still running; and the answer file is on the datastore unless it was*)
(* not taken or such a call deletes the file, named the same each time.    *)
SetupKeepsMedia ==
    \A d \in Deployments :
        LET m == row[d].vm
        IN  Stands(d, "setup") =>
               /\ There(m) /\ \A k \in Drives : drive[m][k] = "setup"
               /\ Without({"cancel", "put"}) => d \in answer

(* What happens to a machine is what HypervisorDriver's contract says      *)
(* (base.py): media go in before the guest comes to specialize, come out   *)
(* only after (Setup may still be under way then), and drives are removed  *)
(* only from a machine that is off, whichever calls, late ones included,   *)
(* and whichever hands on the power switch come between.                   *)
ContractSpec == Contract!Spec

(* The host refuses none of the calls a deployment depends on, over any    *)
(* number of attempts: a name is free again when the next attempt creates  *)
(* its machine, machines are off when their drives are attached and when   *)
(* they are turned on, files are there.  Calls that fail before they do    *)
(* anything and waits that are given up do not change that.                *)
CallsAccepted ==
    Distinct /\ Without(Kinds \ {"call", "late"}) =>
        \A d \in Deployments :
            call[Job(d)].op \notin BestEffort \ {"delete_vm"} => ~Refuses(Job(d))

(* A path upload_iso_to_datastore returned names the ISO ("if a previous   *)
(* deployment already put the exact same file at this path").  It does not *)
(* after an upload that broke off.                                         *)
PathNamesImage ==
    \A d \in Deployments :
        call[Job(d)].op \in Building \ {"upload_answer", "upload_iso"} => image = "whole"

===============================================================================
