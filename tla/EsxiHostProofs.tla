---------------------------- MODULE EsxiHostProofs ----------------------------
(***************************************************************************)
(* Theorems about EsxiHost, for any deployments, machines and names, any   *)
(* number of retries and any number and kind of incidents.                 *)
(***************************************************************************)
EXTENDS EsxiHost, TLAPS

-----------------------------------------------------------------------------
(* Where a thread is, and which machine it has. *)

InDelete == {"off", "destroy", "folder"}
InPut == {"put", "writing"}

StepsFit ==
    \A t \in Threads :
        /\ call[t].step \in InDelete => call[t].op = "delete_vm"
        /\ call[t].step \in InPut => call[t].op = "upload_iso"

NoMachineYet == {"upload_answer", "upload_iso", "create_vm", "failed"}
WithMachine == MachineCalls \cup Ejecting \cup Tooling \cup
               {"setup", "install_tools", "kept", "done"}

JobsFit ==
    \A d \in Deployments :
        LET c == call[Job(d)]
        IN  /\ c.vm = row[d].vm /\ c.op # "idle"
            /\ c.op \in NoMachineYet => c.vm = None
            /\ c.op \in WithMachine => c.vm # None
            /\ row[d].keep => c.vm # None

(* A failure keeps the machine from the moment its setup is cleaned up.    *)
KeepFits ==
    \A d \in Deployments :
        LET op == call[Job(d)].op
        IN  /\ op \in Building \cup Ejecting \cup {"setup", "delete_vm"} => ~row[d].keep
            /\ op \in Tooling \cup {"install_tools", "kept", "done"} => row[d].keep

StraysFit ==
    \A d \in Deployments :
        LET s == call[Stray(d)]
        IN  /\ s.op \in Lasting \cup {"idle"}
            /\ s.op = "idle" => s = Idle
            /\ s.op \in NoMachineYet => s.vm = None
            /\ s.op \in WithMachine => s.vm # None
            /\ ~Without({"cancel"}) \/ s = Idle

Places == StepsFit /\ JobsFit /\ KeepFits /\ StraysFit

-----------------------------------------------------------------------------
(* Machines, and whose they are. *)

Has(t, m) == m \in Machines /\ call[t].vm = m

MachinesFit ==
    \A m \in Machines :
        /\ life[m] = "there" => owner[m] \in Deployments
        /\ life[m] = "fresh" => /\ power[m] = "off" /\ drive[m] = NoDrives
                                /\ m \notin answering /\ m \notin closing

(* A thread has its own deployment's machine, if it is still there.        *)
Owned ==
    \A t \in Threads : \A m \in Machines :
        Has(t, m) => life[m] # "fresh" /\ (life[m] = "there" => owner[m] = t[1])

(* A thread that outlives its job has a machine of its own soon: only a    *)
(* failure that is about to delete the machine shares it, and one that     *)
(* keeps it shares it with calls that eject.                               *)
Apart ==
    \A d \in Deployments : \A m \in Machines :
        Has(Job(d), m) /\ Has(Stray(d), m) =>
            /\ row[d].keep \/ call[Job(d)].op \in {"abandoned", "fail_answer", "delete_vm"}
            /\ row[d].keep => call[Stray(d)].op \notin Building

Ownership == MachinesFit /\ Owned /\ Apart

-----------------------------------------------------------------------------
(* What is in the drives when. *)

Ready(op, m) ==
    /\ op = "attach_iso" => drive[m] = NoDrives /\ m \notin answering
    /\ op = "attach_floppy" => drive[m]["floppy"] = "absent" /\ m \notin answering
    /\ op \in Ejecting \cup Tooling => m \in answering

DrivesReady ==
    \A t \in Threads : \A m \in Machines :
        Has(t, m) /\ There(m) => Ready(call[t].op, m)

KeptInstalled ==
    \A d \in Deployments : \A m \in Machines :
        Has(Job(d), m) /\ row[d].keep /\ There(m) => m \in answering

AfterCreate == {"attach_iso", "attach_floppy", "set_boot_order", "power_on", "setup"}

Mounted ==
    \A d \in Deployments : \A m \in Machines :
        LET op == call[Job(d)].op
        IN  Has(Job(d), m) /\ op \in AfterCreate =>
                /\ There(m)
                /\ op # "attach_iso" => drive[m]["cdrom"] = "setup"
                /\ op \notin {"attach_iso", "attach_floppy"} => drive[m]["floppy"] = "setup"

AnswerThere ==
    Without({"cancel", "put"}) =>
        \A d \in Deployments :
            call[Job(d)].op \in AfterCreate \cup {"upload_iso", "create_vm"} => d \in answer

ImageThere ==
    /\ \A t \in Threads : call[t].step = "writing" => image # "none"
    /\ \A d \in Deployments :
          call[Job(d)].op \in AfterCreate \cup {"create_vm"} => image # "none"

MediaInv == DrivesReady /\ KeptInstalled /\ Mounted /\ AnswerThere /\ ImageThere

-----------------------------------------------------------------------------
(* Names and folders. *)

NamesUnique ==
    \A m, n \in Machines :
        There(m) /\ There(n) /\ hostname[owner[m]] = hostname[owner[n]] => m = n

(* While the folder of a machine that was destroyed is deleted its         *)
(* deployment has no other machine.                                        *)
FolderAlone ==
    Without({"cancel"}) =>
        \A d \in Deployments : call[Job(d)].step = "folder" =>
            \A m \in Machines : There(m) => owner[m] # d

Folders == NamesUnique /\ FolderAlone /\ FilesKept

-----------------------------------------------------------------------------
(* When nothing but calls that fail first and waits that are given up      *)
(* comes between, a job's machine is the only one of its deployment, and   *)
(* its power is what the pipeline made it.                                 *)
Calm == Distinct /\ Without(Kinds \ {"call", "late"})

JobAlone ==
    \A d \in Deployments : \A m \in Machines :
        /\ Has(Job(d), m) => (There(m) <=> call[Job(d)].step # "folder")
        /\ There(m) /\ owner[m] = d => Has(Job(d), m)

BeforeBoot == {"attach_iso", "attach_floppy", "set_boot_order", "power_on"}

PowerKnown ==
    \A d \in Deployments : \A m \in Machines :
        LET c == call[Job(d)]
        IN  Has(Job(d), m) /\ There(m) =>
                /\ c.op \in BeforeBoot \cup {"power_up"} \/ c.step = "destroy" => power[m] = "off"
                /\ c.step = "off" => power[m] = "on"
                /\ ~row[d].keep => m \notin closing

CalmInv == Calm => JobAlone /\ PowerKnown

Inv == TypeOK /\ Places /\ Ownership /\ MediaInv /\ Folders /\ CalmInv

-----------------------------------------------------------------------------
(* Threads.  Everything below knows of Job and Stray what this lemma says.  *)

LEMMA JobsAndStrays ==
    /\ \A d \in Deployments :
          /\ Job(d) \in Threads /\ Stray(d) \in Threads
          /\ Job(d)[1] = d /\ Stray(d)[1] = d /\ Job(d) # Stray(d)
    /\ \A t \in Threads : t[1] \in Deployments /\ (t = Job(t[1]) \/ t = Stray(t[1]))
BY DEF Threads, Job, Stray

Steps == {"begin", "off", "destroy", "folder", "put", "writing"}
CallRecords == [op : Ops, vm : Machines \cup {None}, step : Steps]
RowRecords == [vm : Machines \cup {None}, answer : BOOLEAN, keep : BOOLEAN, unit : BOOLEAN]

(* What TypeOK says of the threads and the rows. *)
LEMMA CallTypes ==
    ASSUME TypeOK
    PROVE  call \in [Threads -> CallRecords] /\ row \in [Deployments -> RowRecords]
BY DEF TypeOK, CallRecords, RowRecords, Steps

MachineTypes ==
    /\ life \in [Machines -> {"fresh", "there", "gone"}]
    /\ power \in [Machines -> {"on", "off"}]
    /\ drive \in [Machines -> [Drives -> Media]]
    /\ answering \subseteq Machines
    /\ owner \in [Machines -> Deployments \cup {None}]
    /\ files \subseteq Machines /\ closing \subseteq Machines

FileTypes == image \in {"none", "partial", "whole"} /\ answer \subseteq Deployments

CounterTypes ==
    /\ retries \in 0 .. MaxRetries /\ incidents \in 0 .. MaxIncidents
    /\ happened \subseteq Incidents

LEMMA TypeParts ==
    TypeOK <=> /\ hostname \in [Deployments -> Names]
               /\ call \in [Threads -> CallRecords] /\ row \in [Deployments -> RowRecords]
               /\ MachineTypes /\ FileTypes /\ CounterTypes
BY DEF TypeOK, CallRecords, RowRecords, Steps, MachineTypes, FileTypes, CounterTypes

LEMMA EnterFacts ==
    ASSUME NEW op \in Ops, NEW m \in Machines \cup {None}
    PROVE  /\ Enter(op, m) \in CallRecords
           /\ Enter(op, m).op = op /\ Enter(op, m).vm = m /\ Enter(op, m).step = "begin"
BY DEF Enter, CallRecords, Steps

LEMMA IdleFacts ==
    Idle \in CallRecords /\ Idle.op = "idle" /\ Idle.vm = None /\ Idle.step = "begin"
BY DEF Idle, Enter, CallRecords, Steps, Ops, Rest

(* The call after one that returned or raised. *)
LEMMA NextCallType ==
    ASSUME NEW d \in Deployments, NEW op
    PROVE  Then(d, op) \in Ops /\ Raised(d, op) \in Ops
BY DEF Then, Raised, Ops, Calls, Building, Ejecting, Tooling, Failing, Rest

LEMMA RowAfterType ==
    ASSUME TypeOK, NEW d \in Deployments, NEW op, NEW ok \in BOOLEAN
    PROVE  RowAfter(d, op, ok) \in RowRecords
<1>1. row[d] \in RowRecords
  BY CallTypes
<1>. QED  BY <1>1 DEF RowAfter, RowRecords

-----------------------------------------------------------------------------
(* What a step does to the threads and the rows. *)

JobMoves(d, ok) ==
    LET op == call[Job(d)].op  after == RowAfter(d, op, ok)
    IN  /\ call' = [call EXCEPT ![Job(d)] =
               Enter(IF ok THEN Then(d, op) ELSE Raised(d, op), after.vm)]
        /\ row' = [row EXCEPT ![d] = after]

StrayEnds(d) == call' = [call EXCEPT ![Stray(d)] = Idle] /\ row' = row

Gets(d, m) ==
    /\ row' = [row EXCEPT ![d] = [row[d] EXCEPT !.vm = m]]
    /\ call' = [call EXCEPT ![Job(d)] = Enter("attach_iso", m)]

Leaves(d, s) ==
    /\ call' = [call EXCEPT ![Job(d)] = Enter("abandoned", row[d].vm), ![Stray(d)] = s]
    /\ row' = row

Restarts(d) ==
    /\ call' = [call EXCEPT ![Job(d)] = Enter("upload_answer", row[d].vm)]
    /\ row' = [row EXCEPT ![d] = [vm |-> None, answer |-> FALSE, keep |-> FALSE, unit |-> FALSE]]

Ends(t, ok) ==
    \/ t = Job(t[1]) /\ JobMoves(t[1], ok)
    \/ t = Stray(t[1]) /\ StrayEnds(t[1])

LEMMA FinishEnds ==
    ASSUME NEW t \in Threads, NEW ok \in BOOLEAN, Finish(t, ok)
    PROVE  Ends(t, ok)
BY JobsAndStrays DEF Finish, Ends, JobMoves, StrayEnds

LEMMA EndsTyped ==
    ASSUME TypeOK, NEW t \in Threads, NEW ok \in BOOLEAN, Ends(t, ok)
    PROVE  call' \in [Threads -> CallRecords] /\ row' \in [Deployments -> RowRecords]
<1>. DEFINE d == t[1]
<1>1. d \in Deployments
  BY JobsAndStrays
<1>2. CASE JobMoves(d, ok)
  <2>. DEFINE after == RowAfter(d, call[Job(d)].op, ok)
              op == IF ok THEN Then(d, call[Job(d)].op) ELSE Raised(d, call[Job(d)].op)
  <2>1. after \in RowRecords /\ after.vm \in Machines \cup {None}
    BY <1>1, RowAfterType DEF RowRecords
  <2>2. op \in Ops
    BY <1>1, NextCallType
  <2>3. Enter(op, after.vm) \in CallRecords
    BY <2>1, <2>2, EnterFacts
  <2>4. call' = [call EXCEPT ![Job(d)] = Enter(op, after.vm)] /\ row' = [row EXCEPT ![d] = after]
    BY <1>2 DEF JobMoves
  <2>. HIDE DEF after, op, d
  <2>. QED  BY <1>1, <2>1, <2>3, <2>4, CallTypes
<1>3. CASE StrayEnds(d)
  BY <1>3, CallTypes, IdleFacts DEF StrayEnds
<1>. QED  BY <1>2, <1>3 DEF Ends

Unawaited == {"create_vm", "shutdown", "check_power"}

(* What a call has done when it returns, and why one may raise. *)
Did(t) ==
    LET op == call[t].op  m == call[t].vm
    IN  /\ op = "attach_iso" =>
              drive' = [drive EXCEPT ![m] = [drive[m] EXCEPT !["cdrom"] = "setup"]]
        /\ op = "attach_floppy" =>
              drive' = [drive EXCEPT ![m] = [drive[m] EXCEPT !["floppy"] = "setup"]]
        /\ op = "upload_answer" => t[1] \in answer' \/ ~Without({"put"})'
        /\ op = "upload_iso" => image' # "none" \/ Writing # {}
        /\ op = "delete_vm" => call[t].step = "folder"

DidNot(t) == call[t].op = "delete_vm" => ~Without({"delete"})' \/ Refuses(t)

Ended(t, ok) ==
    /\ call[t].op \in Calls /\ (ok => call[t].op \notin Unawaited)
    /\ Ends(t, ok)
    /\ IF ok THEN Did(t) ELSE DidNot(t)

Entered(t, step) ==
    LET m == call[t].vm
    IN  /\ step = "off" => power'[m] = "on" /\ life[m] = "there" /\ life'[m] = "there"
        /\ step = "destroy" => power'[m] = "off" /\ life[m] = "there" /\ life'[m] = "there"
        /\ step = "folder" => life[m] = "there" /\ life'[m] = "gone"
        /\ step = "writing" => image' # "none"

Goes(t, step) ==
    /\ call' = [call EXCEPT ![t] = [op |-> call[t].op, step |-> step, vm |-> call[t].vm]]
    /\ row' = row
    /\ \/ call[t].op = "delete_vm" /\ step \in InDelete
       \/ call[t].op = "upload_iso" /\ step \in InPut
    /\ Entered(t, step)

Turns(d, op) ==
    LET from == call[Job(d)].op
    IN  /\ call' = [call EXCEPT ![Job(d)] = Enter(op, row[d].vm)]
        /\ row' = row
        /\ \/ from = "setup" /\ op = "detach_iso" /\ row[d].vm \in answering
           \/ from \in {"setup", "abandoned"} /\ op = "fail_answer"
           \/ /\ from \in {"install_tools", "shutdown", "check_power", "kept"}
              /\ op \in Tooling \cup {"done"}
              /\ op = "power_up" => IsOff(row[d].vm)

Abandons(d) ==
    LET c == call[Job(d)]
    IN  /\ c.op \notin {"idle", "abandoned", "kept", "failed", "done"}
        /\ call[Stray(d)] = Idle /\ ~Without({"cancel", "crash"})'
        /\ \/ Leaves(d, Idle)
           \/ Leaves(d, c) /\ c.op \in Lasting /\ ~Without({"cancel"})'

Creates(t, m) ==
    /\ At(t, "create_vm", "begin") /\ ~\E n \in Machines : SameName(n, t[1])
    /\ life[m] = "fresh"
    /\ life' = [life EXCEPT ![m] = "there"] /\ owner' = [owner EXCEPT ![m] = t[1]]
    /\ files' = files \cup {m}
    /\ UNCHANGED <<power, drive, answering, closing>>

CallMoves ==
    \/ \E t \in Threads, ok \in BOOLEAN : Ended(t, ok)
    \/ \E t \in Threads, step \in InDelete \cup InPut : Goes(t, step)
    \/ \E d \in Deployments, op \in Ops : Turns(d, op)
    \/ \E d \in Deployments, m \in Machines :
          Creates(Job(d), m) /\ Gets(d, m)
    \/ \E d \in Deployments : Abandons(d)
    \/ \E d \in Deployments : call[Job(d)].op = "failed" /\ Restarts(d)
    \/ UNCHANGED <<row, call>>

ThreadMoves(t) ==
    \/ \E ok \in BOOLEAN : Ended(t, ok)
    \/ \E step \in InDelete \cup InPut : Goes(t, step)
    \/ \E m \in Machines : t = Job(t[1]) /\ Creates(t, m) /\ Gets(t[1], m)

LEMMA ReturnedEnded ==
    ASSUME NEW t \in Threads, Finish(t, TRUE), call[t].op \in Calls \ Unawaited, Did(t)
    PROVE  Ended(t, TRUE)
BY FinishEnds DEF Ended

LEMMA RaisedEnded ==
    ASSUME NEW t \in Threads, Finish(t, FALSE), call[t].op \in Calls, DidNot(t)
    PROVE  Ended(t, FALSE)
BY FinishEnds DEF Ended

LEMMA ReturnsEnded ==
    ASSUME NEW t \in Threads, Returns(t), call[t].op \in Calls \ Unawaited,
           call[t].op # "delete_vm", Did(t)
    PROVE  \E ok \in BOOLEAN : Ended(t, ok)
BY ReturnedEnded, RaisedEnded DEF Returns, DidNot

LEMMA OpKinds ==
    /\ MachineCalls \subseteq Calls \ Unawaited /\ Lasting \subseteq Calls
    /\ {"upload_answer", "upload_iso", "attach_iso", "attach_floppy", "set_boot_order",
        "power_on", "detach_iso", "detach_floppy", "delete_answer", "mount_tools",
        "eject_tools", "remove_floppy", "remove_cdrom", "power_up", "fail_answer",
        "delete_vm"} \subseteq Calls \ Unawaited
BY DEF MachineCalls, Lasting, Calls, Unawaited, Building, Ejecting, Tooling, Failing

FitsDrive(op, k, medium) ==
    \/ op = "attach_iso" /\ k = "cdrom" /\ medium = "setup"
    \/ op = "attach_floppy" /\ k = "floppy" /\ medium = "setup"
    \/ op \in {"detach_iso", "eject_tools"} /\ k = "cdrom" /\ medium = "empty"
    \/ op = "detach_floppy" /\ k = "floppy" /\ medium = "empty"
    \/ op = "remove_floppy" /\ k = "floppy" /\ medium = "absent"
    \/ op = "remove_cdrom" /\ k = "cdrom" /\ medium = "absent"
    \/ op = "mount_tools" /\ k = "cdrom" /\ medium = "tools"

Mount(t) ==
    \/ AttachIso(t) \/ AttachFloppy(t) \/ DetachIso(t) \/ DetachFloppy(t)
    \/ RemoveFloppy(t) \/ RemoveCdrom(t) \/ MountToolsInstaller(t)

LEMMA MountFacts ==
    ASSUME NEW t, Mount(t)
    PROVE  \E op \in Calls \ Unawaited, k \in Drives, medium \in Media :
              Reconfigure(t, op, k, medium) /\ FitsDrive(op, k, medium)
<1>. USE DEF FitsDrive
<1>1. Drives = {"cdrom", "floppy"} /\ Media = {"absent", "empty", "setup", "tools"}
  BY DEF Drives, Media, Contract!Drives, Contract!Media
<1>2. CASE AttachIso(t)
  BY <1>1, <1>2, OpKinds DEF AttachIso
<1>3. CASE AttachFloppy(t)
  BY <1>1, <1>3, OpKinds DEF AttachFloppy
<1>4. CASE DetachIso(t)
  BY <1>1, <1>4, OpKinds DEF DetachIso
<1>5. CASE DetachFloppy(t)
  BY <1>1, <1>5, OpKinds DEF DetachFloppy
<1>6. CASE RemoveFloppy(t)
  BY <1>1, <1>6, OpKinds DEF RemoveFloppy
<1>7. CASE RemoveCdrom(t)
  BY <1>1, <1>7, OpKinds DEF RemoveCdrom
<1>8. CASE MountToolsInstaller(t)
  BY <1>1, <1>8, OpKinds DEF MountToolsInstaller
<1>. QED  BY <1>2, <1>3, <1>4, <1>5, <1>6, <1>7, <1>8 DEF Mount

LEMMA ReconfigureEnded ==
    ASSUME NEW t \in Threads, NEW op \in Calls \ Unawaited, NEW k, NEW medium,
           Reconfigure(t, op, k, medium), FitsDrive(op, k, medium)
    PROVE  \E ok \in BOOLEAN : Ended(t, ok)
<1>1. call[t].op = op
  BY DEF Reconfigure, At
<1>2. op # "delete_vm"
  BY DEF FitsDrive
<1>3. Did(t)
  BY <1>1 DEF Did, FitsDrive, Reconfigure
<1>. QED  BY <1>1, <1>2, <1>3, ReturnsEnded DEF Reconfigure

LEMMA CreateVmMoves ==
    ASSUME NEW t \in Threads, CreateVm(t)
    PROVE  ThreadMoves(t)
<1>. DEFINE d == t[1]
<1>1. PICK m \in Machines :
         /\ Creates(t, m)
         /\ \/ /\ t = Job(d)
               /\ row' = [row EXCEPT ![d] = [row[d] EXCEPT !.vm = CreatedRef(m)]]
               /\ call' = [call EXCEPT ![t] = Enter(Then(d, "create_vm"), CreatedRef(m))]
            \/ Finish(t, FALSE)
  BY DEF CreateVm, Creates
<1>2. call[t].op = "create_vm"
  BY DEF CreateVm, At
<1>3. Then(d, "create_vm") = "attach_iso" /\ CreatedRef(m) = m
  BY DEF Then, CreatedRef
<1>4. CASE Finish(t, FALSE)
  <2>1. call[t].op \in Calls /\ DidNot(t)
    BY <1>2 DEF Calls, Building, DidNot
  <2>2. Ended(t, FALSE)
    BY <1>4, <2>1, RaisedEnded
  <2>. QED  BY <2>2 DEF ThreadMoves
<1>5. CASE ~Finish(t, FALSE)
  <2>1. Gets(d, m) /\ t = Job(d)
    BY <1>1, <1>3, <1>5 DEF Gets
  <2>. QED  BY <1>1, <2>1 DEF ThreadMoves
<1>. QED  BY <1>4, <1>5

LEMMA DeleteMoves ==
    ASSUME TypeOK, NEW t \in Threads, FindToDelete(t) \/ PowerOffToDelete(t) \/ Destroy(t)
    PROVE  /\ FindToDelete(t) => \E step \in InDelete : Goes(t, step)
           /\ PowerOffToDelete(t) => Goes(t, "destroy")
           /\ Destroy(t) => Goes(t, "folder")
<1>. DEFINE m == call[t].vm
<1>. USE TypeParts DEF MachineTypes, InDelete
<1>1. m \in Machines /\ call[t].op = "delete_vm"
  BY DEF FindToDelete, PowerOffToDelete, Destroy, At, There
<1>2. ASSUME FindToDelete(t)
      PROVE  \E step \in InDelete : Goes(t, step)
  <2>. DEFINE step == IF power[m] = "on" THEN "off" ELSE "destroy"
  <2>1. Goto(t, step) /\ row' = row /\ power' = power /\ life' = life /\ There(m)
    BY <1>2 DEF FindToDelete, machines_
  <2>2. Entered(t, step)
    BY <1>1, <2>1 DEF Entered, There
  <2>. QED  BY <1>1, <2>1, <2>2 DEF Goes, Goto
<1>3. ASSUME PowerOffToDelete(t)
      PROVE  Goes(t, "destroy")
  <2>1. /\ Goto(t, "destroy") /\ row' = row /\ power' = [power EXCEPT ![m] = "off"]
        /\ There(m) /\ life' = life
    BY <1>3 DEF PowerOffToDelete
  <2>2. Entered(t, "destroy")
    BY <1>1, <2>1 DEF Entered, There
  <2>. QED  BY <1>1, <2>1, <2>2 DEF Goes, Goto
<1>4. ASSUME Destroy(t)
      PROVE  Goes(t, "folder")
  <2>1. Goto(t, "folder") /\ row' = row /\ life' = [life EXCEPT ![m] = "gone"] /\ There(m)
    BY <1>4 DEF Destroy
  <2>2. Entered(t, "folder")
    BY <1>1, <2>1 DEF Entered, There
  <2>. QED  BY <1>1, <2>1, <2>2 DEF Goes, Goto
<1>. QED  BY <1>2, <1>3, <1>4

LEMMA PowerOnEnded ==
    ASSUME NEW t \in Threads, PowerOn(t)
    PROVE  \E ok \in BOOLEAN : Ended(t, ok)
<1>1. Returns(t) /\ call[t].op \in {"power_on", "power_up"}
  BY DEF PowerOn, At
<1>2. Did(t)
  BY <1>1 DEF Did
<1>. QED  BY <1>1, <1>2, OpKinds, ReturnsEnded

LEMMA DriverMoves ==
    ASSUME TypeOK, StepsFit, NEW t \in Threads, Driver(t)
    PROVE  ThreadMoves(t)
<1>1. ASSUME \E ok \in BOOLEAN : Ended(t, ok)
      PROVE  ThreadMoves(t)
  BY <1>1 DEF ThreadMoves
<1>2. ASSUME Finish(t, TRUE), call[t].op \in Calls \ Unawaited, Did(t)
      PROVE  ThreadMoves(t)
  BY <1>1, <1>2, ReturnedEnded
<1>3. ASSUME Finish(t, FALSE), call[t].op \in Calls, DidNot(t)
      PROVE  ThreadMoves(t)
  BY <1>1, <1>3, RaisedEnded
<1>4. ASSUME NEW step \in InPut, Goto(t, step), row' = row, call[t].op = "upload_iso",
             step = "writing" => image' # "none"
      PROVE  ThreadMoves(t)
  <2>1. Entered(t, step)
    BY <1>4 DEF Entered, InPut
  <2>. QED  BY <1>4, <2>1 DEF ThreadMoves, Goes, Goto
<1>5. CASE NothingToDo(t)
  <2>1. Did(t)
    BY <1>5 DEF NothingToDo, DriveGone, Did
  <2>. QED  BY <1>2, <1>5, <2>1, OpKinds DEF NothingToDo
<1>6. CASE CallFails(t)
  <2>1. DidNot(t)
    BY <1>6 DEF CallFails, DidNot, Incident, Without
  <2>. QED  BY <1>3, <1>6, <2>1 DEF CallFails, Raises
<1>7. CASE Refused(t)
  <2>1. Finish(t, FALSE) /\ Refuses(t) /\ DidNot(t)
    BY <1>7 DEF Refused, Raises, DidNot
  <2>2. CASE call[t].op \in Calls
    BY <1>3, <2>1, <2>2
  <2>3. CASE call[t].op \notin Calls
    <3>1. call[t].step \in {"off", "destroy"}
      BY <2>1, <2>3, OpKinds DEF Refuses, Calls, Building
    <3>. QED  BY <2>3, <3>1, OpKinds DEF StepsFit, InDelete
  <2>. QED  BY <2>2, <2>3
<1>8. CASE CreateVm(t)
  BY <1>8, CreateVmMoves
<1>9. CASE Mount(t)
  BY <1>1, <1>9, MountFacts, ReconfigureEnded
<1>10. CASE SetBootOrder(t)
  <2>1. Returns(t) /\ call[t].op = "set_boot_order"
    BY <1>10 DEF SetBootOrder, At
  <2>2. Did(t)
    BY <2>1 DEF Did
  <2>. QED  BY <1>1, <2>1, <2>2, OpKinds, ReturnsEnded
<1>11. CASE PowerOn(t)
  BY <1>1, <1>11, PowerOnEnded
<1>12. CASE FindToDelete(t) \/ PowerOffToDelete(t) \/ Destroy(t)
  BY <1>12, DeleteMoves DEF ThreadMoves, InDelete
<1>13. CASE DeleteFolder(t)
  <2>1. Finish(t, TRUE) /\ call[t].op = "delete_vm" /\ call[t].step = "folder"
    BY <1>13 DEF DeleteFolder, At
  <2>. QED  BY <1>2, <2>1, OpKinds DEF Did
<1>14. CASE UploadAnswer(t)
  <2>1. Returns(t) /\ call[t].op = "upload_answer" /\ t[1] \in answer'
    BY <1>14 DEF UploadAnswer, At
  <2>2. Did(t)
    BY <2>1 DEF Did
  <2>. QED  BY <1>1, <2>1, <2>2, OpKinds, ReturnsEnded
<1>15. CASE AnswerNotTaken(t)
  <2>1. Finish(t, TRUE) /\ call[t].op = "upload_answer" /\ ~Without({"put"})'
    BY <1>15 DEF AnswerNotTaken, At, Incident, Without
  <2>. QED  BY <1>2, <2>1, OpKinds DEF Did
<1>16. CASE ProbeImage(t) \/ StartPut(t)
  <2>1. call[t].op = "upload_iso"
    BY <1>16 DEF ProbeImage, StartPut, At
  <2>2. \/ Finish(t, TRUE) /\ (image' # "none" \/ Writing # {})
        \/ /\ row' = row
           /\ \E step \in InPut : Goto(t, step) /\ (step = "writing" => image' # "none")
    BY <1>16 DEF ProbeImage, StartPut, InPut, files_
  <2>3. image' # "none" \/ Writing # {} => Did(t)
    BY <2>1 DEF Did
  <2>. QED  BY <1>2, <1>4, <2>1, <2>2, <2>3, OpKinds
<1>17. CASE EndPut(t) \/ BreakPut(t)
  <2>1. call[t].op = "upload_iso" /\ t \in Writing
    BY <1>17 DEF EndPut, BreakPut, At, Writing
  <2>2. Did(t) /\ DidNot(t)
    BY <2>1 DEF Did, DidNot
  <2>3. Returns(t) \/ Finish(t, TRUE) \/ Finish(t, FALSE)
    BY <1>17 DEF EndPut, BreakPut
  <2>. QED  BY <1>1, <1>2, <1>3, <2>1, <2>2, <2>3, OpKinds, ReturnsEnded
<1>18. CASE DeleteAnswer(t)
  <2>1. Finish(t, TRUE) /\ call[t].op \in {"delete_answer", "fail_answer"}
    BY <1>18 DEF DeleteAnswer, At
  <2>. QED  BY <1>2, <2>1, OpKinds DEF Did
<1>. QED  BY <1>5, <1>6, <1>7, <1>8, <1>9, <1>10, <1>11, <1>12, <1>13, <1>14, <1>15, <1>16,
          <1>17, <1>18 DEF Driver, Mount

LEMMA PipelineMoves ==
    ASSUME NEW d \in Deployments, Pipeline(d)
    PROVE  CallMoves
<1>1. ASSUME NEW op \in Ops, Turns(d, op)
      PROVE  CallMoves
  BY <1>1 DEF CallMoves
<1>2. {"detach_iso", "fail_answer", "done"} \cup Tooling \subseteq Ops
  BY DEF Ops, Calls, Rest, Ejecting, Failing
<1>3. {"shutdown", "eject_tools", "remove_floppy", "check_power", "power_up", "mount_tools"}
         \subseteq Tooling
  BY DEF Tooling
<1>4. CASE SetupEnds(d) \/ CleanUp(d)
  BY <1>1, <1>2, <1>4 DEF SetupEnds, CleanUp, Stands, Turn, Turns, Waits
<1>5. CASE InstallTools(d)
  <2>1. \E op \in {"shutdown", "eject_tools", "done"} : Turn(d, op)
    BY <1>5 DEF InstallTools
  <2>. QED  BY <1>1, <1>2, <1>3, <1>5, <2>1 DEF InstallTools, Stands, Turn, Turns
<1>6. CASE AwaitPowerOff(d)
  BY <1>1, <1>2, <1>3, <1>6 DEF AwaitPowerOff, Stands, Turn, Turns, Waits
<1>7. CASE CheckPower(d)
  <2>1. \E op \in {"power_up", "done"} : Turn(d, op) /\ (op = "power_up" => IsOff(row[d].vm))
    BY <1>7 DEF CheckPower
  <2>. QED  BY <1>1, <1>2, <1>3, <1>7, <2>1 DEF CheckPower, Stands, Turn, Turns, Waits
<1>8. CASE Abandon(d)
  <2>. DEFINE c == call[Job(d)]
  <2>1. PICK kind \in {"cancel", "crash"} :
           /\ Incident(kind)
           /\ Leaves(d, IF kind = "cancel" /\ Awaits(d) THEN c ELSE Idle)
    BY <1>8 DEF Abandon, Leaves, Waits
  <2>4. ~Without({"cancel", "crash"})'
    BY <2>1 DEF Incident, Without
  <2>2. CASE kind = "cancel" /\ Awaits(d)
    <3>1. ~Without({"cancel"})' /\ c.op \in Lasting
      BY <2>1, <2>2 DEF Incident, Without, Awaits
    <3>2. Abandons(d)
      BY <1>8, <2>1, <2>2, <2>4, <3>1 DEF Abandon, Abandons
    <3>. QED  BY <3>2 DEF CallMoves
  <2>3. CASE ~(kind = "cancel" /\ Awaits(d))
    <3>1. Abandons(d)
      BY <1>8, <2>1, <2>3, <2>4 DEF Abandon, Abandons
    <3>. QED  BY <3>1 DEF CallMoves
  <2>. QED  BY <2>2, <2>3
<1>9. CASE Retry(d)
  <2>1. CASE Stands(d, "failed")
    <3>1. call[Job(d)].op = "failed" /\ Restarts(d)
      BY <1>9, <2>1 DEF Retry, Stands, Turn, Restarts
    <3>. QED  BY <3>1 DEF CallMoves
  <2>2. CASE Stands(d, "kept")
    BY <1>1, <1>2, <1>3, <1>9, <2>2 DEF Retry, Stands, Turn, Turns
  <2>. QED  BY <1>9, <2>1, <2>2 DEF Retry
<1>10. CASE OperatorPowers(d)
  BY <1>10 DEF OperatorPowers, CallMoves
<1>. QED  BY <1>4, <1>5, <1>6, <1>7, <1>8, <1>9, <1>10 DEF Pipeline

LEMMA Moves ==
    ASSUME TypeOK, StepsFit, [Next]_vars
    PROVE  CallMoves
<1>1. ASSUME NEW m \in Machines, Guest(m)
      PROVE  CallMoves
  BY <1>1 DEF Guest, GuestSpecializes, GuestShutsDown, CallMoves
<1>2. CASE UNCHANGED vars
  BY <1>2 DEF vars, CallMoves
<1>3. ASSUME NEW t \in Threads, Driver(t)
      PROVE  CallMoves
  <2>1. ThreadMoves(t)
    BY <1>3, DriverMoves
  <2>2. ASSUME NEW m \in Machines, t = Job(t[1]), Creates(t, m), Gets(t[1], m)
        PROVE  CallMoves
    BY <2>2, JobsAndStrays DEF CallMoves
  <2>. QED  BY <2>1, <2>2 DEF ThreadMoves, CallMoves
<1>. QED  BY <1>1, <1>2, <1>3, PipelineMoves DEF Next

-----------------------------------------------------------------------------
(* Type correctness *)

LEMMA CallsTyped ==
    ASSUME TypeOK, CallMoves
    PROVE  call' \in [Threads -> CallRecords] /\ row' \in [Deployments -> RowRecords]
<1>. USE CallTypes
<1>1. ASSUME NEW t \in Threads, NEW ok \in BOOLEAN, Ended(t, ok)
      PROVE  call' \in [Threads -> CallRecords] /\ row' \in [Deployments -> RowRecords]
  BY <1>1, EndsTyped DEF Ended
<1>2. ASSUME NEW t \in Threads, NEW step \in InDelete \cup InPut, Goes(t, step)
      PROVE  call' \in [Threads -> CallRecords] /\ row' \in [Deployments -> RowRecords]
  BY <1>2 DEF Goes, CallRecords, InDelete, InPut, Steps
<1>3. ASSUME NEW d \in Deployments, NEW op \in Ops, NEW m \in Machines \cup {None},
             call' = [call EXCEPT ![Job(d)] = Enter(op, m)]
      PROVE  call' \in [Threads -> CallRecords]
  BY <1>3, EnterFacts
<1>4. ASSUME NEW d \in Deployments
      PROVE  row[d] \in RowRecords /\ row[d].vm \in Machines \cup {None}
  BY DEF RowRecords
<1>5. ASSUME NEW d \in Deployments, NEW op \in Ops, Turns(d, op)
      PROVE  call' \in [Threads -> CallRecords] /\ row' \in [Deployments -> RowRecords]
  BY <1>3, <1>4, <1>5 DEF Turns
<1>6. ASSUME NEW d \in Deployments, NEW m \in Machines, Gets(d, m)
      PROVE  call' \in [Threads -> CallRecords] /\ row' \in [Deployments -> RowRecords]
  <2>1. [row[d] EXCEPT !.vm = m] \in RowRecords
    BY <1>4 DEF RowRecords
  <2>2. row' \in [Deployments -> RowRecords]
    BY <1>6, <2>1 DEF Gets
  <2>3. "attach_iso" \in Ops
    BY DEF Ops, Calls, Building
  <2>. QED  BY <1>3, <1>6, <2>2, <2>3 DEF Gets
<1>7. ASSUME NEW d \in Deployments, Abandons(d)
      PROVE  call' \in [Threads -> CallRecords] /\ row' \in [Deployments -> RowRecords]
  <2>1. Enter("abandoned", row[d].vm) \in CallRecords
    BY <1>4, EnterFacts DEF Ops, Rest
  <2>2. call[Job(d)] \in CallRecords
    BY JobsAndStrays
  <2>3. \E s \in CallRecords : Leaves(d, s)
    BY <1>7, <2>2, IdleFacts DEF Abandons
  <2>. QED  BY <2>1, <2>3 DEF Leaves
<1>8. ASSUME NEW d \in Deployments, Restarts(d)
      PROVE  call' \in [Threads -> CallRecords] /\ row' \in [Deployments -> RowRecords]
  <2>1. "upload_answer" \in Ops
    BY DEF Ops, Calls, Building
  <2>2. [vm |-> None, answer |-> FALSE, keep |-> FALSE, unit |-> FALSE] \in RowRecords
    BY DEF RowRecords
  <2>. QED  BY <1>3, <1>4, <1>8, <2>1, <2>2 DEF Restarts
<1>. QED  BY <1>1, <1>2, <1>5, <1>6, <1>7, <1>8 DEF CallMoves

-----------------------------------------------------------------------------
(* What a step does to the machines. *)

Refits(t, m, k, medium) ==
    LET op == call[t].op
    IN  /\ FitsDrive(op, k, medium)
        /\ call[t].vm = m /\ Accepts(op, m) /\ ~DriveGone(op, m)
        /\ \E ok \in BOOLEAN : Ended(t, ok)
        /\ drive' = [drive EXCEPT ![m] = [drive[m] EXCEPT ![k] = medium]]
        /\ UNCHANGED <<life, power, answering, owner, files, closing>>

PowersOn(m) ==
    /\ There(m) /\ power[m] = "off"
    /\ \/ \E t \in Threads : /\ call[t].vm = m /\ call[t].op \in {"power_on", "power_up"}
                            /\ \E ok \in BOOLEAN : Ended(t, ok)
       \/ ~Without({"operator"})'
    /\ power' = [power EXCEPT ![m] = "on"]
    /\ closing' \subseteq closing /\ UNCHANGED <<life, drive, answering, owner, files>>

PowersOff(m) ==
    /\ There(m) /\ power[m] = "on"
    /\ \/ \E t \in Threads : call[t].vm = m /\ call[t].step = "off" /\ Goes(t, "destroy")
       \/ ~Without({"operator"})'
       \/ m \in closing
    /\ power' = [power EXCEPT ![m] = "off"]
    /\ closing' \subseteq closing /\ UNCHANGED <<life, drive, answering, owner, files>>

Destroys(t, m) ==
    /\ At(t, "delete_vm", "destroy") /\ call[t].vm = m /\ There(m) /\ power[m] = "off"
    /\ Goes(t, "folder")
    /\ life' = [life EXCEPT ![m] = "gone"] /\ drive' = [drive EXCEPT ![m] = NoDrives]
    /\ owner' = [owner EXCEPT ![m] = None]
    /\ answering' = answering \ {m} /\ files' = files \ {m} /\ closing' = closing \ {m}
    /\ UNCHANGED power

Empties(t) ==
    /\ At(t, "delete_vm", "folder")
    /\ files' = files \ {m \in FolderOf(t[1]) : power[m] = "off"}
    /\ UNCHANGED <<life, power, drive, answering, owner, closing>>

Specializes(m) ==
    /\ There(m) /\ power[m] = "on" /\ \A k \in Drives : drive[m][k] = "setup"
    /\ answering' = answering \cup {m}
    /\ UNCHANGED <<life, power, drive, owner, files, closing>>

Closes(d) ==
    /\ call[Job(d)].op = "install_tools" /\ closing' = closing \cup {row[d].vm}
    /\ UNCHANGED <<life, power, drive, answering, owner, files>>

(* Who knows of the new machine. *)
Granted(t, m) ==
    \/ t = Job(t[1]) /\ Gets(t[1], m)
    \/ t = Stray(t[1])
    \/ ~Without({"lost"})'

MachineMoves ==
    \/ \E t \in Threads, m \in Machines : Creates(t, m) /\ Granted(t, m)
    \/ \E t \in Threads, m \in Machines, k \in Drives, medium \in Media :
          Refits(t, m, k, medium)
    \/ \E m \in Machines : PowersOn(m)
    \/ \E m \in Machines : PowersOff(m)
    \/ \E t \in Threads, m \in Machines : Destroys(t, m)
    \/ \E t \in Threads : Empties(t)
    \/ \E m \in Machines : Specializes(m)
    \/ \E d \in Deployments : Closes(d)
    \/ UNCHANGED machines_

LEMMA MachineMovesHold ==
    ASSUME TypeOK, [Next]_vars
    PROVE  MachineMoves /\ hostname' = hostname
<1>1. ASSUME NEW t \in Threads, Driver(t)
      PROVE  MachineMoves /\ hostname' = hostname
  <2>1. CASE \/ NothingToDo(t) \/ CallFails(t) \/ Refused(t) \/ SetBootOrder(t)
             \/ FindToDelete(t) \/ UploadAnswer(t) \/ AnswerNotTaken(t) \/ ProbeImage(t)
             \/ StartPut(t) \/ EndPut(t) \/ BreakPut(t) \/ DeleteAnswer(t)
    <3>1. UNCHANGED machines_ /\ hostname' = hostname
      BY <2>1 DEF NothingToDo, CallFails, Refused, SetBootOrder, FindToDelete, UploadAnswer,
         AnswerNotTaken, ProbeImage, StartPut, EndPut, BreakPut, DeleteAnswer, Raises, Returns
    <3>. QED  BY <3>1 DEF MachineMoves
  <2>2. CASE CreateVm(t)
    <3>. DEFINE d == t[1]
    <3>1. PICK m \in Machines :
             /\ Creates(t, m)
             /\ \/ /\ t = Job(d)
                   /\ row' = [row EXCEPT ![d] = [row[d] EXCEPT !.vm = CreatedRef(m)]]
                   /\ call' = [call EXCEPT ![t] = Enter(Then(d, "create_vm"), CreatedRef(m))]
                \/ IF t = Job(d) THEN Incident("lost") ELSE Quiet
      BY <2>2 DEF CreateVm, Creates
    <3>3. Then(d, "create_vm") = "attach_iso" /\ CreatedRef(m) = m
      BY DEF Then, CreatedRef
    <3>4. Granted(t, m)
      BY <3>1, <3>3, JobsAndStrays DEF Granted, Gets, Incident, Without
    <3>2. hostname' = hostname
      BY <2>2 DEF CreateVm
    <3>. QED  BY <3>1, <3>2, <3>4 DEF MachineMoves
  <2>3. CASE Mount(t)
    <3>1. PICK op \in Calls \ Unawaited, k \in Drives, medium \in Media :
             Reconfigure(t, op, k, medium) /\ FitsDrive(op, k, medium)
      BY <2>3, MountFacts DEF FitsDrive
    <3>2. call[t].op = op
      BY <3>1 DEF Reconfigure, At
    <3>3. call[t].vm \in Machines
      BY <3>1 DEF Reconfigure, Accepts, There
    <3>4. \E ok \in BOOLEAN : Ended(t, ok)
      BY <3>1, ReconfigureEnded
    <3>6. Refits(t, call[t].vm, k, medium)
      BY <3>1, <3>2, <3>4 DEF Reconfigure, Refits
    <3>5. hostname' = hostname
      BY <3>1 DEF Reconfigure, Returns
    <3>. QED  BY <3>3, <3>5, <3>6 DEF MachineMoves
  <2>4. CASE PowerOn(t)
    <3>1. \E op \in {"power_on", "power_up"} : call[t].op = op /\ Accepts(op, call[t].vm)
      BY <2>4 DEF PowerOn, At
    <3>2. call[t].vm \in Machines /\ PowersOn(call[t].vm)
      BY <2>4, <3>1, PowerOnEnded DEF PowerOn, PowersOn, Accepts, There
    <3>3. hostname' = hostname
      BY <2>4 DEF PowerOn, Returns
    <3>. QED  BY <3>2, <3>3 DEF MachineMoves
  <2>5. CASE PowerOffToDelete(t)
    <3>1. Goes(t, "destroy")
      BY <2>5, DeleteMoves
    <3>3. call[t].vm \in Machines /\ PowersOff(call[t].vm)
      BY <2>5, <3>1 DEF PowerOffToDelete, PowersOff, There, At
    <3>2. hostname' = hostname
      BY <2>5 DEF PowerOffToDelete
    <3>. QED  BY <3>2, <3>3 DEF MachineMoves
  <2>6. CASE Destroy(t)
    <3>1. call[t].vm \in Machines /\ Destroys(t, call[t].vm)
      BY <2>6, DeleteMoves DEF Destroy, Destroys, There
    <3>2. hostname' = hostname
      BY <2>6 DEF Destroy
    <3>. QED  BY <3>1, <3>2 DEF MachineMoves
  <2>7. CASE DeleteFolder(t)
    BY <2>7 DEF DeleteFolder, Empties, MachineMoves
  <2>. QED  BY <1>1, <2>1, <2>2, <2>3, <2>4, <2>5, <2>6, <2>7 DEF Driver, Mount
<1>2. ASSUME NEW d \in Deployments, Pipeline(d)
      PROVE  MachineMoves /\ hostname' = hostname
  <2>1. CASE \/ SetupEnds(d) \/ AwaitPowerOff(d) \/ CheckPower(d) \/ Abandon(d)
             \/ CleanUp(d) \/ Retry(d)
    <3>1. UNCHANGED machines_ /\ hostname' = hostname
      BY <2>1 DEF SetupEnds, AwaitPowerOff, CheckPower, Abandon, CleanUp, Retry, Waits
    <3>. QED  BY <3>1 DEF MachineMoves
  <2>2. CASE InstallTools(d)
    <3>1. Closes(d) \/ UNCHANGED machines_
      BY <2>2 DEF InstallTools, Stands, Closes, machines_
    <3>2. hostname' = hostname
      BY <2>2 DEF InstallTools
    <3>. QED  BY <1>2, <3>1, <3>2 DEF MachineMoves
  <2>3. CASE OperatorPowers(d)
    <3>1. row[d].vm \in Machines /\ There(row[d].vm) /\ ~Without({"operator"})'
      BY <2>3 DEF OperatorPowers, There, Incident, Without
    <3>2. PowersOn(row[d].vm) \/ PowersOff(row[d].vm)
      BY <2>3, <3>1 DEF OperatorPowers, PowersOn, PowersOff
    <3>3. hostname' = hostname
      BY <2>3 DEF OperatorPowers
    <3>. QED  BY <3>1, <3>2, <3>3 DEF MachineMoves
  <2>. QED  BY <1>2, <2>1, <2>2, <2>3 DEF Pipeline
<1>3. ASSUME NEW m \in Machines, Guest(m)
      PROVE  MachineMoves /\ hostname' = hostname
  <2>1. Specializes(m) \/ PowersOff(m)
    BY <1>3 DEF Guest, GuestSpecializes, GuestShutsDown, Specializes, PowersOff
  <2>2. hostname' = hostname
    BY <1>3 DEF Guest, GuestSpecializes, GuestShutsDown
  <2>. QED  BY <2>1, <2>2 DEF MachineMoves
<1>4. CASE UNCHANGED vars
  BY <1>4 DEF vars, machines_, MachineMoves
<1>. QED  BY <1>1, <1>2, <1>3, <1>4 DEF Next

LEMMA DriveNames ==
    /\ Drives = {"cdrom", "floppy"} /\ Media = {"absent", "empty", "setup", "tools"}
    /\ NoDrives \in [Drives -> Media] /\ \A k \in Drives : NoDrives[k] = "absent"
BY DEF Drives, Media, NoDrives, Contract!Drives, Contract!Media, Contract!NoDrives

LEMMA MachinesTyped ==
    ASSUME MachineTypes, MachineMoves, \A d \in Deployments : row[d].vm \in Machines \cup {None},
           \A d \in Deployments : call[Job(d)].op = "install_tools" => row[d].vm # None
    PROVE  MachineTypes'
<1>1. ASSUME NEW t \in Threads, NEW m \in Machines, Creates(t, m)
      PROVE  MachineTypes'
  BY <1>1, JobsAndStrays DEF MachineTypes, Creates
<1>2. ASSUME NEW t \in Threads, NEW m \in Machines, NEW k \in Drives, NEW medium \in Media,
             Refits(t, m, k, medium)
      PROVE  MachineTypes'
  <2>1. drive[m] \in [Drives -> Media]
    BY DEF MachineTypes
  <2>2. [drive[m] EXCEPT ![k] = medium] \in [Drives -> Media]
    BY <2>1
  <2>. QED  BY <1>2, <2>2 DEF MachineTypes, Refits
<1>3. ASSUME NEW m \in Machines, PowersOn(m) \/ PowersOff(m)
      PROVE  MachineTypes'
  <2>1. power' \in [Machines -> {"on", "off"}]
    BY <1>3 DEF MachineTypes, PowersOn, PowersOff
  <2>. QED  BY <1>3, <2>1 DEF MachineTypes, PowersOn, PowersOff
<1>4. ASSUME NEW t \in Threads, NEW m \in Machines, Destroys(t, m)
      PROVE  MachineTypes'
  BY <1>4, DriveNames DEF MachineTypes, Destroys
<1>5. ASSUME NEW t \in Threads, Empties(t)
      PROVE  MachineTypes'
  BY <1>5 DEF MachineTypes, Empties
<1>6. ASSUME NEW m \in Machines, Specializes(m)
      PROVE  MachineTypes'
  BY <1>6 DEF MachineTypes, Specializes
<1>7. ASSUME NEW d \in Deployments, Closes(d)
      PROVE  MachineTypes'
  BY <1>7 DEF MachineTypes, Closes
<1>8. CASE UNCHANGED machines_
  BY <1>8 DEF MachineTypes, machines_
<1>. QED  BY <1>1, <1>2, <1>3, <1>4, <1>5, <1>6, <1>7, <1>8 DEF MachineMoves

-----------------------------------------------------------------------------
(* Places *)

(* Which call can come after another. *)
Follows(d, op, next) ==
    \/ op \notin BestEffort /\ next = "fail_answer"
    \/ op = "upload_answer" /\ next = "upload_iso"
    \/ op = "upload_iso" /\ next = "create_vm"
    \/ op = "attach_iso" /\ next = "attach_floppy"
    \/ op = "attach_floppy" /\ next = "set_boot_order"
    \/ op = "set_boot_order" /\ next = "power_on"
    \/ op = "power_on" /\ next = "setup"
    \/ op = "detach_iso" /\ next = "detach_floppy"
    \/ op = "detach_floppy" /\ next = "delete_answer"
    \/ op = "delete_answer" /\ next = "mount_tools"
    \/ op = "mount_tools" /\ next = "install_tools"
    \/ op = "remove_floppy" /\ next \in {"remove_cdrom", "check_power"}
    \/ op \in {"eject_tools", "power_up"} /\ next = "done"
    \/ op = "remove_cdrom" /\ next = "check_power"
    \/ op = "fail_answer" /\ next = "failed" /\ row[d].vm = None
    \/ op = "fail_answer" /\ next = "kept" /\ row[d].vm # None /\ row[d].keep
    \/ op = "fail_answer" /\ next = "delete_vm" /\ row[d].vm # None /\ ~row[d].keep
    \/ op = "delete_vm" /\ next = "failed"

LEMMA ThenFollows ==
    ASSUME NEW d, NEW op \in Calls \ Unawaited, row[d].keep \in BOOLEAN
    PROVE  Follows(d, op, Then(d, op))
BY DEF Then, Follows, Calls, Unawaited, Building, Ejecting, Tooling, Failing

LEMMA NextFollows ==
    ASSUME TypeOK, NEW d \in Deployments, NEW op \in Calls, NEW ok \in BOOLEAN,
           ok => op \notin Unawaited
    PROVE  Follows(d, op, IF ok THEN Then(d, op) ELSE Raised(d, op))
<1>1. row[d].keep \in BOOLEAN
  BY CallTypes DEF RowRecords
<1>2. BestEffort \cap Unawaited = {}
  BY DEF BestEffort, Unawaited, Ejecting, Failing
<1>3. CASE op \in Unawaited
  BY <1>2, <1>3 DEF Raised, Follows
<1>4. CASE op \notin Unawaited
  <2>1. Follows(d, op, Then(d, op))
    BY <1>1, <1>4, ThenFollows
  <2>2. Raised(d, op) = Then(d, op) \/ (Raised(d, op) = "fail_answer" /\ op \notin BestEffort)
    BY DEF Raised
  <2>3. Raised(d, op) = "fail_answer" /\ op \notin BestEffort => Follows(d, op, Raised(d, op))
    BY DEF Follows
  <2>. QED  BY <2>1, <2>2, <2>3
<1>. QED  BY <1>3, <1>4

(* A job's move, spelled out. *)
LEMMA JobMoveFacts ==
    ASSUME TypeOK, NEW d \in Deployments, NEW ok \in BOOLEAN, JobMoves(d, ok),
           call[Job(d)].op \in Calls, ok => call[Job(d)].op \notin Unawaited
    PROVE  \E next \in Ops :
              LET op == call[Job(d)].op
              IN  /\ Follows(d, op, next)
                  /\ call'[Job(d)].op = next /\ call'[Job(d)].step = "begin"
                  /\ call'[Job(d)].vm = row'[d].vm
                  /\ \A t \in Threads : t # Job(d) => call'[t] = call[t]
                  /\ row'[d].vm = IF op = "delete_vm" THEN None ELSE row[d].vm
                  /\ row'[d].keep = (row[d].keep \/ op = "delete_answer")
                  /\ \A e \in Deployments : e # d => row'[e] = row[e]
<1>. DEFINE op == call[Job(d)].op
            after == RowAfter(d, op, ok)
            next == IF ok THEN Then(d, op) ELSE Raised(d, op)
<1>1. Follows(d, op, next) /\ next \in Ops
  BY NextFollows, NextCallType
<1>2. after \in RowRecords /\ after.vm \in Machines \cup {None}
  BY RowAfterType DEF RowRecords
<1>3. after.vm = IF op = "delete_vm" THEN None ELSE row[d].vm
  BY DEF RowAfter
<1>4. after.keep = (row[d].keep \/ op = "delete_answer")
  BY DEF RowAfter
<1>5. call' = [call EXCEPT ![Job(d)] = Enter(next, after.vm)] /\ row' = [row EXCEPT ![d] = after]
  BY DEF JobMoves
<1>6. call'[Job(d)] = Enter(next, after.vm) /\ \A t \in Threads : t # Job(d) => call'[t] = call[t]
  BY <1>5, CallTypes, JobsAndStrays
<1>7. row'[d] = after /\ \A e \in Deployments : e # d => row'[e] = row[e]
  BY <1>5, CallTypes
<1>. HIDE DEF after, next
<1>8. call'[Job(d)].op = next /\ call'[Job(d)].vm = after.vm /\ call'[Job(d)].step = "begin"
  BY <1>1, <1>2, <1>6, EnterFacts
<1>. QED  BY <1>1, <1>3, <1>4, <1>6, <1>7, <1>8

LEMMA StrayEndFacts ==
    ASSUME TypeOK, NEW d \in Deployments, StrayEnds(d)
    PROVE  /\ call'[Stray(d)] = Idle /\ row' = row
           /\ \A t \in Threads : t # Stray(d) => call'[t] = call[t]
BY CallTypes, JobsAndStrays DEF StrayEnds

LEMMA GoFacts ==
    ASSUME TypeOK, NEW t \in Threads, NEW step, Goes(t, step)
    PROVE  /\ call'[t].op = call[t].op /\ call'[t].vm = call[t].vm /\ call'[t].step = step
           /\ \A u \in Threads : u # t => call'[u] = call[u]
           /\ row' = row
BY CallTypes DEF Goes

LEMMA TurnFacts ==
    ASSUME TypeOK, NEW d \in Deployments, NEW op \in Ops, Turns(d, op)
    PROVE  /\ call'[Job(d)].op = op /\ call'[Job(d)].vm = row[d].vm
           /\ call'[Job(d)].step = "begin"
           /\ \A t \in Threads : t # Job(d) => call'[t] = call[t]
           /\ row' = row
<1>1. row[d].vm \in Machines \cup {None}
  BY CallTypes DEF RowRecords
<1>. QED  BY <1>1, CallTypes, JobsAndStrays, EnterFacts DEF Turns

LEMMA GetFacts ==
    ASSUME TypeOK, NEW d \in Deployments, NEW m \in Machines, Gets(d, m)
    PROVE  /\ call'[Job(d)].op = "attach_iso" /\ call'[Job(d)].vm = m
           /\ call'[Job(d)].step = "begin"
           /\ \A t \in Threads : t # Job(d) => call'[t] = call[t]
           /\ row'[d].vm = m /\ row'[d].keep = row[d].keep
           /\ \A e \in Deployments : e # d => row'[e] = row[e]
<1>1. "attach_iso" \in Ops
  BY DEF Ops, Calls, Building
<1>2. row[d] \in RowRecords
  BY CallTypes
<1>3. [row[d] EXCEPT !.vm = m].vm = m /\ [row[d] EXCEPT !.vm = m].keep = row[d].keep
  BY <1>2 DEF RowRecords
<1>. QED  BY <1>1, <1>3, CallTypes, JobsAndStrays, EnterFacts DEF Gets

LEMMA AbandonFacts ==
    ASSUME TypeOK, NEW d \in Deployments, Abandons(d)
    PROVE  /\ call'[Job(d)].op = "abandoned" /\ call'[Job(d)].vm = row[d].vm
           /\ call'[Job(d)].step = "begin"
           /\ call[Stray(d)] = Idle /\ ~Without({"cancel", "crash"})'
           /\ \/ call'[Stray(d)] = Idle
              \/ /\ call'[Stray(d)] = call[Job(d)] /\ call[Job(d)].op \in Lasting
                 /\ ~Without({"cancel"})'
           /\ \A t \in Threads : t # Job(d) /\ t # Stray(d) => call'[t] = call[t]
           /\ row' = row
<1>1. "abandoned" \in Ops /\ row[d].vm \in Machines \cup {None}
  BY CallTypes DEF RowRecords, Ops, Rest
<1>2. ASSUME NEW s, Leaves(d, s)
      PROVE  /\ call'[Job(d)] = Enter("abandoned", row[d].vm) /\ call'[Stray(d)] = s
             /\ \A t \in Threads : t # Job(d) /\ t # Stray(d) => call'[t] = call[t]
             /\ row' = row
  BY <1>2, CallTypes, JobsAndStrays DEF Leaves
<1>. QED  BY <1>1, <1>2, EnterFacts DEF Abandons

LEMMA RestartFacts ==
    ASSUME TypeOK, NEW d \in Deployments, Restarts(d)
    PROVE  /\ call'[Job(d)].op = "upload_answer" /\ call'[Job(d)].vm = row[d].vm
           /\ call'[Job(d)].step = "begin"
           /\ \A t \in Threads : t # Job(d) => call'[t] = call[t]
           /\ row'[d].vm = None /\ row'[d].keep = FALSE
           /\ \A e \in Deployments : e # d => row'[e] = row[e]
<1>1. "upload_answer" \in Ops /\ row[d].vm \in Machines \cup {None}
  BY CallTypes DEF RowRecords, Ops, Calls, Building
<1>. QED  BY <1>1, CallTypes, JobsAndStrays, EnterFacts DEF Restarts

LEMMA StepsFitStep ==
    ASSUME TypeOK, Places, CallMoves
    PROVE  StepsFit'
<1>1. ASSUME NEW t \in Threads, call'[t].step = "begin",
             \A u \in Threads : u # t => call'[u] = call[u]
      PROVE  StepsFit'
  BY <1>1 DEF Places, StepsFit, InDelete, InPut
<1>2. ASSUME NEW t \in Threads, NEW ok \in BOOLEAN, Ended(t, ok)
      PROVE  StepsFit'
  <2>. DEFINE d == t[1]
  <2>1. d \in Deployments /\ Job(d) \in Threads /\ Stray(d) \in Threads
    BY JobsAndStrays
  <2>2. CASE JobMoves(d, ok) /\ t = Job(d)
    BY <1>1, <1>2, <2>1, <2>2, JobMoveFacts DEF Ended
  <2>3. CASE StrayEnds(d)
    <3>1. /\ call'[Stray(d)] = Idle
          /\ \A u \in Threads : u # Stray(d) => call'[u] = call[u]
      BY <2>1, <2>3, StrayEndFacts
    <3>. QED  BY <1>1, <2>1, <3>1, IdleFacts
  <2>. QED  BY <1>2, <2>2, <2>3 DEF Ended, Ends
<1>3. ASSUME NEW t \in Threads, NEW step \in InDelete \cup InPut, Goes(t, step)
      PROVE  StepsFit'
  <2>1. /\ call'[t].op = call[t].op /\ call'[t].step = step
        /\ \A u \in Threads : u # t => call'[u] = call[u]
    BY <1>3, GoFacts
  <2>2. \/ call[t].op = "delete_vm" /\ step \in InDelete
        \/ call[t].op = "upload_iso" /\ step \in InPut
    BY <1>3 DEF Goes
  <2>. QED  BY <2>1, <2>2 DEF Places, StepsFit, InDelete, InPut
<1>4. ASSUME NEW d \in Deployments, NEW op \in Ops, Turns(d, op)
      PROVE  StepsFit'
  BY <1>1, <1>4, TurnFacts, JobsAndStrays
<1>5. ASSUME NEW d \in Deployments, NEW m \in Machines, Gets(d, m)
      PROVE  StepsFit'
  BY <1>1, <1>5, GetFacts, JobsAndStrays
<1>6. ASSUME NEW d \in Deployments, Abandons(d)
      PROVE  StepsFit'
  <2>1. ASSUME NEW t \in Threads
        PROVE  /\ call'[t].step \in InDelete => call'[t].op = "delete_vm"
               /\ call'[t].step \in InPut => call'[t].op = "upload_iso"
    <3>1. /\ call'[Job(d)].step = "begin"
          /\ call'[Stray(d)] = Idle \/ call'[Stray(d)] = call[Job(d)]
          /\ t # Job(d) /\ t # Stray(d) => call'[t] = call[t]
      BY <1>6, AbandonFacts
    <3>. QED  BY <3>1, JobsAndStrays, IdleFacts DEF Places, StepsFit, InDelete, InPut
  <2>. QED  BY <2>1 DEF StepsFit
<1>7. ASSUME NEW d \in Deployments, Restarts(d)
      PROVE  StepsFit'
  BY <1>1, <1>7, RestartFacts, JobsAndStrays
<1>8. CASE UNCHANGED <<row, call>>
  BY <1>8 DEF Places, StepsFit
<1>. QED  BY <1>2, <1>3, <1>4, <1>5, <1>6, <1>7, <1>8 DEF CallMoves

JobFits(d) ==
    LET c == call[Job(d)]
    IN  /\ c.vm = row[d].vm /\ c.op # "idle"
        /\ c.op \in NoMachineYet => c.vm = None
        /\ c.op \in WithMachine => c.vm # None
        /\ row[d].keep => c.vm # None
        /\ c.op \in Building \cup Ejecting \cup {"setup", "delete_vm"} => ~row[d].keep
        /\ c.op \in Tooling \cup {"install_tools", "kept", "done"} => row[d].keep

LEMMA JobFitsDef == (\A d \in Deployments : JobFits(d)) <=> JobsFit /\ KeepFits
BY DEF JobFits, JobsFit, KeepFits

LEMMA JobFitsStep ==
    ASSUME TypeOK, Places, CallMoves, NEW e \in Deployments
    PROVE  JobFits(e)'
<1>. DEFINE c == call[Job(e)]
<1>1. JobFits(e)
  BY JobFitsDef DEF Places
<1>2. ASSUME call'[Job(e)].op = c.op, call'[Job(e)].vm = c.vm, row'[e] = row[e]
      PROVE  JobFits(e)'
  BY <1>1, <1>2 DEF JobFits
<1>3. ASSUME NEW d \in Deployments, d # e
      PROVE  Job(d) # Job(e) /\ Stray(d) # Job(e) /\ Job(e) \in Threads
  BY <1>3, JobsAndStrays
<1>4. ASSUME NEW ok \in BOOLEAN, JobMoves(e, ok), c.op \in Calls, ok => c.op \notin Unawaited
      PROVE  JobFits(e)'
  <2>1. PICK next \in Ops :
           /\ Follows(e, c.op, next)
           /\ call'[Job(e)].op = next /\ call'[Job(e)].vm = row'[e].vm
           /\ row'[e].vm = IF c.op = "delete_vm" THEN None ELSE row[e].vm
           /\ row'[e].keep = (row[e].keep \/ c.op = "delete_answer")
    BY <1>4, JobMoveFacts
  <2>. USE <1>1, <1>4, <2>1 DEF Follows, JobFits, NoMachineYet, WithMachine, Calls, MachineCalls,
           Lasting, Building, Ejecting, Tooling, Failing, BestEffort
  <2>2. next # "idle" /\ (next \in NoMachineYet => row'[e].vm = None)
    OBVIOUS
  <2>3. next \in WithMachine => row'[e].vm # None
    OBVIOUS
  <2>4. row'[e].keep => row'[e].vm # None
    OBVIOUS
  <2>5. next \in Building \cup Ejecting \cup {"setup", "delete_vm"} => ~row'[e].keep
    OBVIOUS
  <2>6. next \in Tooling \cup {"install_tools", "kept", "done"} => row'[e].keep
    OBVIOUS
  <2>. QED  BY <2>1, <2>2, <2>3, <2>4, <2>5, <2>6
<1>5. ASSUME NEW t \in Threads, NEW ok \in BOOLEAN, Ended(t, ok)
      PROVE  JobFits(e)'
  <2>. DEFINE d == t[1]
  <2>1. d \in Deployments
    BY JobsAndStrays
  <2>2. CASE JobMoves(d, ok) /\ t = Job(d)
    <3>1. CASE d = e
      BY <1>4, <1>5, <2>2, <3>1 DEF Ended
    <3>2. CASE d # e
      <4>1. call'[Job(e)] = call[Job(e)] /\ row'[e] = row[e]
        BY <1>3, <1>5, <2>1, <2>2, <3>2, JobMoveFacts DEF Ended
      <4>. QED  BY <1>2, <4>1
    <3>. QED  BY <3>1, <3>2
  <2>3. CASE StrayEnds(d)
    <3>1. call'[Job(e)] = call[Job(e)] /\ row'[e] = row[e]
      BY <2>1, <2>3, StrayEndFacts, JobsAndStrays
    <3>. QED  BY <1>2, <3>1
  <2>. QED  BY <1>5, <2>2, <2>3 DEF Ended, Ends
<1>6. ASSUME NEW t \in Threads, NEW step \in InDelete \cup InPut, Goes(t, step)
      PROVE  JobFits(e)'
  BY <1>2, <1>6, GoFacts, JobsAndStrays
<1>7. ASSUME NEW d \in Deployments, NEW op \in Ops, Turns(d, op)
      PROVE  JobFits(e)'
  <2>1. /\ call'[Job(d)].op = op /\ call'[Job(d)].vm = row[d].vm /\ row' = row
        /\ \A t \in Threads : t # Job(d) => call'[t] = call[t]
    BY <1>7, TurnFacts
  <2>2. CASE d = e
    <3>1. \/ c.op = "setup" /\ op = "detach_iso"
          \/ c.op \in {"setup", "abandoned"} /\ op = "fail_answer"
          \/ /\ c.op \in {"install_tools", "shutdown", "check_power", "kept"}
             /\ op \in Tooling \cup {"done"}
      BY <1>7, <2>2 DEF Turns
    <3>2. c.op # "abandoned" => c.op \in WithMachine
      BY <3>1 DEF WithMachine, Tooling
    <3>3. op # "fail_answer" => row[e].vm # None
      BY <1>1, <3>1, <3>2 DEF JobFits
    <3>4. op = "detach_iso" => ~row[e].keep
      BY <1>1, <3>1 DEF JobFits, Tooling
    <3>5. op \notin {"detach_iso", "fail_answer"} => row[e].keep
      BY <1>1, <3>1 DEF JobFits, Tooling
    <3>6. op \in Tooling \cup {"detach_iso", "fail_answer", "done"}
      BY <3>1
    <3>. QED  BY <1>1, <2>1, <2>2, <3>3, <3>4, <3>5, <3>6 DEF JobFits, NoMachineYet, WithMachine,
              MachineCalls, Lasting, Calls, Building, Ejecting, Tooling, Failing
  <2>3. CASE d # e
    BY <1>2, <1>3, <2>1, <2>3
  <2>. QED  BY <2>2, <2>3
<1>8. ASSUME NEW d \in Deployments, NEW m \in Machines, Gets(d, m),
             Creates(Job(d), m)
      PROVE  JobFits(e)'
  <2>1. CASE d = e
    <3>1. ~row[e].keep
      BY <1>1, <1>8, <2>1 DEF JobFits, Building, Creates, At
    <3>2. m # None
      BY HostAssumption
    <3>3. "attach_iso" \notin NoMachineYet
      BY DEF NoMachineYet
    <3>4. "attach_iso" \notin Tooling \cup {"install_tools", "kept", "done"}
      BY DEF Tooling
    <3>. QED  BY <1>8, <2>1, <3>1, <3>2, <3>3, <3>4, GetFacts DEF JobFits
  <2>2. CASE d # e
    BY <1>2, <1>3, <1>8, <2>2, GetFacts
  <2>. QED  BY <2>1, <2>2
<1>9. ASSUME NEW d \in Deployments, Abandons(d)
      PROVE  JobFits(e)'
  <2>1. /\ call'[Job(d)].op = "abandoned" /\ call'[Job(d)].vm = row[d].vm /\ row' = row
        /\ \A t \in Threads : t # Job(d) /\ t # Stray(d) => call'[t] = call[t]
    BY <1>9, AbandonFacts
  <2>2. CASE d = e
    BY <1>1, <2>1, <2>2 DEF JobFits, NoMachineYet, WithMachine, MachineCalls, Lasting, Calls,
       Building, Ejecting, Tooling, Failing
  <2>3. CASE d # e
    BY <1>2, <1>3, <2>1, <2>3
  <2>. QED  BY <2>2, <2>3
<1>10. ASSUME NEW d \in Deployments, Restarts(d), call[Job(d)].op = "failed"
       PROVE  JobFits(e)'
  <2>1. CASE d = e
    <3>1. row[e].vm = None
      BY <1>1, <1>10, <2>1 DEF JobFits, NoMachineYet
    <3>2. "upload_answer" \notin WithMachine /\ "upload_answer" \notin Tooling
      BY DEF WithMachine, MachineCalls, Lasting, Calls, Building, Ejecting, Tooling, Failing
    <3>. QED  BY <1>10, <2>1, <3>1, <3>2, RestartFacts DEF JobFits
  <2>2. CASE d # e
    BY <1>2, <1>3, <1>10, <2>2, RestartFacts
  <2>. QED  BY <2>1, <2>2
<1>11. CASE UNCHANGED <<row, call>>
  BY <1>2, <1>11
<1>. QED  BY <1>5, <1>6, <1>7, <1>8, <1>9, <1>10, <1>11 DEF CallMoves

-----------------------------------------------------------------------------
(* What a step does to the files and to what has happened. *)

FileMoves ==
    \/ UNCHANGED files_
    \/ image' \in {image, "partial", "whole"} /\ answer' = answer
    \/ \E t \in Threads :
          /\ call[t].op = "upload_answer"
          /\ answer' = answer \cup {t[1]} /\ image' = image
    \/ \E t \in Threads :
          /\ call[t].op \in {"delete_answer", "fail_answer"}
          /\ answer' \in {answer, answer \ {t[1]}} /\ image' = image

CounterMoves ==
    /\ retries' \in {retries, retries + 1} /\ (retries' # retries => retries < MaxRetries)
    /\ Quiet \/ \E kind \in Kinds : Incident(kind)

LEMMA FileMovesHold ==
    ASSUME [Next]_vars
    PROVE  FileMoves
<1>1. ASSUME NEW t \in Threads, Driver(t)
      PROVE  FileMoves
  <2>1. CASE \/ NothingToDo(t) \/ CallFails(t) \/ Refused(t) \/ SetBootOrder(t) \/ CreateVm(t)
             \/ FindToDelete(t) \/ AnswerNotTaken(t) \/ ProbeImage(t) \/ BreakPut(t)
    <3>1. UNCHANGED files_
      BY <2>1 DEF NothingToDo, CallFails, Refused, SetBootOrder, FindToDelete, CreateVm,
         AnswerNotTaken, ProbeImage, BreakPut, Raises
    <3>. QED  BY <3>1 DEF FileMoves
  <2>2. CASE Mount(t)
    <3>1. UNCHANGED files_
      BY <2>2, MountFacts DEF Reconfigure
    <3>. QED  BY <3>1 DEF FileMoves
  <2>3. CASE PowerOn(t) \/ PowerOffToDelete(t) \/ Destroy(t) \/ DeleteFolder(t)
    BY <2>3 DEF PowerOn, PowerOffToDelete, Destroy, DeleteFolder, FileMoves
  <2>4. CASE UploadAnswer(t)
    BY <2>4 DEF UploadAnswer, At, FileMoves
  <2>5. CASE StartPut(t) \/ EndPut(t)
    BY <2>5 DEF StartPut, EndPut, FileMoves
  <2>6. CASE DeleteAnswer(t)
    BY <2>6 DEF DeleteAnswer, At, FileMoves
  <2>. QED  BY <1>1, <2>1, <2>2, <2>3, <2>4, <2>5, <2>6 DEF Driver, Mount
<1>2. ASSUME NEW d \in Deployments, Pipeline(d)
      PROVE  FileMoves
  <2>1. UNCHANGED files_
    BY <1>2 DEF Pipeline, SetupEnds, InstallTools, AwaitPowerOff, CheckPower, Abandon, CleanUp,
       Retry, OperatorPowers, Waits
  <2>. QED  BY <2>1 DEF FileMoves
<1>3. ASSUME NEW m \in Machines, Guest(m)
      PROVE  FileMoves
  BY <1>3 DEF Guest, GuestSpecializes, GuestShutsDown, FileMoves
<1>4. CASE UNCHANGED vars
  BY <1>4 DEF vars, FileMoves
<1>. QED  BY <1>1, <1>2, <1>3, <1>4 DEF Next

LEMMA CounterMovesHold ==
    ASSUME [Next]_vars
    PROVE  CounterMoves
<1>1. ASSUME retries' = retries, Quiet \/ \E kind \in Kinds : Incident(kind)
      PROVE  CounterMoves
  BY <1>1 DEF CounterMoves
<1>2. ASSUME NEW t \in Threads, Driver(t)
      PROVE  CounterMoves
  <2>1. CASE Returns(t)
    BY <1>1, <2>1 DEF Returns, Kinds
  <2>2. CASE UNCHANGED counters
    BY <1>1, <2>2 DEF counters, Quiet
  <2>3. CASE CallFails(t)
    BY <1>1, <2>3 DEF CallFails, Raises, Kinds
  <2>4. CASE Refused(t)
    BY <1>1, <2>4 DEF Refused, Raises
  <2>5. CASE CreateVm(t)
    BY <1>1, <2>5 DEF CreateVm, Kinds
  <2>6. CASE AnswerNotTaken(t) \/ BreakPut(t)
    BY <1>1, <2>6 DEF AnswerNotTaken, BreakPut, Kinds
  <2>7. CASE Mount(t)
    BY <2>1, <2>7, MountFacts DEF Reconfigure
  <2>8. CASE NothingToDo(t) \/ ProbeImage(t) \/ StartPut(t) \/ DeleteAnswer(t)
    BY <2>2, <2>8 DEF NothingToDo, ProbeImage, StartPut, DeleteAnswer
  <2>9. CASE FindToDelete(t) \/ PowerOffToDelete(t) \/ Destroy(t) \/ DeleteFolder(t)
    BY <2>2, <2>9 DEF FindToDelete, PowerOffToDelete, Destroy, DeleteFolder
  <2>10. CASE SetBootOrder(t) \/ PowerOn(t) \/ UploadAnswer(t) \/ EndPut(t)
    BY <2>1, <2>10 DEF SetBootOrder, PowerOn, UploadAnswer, EndPut
  <2>. QED  BY <1>2, <2>3, <2>4, <2>5, <2>6, <2>7, <2>8, <2>9, <2>10 DEF Driver, Mount
<1>3. ASSUME NEW d \in Deployments, Pipeline(d)
      PROVE  CounterMoves
  <2>1. CASE SetupEnds(d) \/ AwaitPowerOff(d) \/ CheckPower(d) \/ Abandon(d) \/ CleanUp(d)
    BY <1>1, <2>1 DEF SetupEnds, AwaitPowerOff, CheckPower, Abandon, CleanUp, Waits, Kinds
  <2>2. CASE InstallTools(d)
    BY <1>1, <2>2 DEF InstallTools, counters, Quiet
  <2>3. CASE OperatorPowers(d)
    BY <1>1, <2>3 DEF OperatorPowers, Kinds
  <2>4. CASE Retry(d)
    BY <2>4 DEF Retry, CounterMoves
  <2>. QED  BY <1>3, <2>1, <2>2, <2>3, <2>4 DEF Pipeline
<1>4. ASSUME NEW m \in Machines, Guest(m)
      PROVE  CounterMoves
  BY <1>1, <1>4 DEF Guest, GuestSpecializes, GuestShutsDown, counters, Quiet
<1>5. CASE UNCHANGED vars
  BY <1>1, <1>5 DEF vars, counters, Quiet
<1>. QED  BY <1>2, <1>3, <1>4, <1>5 DEF Next

LEMMA CounterFacts ==
    ASSUME CounterTypes, CounterMoves
    PROVE  CounterTypes' /\ happened \subseteq happened'
<1>1. incidents' \in 0 .. MaxIncidents /\ happened \subseteq happened' /\ happened' \subseteq Incidents
  BY HostAssumption DEF CounterTypes, CounterMoves, Incident, Quiet
<1>2. retries' \in 0 .. MaxRetries
  BY HostAssumption DEF CounterTypes, CounterMoves
<1>. QED  BY <1>1, <1>2 DEF CounterTypes

LEMMA FilesTyped ==
    ASSUME FileTypes, FileMoves
    PROVE  FileTypes'
BY JobsAndStrays DEF FileTypes, FileMoves, files_

StrayFits(d) ==
    LET s == call[Stray(d)]
    IN  /\ s.op \in Lasting \cup {"idle"}
        /\ s.op = "idle" => s = Idle
        /\ s.op \in NoMachineYet => s.vm = None
        /\ s.op \in WithMachine => s.vm # None
        /\ ~Without({"cancel"}) \/ s = Idle

LEMMA IdleFits ==
    ASSUME NEW e \in Deployments, call'[Stray(e)] = Idle
    PROVE  StrayFits(e)'
BY IdleFacts DEF StrayFits, NoMachineYet, WithMachine, MachineCalls, Lasting, Calls, Building,
   Ejecting, Tooling, Failing

LEMMA StrayFitsStep ==
    ASSUME TypeOK, Places, CallMoves, happened \subseteq happened', NEW e \in Deployments
    PROVE  StrayFits(e)'
<1>. DEFINE s == call[Stray(e)]
<1>1. StrayFits(e)
  BY DEF StrayFits, Places, StraysFit
<1>2. Without({"cancel"})' => Without({"cancel"})
  BY DEF Without
<1>3. ASSUME call'[Stray(e)] = s
      PROVE  StrayFits(e)'
  BY <1>1, <1>2, <1>3 DEF StrayFits
<1>4. ASSUME NEW d \in Deployments
      PROVE  Job(d) # Stray(e) /\ Stray(e) \in Threads /\ (d # e => Stray(d) # Stray(e))
  BY JobsAndStrays
<1>5. ASSUME NEW t \in Threads, NEW ok \in BOOLEAN, Ended(t, ok)
      PROVE  StrayFits(e)'
  <2>. DEFINE d == t[1]
  <2>1. d \in Deployments
    BY JobsAndStrays
  <2>2. CASE JobMoves(d, ok) /\ t = Job(d)
    BY <1>3, <1>4, <1>5, <2>1, <2>2, JobMoveFacts DEF Ended
  <2>3. CASE StrayEnds(d)
    BY <1>3, <1>4, <2>1, <2>3, StrayEndFacts, IdleFits
  <2>. QED  BY <1>5, <2>2, <2>3 DEF Ended, Ends
<1>6. ASSUME NEW t \in Threads, NEW step \in InDelete \cup InPut, Goes(t, step)
      PROVE  StrayFits(e)'
  <2>1. CASE t # Stray(e)
    BY <1>3, <1>6, <2>1, GoFacts, JobsAndStrays
  <2>2. CASE t = Stray(e)
    <3>1. call'[Stray(e)].op = s.op /\ call'[Stray(e)].vm = s.vm
      BY <1>6, <2>2, GoFacts
    <3>2. s.op # "idle" /\ s # Idle
      BY <1>6, <2>2, IdleFacts DEF Goes
    <3>. QED  BY <1>1, <1>2, <3>1, <3>2 DEF StrayFits
  <2>. QED  BY <2>1, <2>2
<1>7. ASSUME NEW d \in Deployments, NEW op \in Ops, Turns(d, op)
      PROVE  StrayFits(e)'
  BY <1>3, <1>4, <1>7, TurnFacts
<1>8. ASSUME NEW d \in Deployments, NEW m \in Machines, Gets(d, m)
      PROVE  StrayFits(e)'
  BY <1>3, <1>4, <1>8, GetFacts
<1>9. ASSUME NEW d \in Deployments, Abandons(d)
      PROVE  StrayFits(e)'
  <2>1. CASE d # e
    BY <1>3, <1>4, <1>9, <2>1, AbandonFacts
  <2>2. CASE d = e
    <3>. DEFINE c == call[Job(e)]
    <3>1. \/ call'[Stray(e)] = Idle
          \/ call'[Stray(e)] = c /\ c.op \in Lasting /\ ~Without({"cancel"})'
      BY <1>9, <2>2, AbandonFacts
    <3>2. JobFits(e)
      BY JobFitsDef DEF Places
    <3>3. CASE call'[Stray(e)] = c /\ c.op \in Lasting /\ ~Without({"cancel"})'
      BY <3>2, <3>3 DEF JobFits, StrayFits
    <3>. QED  BY <3>1, <3>3, IdleFits
  <2>. QED  BY <2>1, <2>2
<1>10. ASSUME NEW d \in Deployments, Restarts(d)
       PROVE  StrayFits(e)'
  BY <1>3, <1>4, <1>10, RestartFacts
<1>11. CASE UNCHANGED <<row, call>>
  BY <1>3, <1>11
<1>. QED  BY <1>5, <1>6, <1>7, <1>8, <1>9, <1>10, <1>11 DEF CallMoves

LEMMA TypesAndPlaces ==
    ASSUME TypeOK, Places, [Next]_vars
    PROVE  /\ TypeOK' /\ Places' /\ CallMoves /\ MachineMoves /\ FileMoves
           /\ hostname' = hostname /\ happened \subseteq happened'
<1>1. CallMoves /\ MachineMoves /\ FileMoves /\ hostname' = hostname /\ CounterMoves
  BY Moves, MachineMovesHold, FileMovesHold, CounterMovesHold DEF Places
<1>2. CounterTypes' /\ happened \subseteq happened'
  BY <1>1, CounterFacts, TypeParts
<1>3. MachineTypes'
  <2>1. \A d \in Deployments : row[d].vm \in Machines \cup {None}
    BY CallTypes DEF RowRecords
  <2>2. \A d \in Deployments : call[Job(d)].op = "install_tools" => row[d].vm # None
    BY DEF Places, JobsFit, WithMachine
  <2>. QED  BY <1>1, <2>1, <2>2, MachinesTyped, TypeParts
<1>4. TypeOK'
  <2>1. hostname' \in [Deployments -> Names]
    BY <1>1, TypeParts
  <2>2. TypeOK' <=> /\ hostname' \in [Deployments -> Names]
                    /\ call' \in [Threads -> CallRecords] /\ row' \in [Deployments -> RowRecords]
                    /\ MachineTypes' /\ FileTypes' /\ CounterTypes'
    BY DEF TypeOK, CallRecords, RowRecords, Steps, MachineTypes, FileTypes, CounterTypes
  <2>. QED  BY <1>1, <1>2, <1>3, <2>1, <2>2, CallsTyped, FilesTyped, TypeParts
<1>5. StepsFit'
  BY <1>1, StepsFitStep
<1>6. \A d \in Deployments : JobFits(d)'
  BY <1>1, JobFitsStep
<1>7. \A d \in Deployments : StrayFits(d)'
  BY <1>1, <1>2, StrayFitsStep
<1>8. JobsFit' /\ KeepFits'
  BY <1>6 DEF JobFits, JobsFit, KeepFits
<1>9. StraysFit'
  BY <1>7 DEF StrayFits, StraysFit
<1>. QED  BY <1>1, <1>2, <1>4, <1>5, <1>8, <1>9 DEF Places

-----------------------------------------------------------------------------
(* Ownership *)

(* A machine comes, goes, or stays with its owner. *)
LEMMA LifeMoves ==
    ASSUME TypeOK, MachineMoves, NEW m \in Machines
    PROVE  \/ life'[m] = life[m] /\ owner'[m] = owner[m]
           \/ \E t \in Threads : Creates(t, m) /\ life'[m] = "there" /\ owner'[m] = t[1]
           \/ There(m) /\ life'[m] = "gone" /\ owner'[m] = None
<1>. USE TypeParts DEF MachineTypes
<1>1. ASSUME NEW t \in Threads, NEW n \in Machines, Creates(t, n)
      PROVE  \/ life'[m] = life[m] /\ owner'[m] = owner[m]
             \/ Creates(t, m) /\ life'[m] = "there" /\ owner'[m] = t[1]
  BY <1>1 DEF Creates
<1>2. ASSUME NEW t \in Threads, NEW n \in Machines, Destroys(t, n)
      PROVE  \/ life'[m] = life[m] /\ owner'[m] = owner[m]
             \/ There(m) /\ life'[m] = "gone" /\ owner'[m] = None
  BY <1>2 DEF Destroys
<1>3. ASSUME UNCHANGED <<life, owner>>
      PROVE  life'[m] = life[m] /\ owner'[m] = owner[m]
  BY <1>3
<1>. QED  BY <1>1, <1>2, <1>3 DEF MachineMoves, Refits, PowersOn, PowersOff, Empties, Specializes,
          Closes, machines_

(* What a thread has it had before, or its job had, or it is new. *)
LEMMA HasMoves ==
    ASSUME TypeOK, Places, CallMoves, NEW t \in Threads, NEW m \in Machines, Has(t, m)'
    PROVE  \/ Has(t, m)
           \/ t = Stray(t[1]) /\ Has(Job(t[1]), m)
           \/ t = Job(t[1]) /\ Creates(t, m) /\ Gets(t[1], m)
<1>. USE HostAssumption DEF Has
<1>1. ASSUME NEW d \in Deployments
      PROVE  /\ Job(d) \in Threads /\ Stray(d) \in Threads /\ Job(d)[1] = d /\ Stray(d)[1] = d
             /\ call[Job(d)].vm = row[d].vm
  BY JobsAndStrays DEF Places, JobsFit
<1>2. ASSUME call'[t] = call[t]
      PROVE  Has(t, m)
  BY <1>2
<1>3. ASSUME NEW u \in Threads, NEW ok \in BOOLEAN, Ended(u, ok)
      PROVE  Has(t, m)
  <2>. DEFINE d == u[1]
  <2>1. d \in Deployments
    BY JobsAndStrays
  <2>2. CASE JobMoves(d, ok) /\ u = Job(d)
    <3>1. /\ call'[Job(d)].vm \in {None, row[d].vm}
          /\ t # Job(d) => call'[t] = call[t]
      BY <1>3, <2>1, <2>2, JobMoveFacts DEF Ended
    <3>. QED  BY <1>1, <1>2, <2>1, <3>1
  <2>3. CASE StrayEnds(d)
    BY <1>2, <2>1, <2>3, StrayEndFacts, IdleFacts
  <2>. QED  BY <1>3, <2>2, <2>3 DEF Ended, Ends
<1>4. ASSUME NEW u \in Threads, NEW step \in InDelete \cup InPut, Goes(u, step)
      PROVE  Has(t, m)
  BY <1>2, <1>4, GoFacts
<1>5. ASSUME NEW d \in Deployments, NEW op \in Ops, Turns(d, op)
      PROVE  Has(t, m)
  BY <1>1, <1>2, <1>5, TurnFacts
<1>6. ASSUME NEW d \in Deployments, NEW n \in Machines, Creates(Job(d), n), Gets(d, n)
      PROVE  Has(t, m) \/ (t = Job(t[1]) /\ Creates(t, m) /\ Gets(t[1], m))
  BY <1>1, <1>2, <1>6, GetFacts
<1>7. ASSUME NEW d \in Deployments, Abandons(d)
      PROVE  Has(t, m) \/ (t = Stray(t[1]) /\ Has(Job(t[1]), m))
  <2>1. /\ call'[Job(d)].vm = row[d].vm
        /\ call'[Stray(d)] = Idle \/ call'[Stray(d)] = call[Job(d)]
        /\ t # Job(d) /\ t # Stray(d) => call'[t] = call[t]
    BY <1>7, AbandonFacts
  <2>. QED  BY <1>1, <1>2, <2>1, IdleFacts
<1>8. ASSUME NEW d \in Deployments, Restarts(d)
      PROVE  Has(t, m)
  <2>1. /\ call'[Job(d)].vm = row[d].vm
        /\ t # Job(d) => call'[t] = call[t]
    BY <1>8, RestartFacts
  <2>. QED  BY <1>1, <1>2, <2>1
<1>9. CASE UNCHANGED <<row, call>>
  BY <1>2, <1>9
<1>. QED  BY <1>3, <1>4, <1>5, <1>6, <1>7, <1>8, <1>9 DEF CallMoves

LEMMA MachinesFitStep ==
    ASSUME TypeOK, Places, Ownership, MachineMoves
    PROVE  MachinesFit'
<1>. SUFFICES ASSUME NEW m \in Machines
              PROVE  /\ life'[m] = "there" => owner'[m] \in Deployments
                     /\ life'[m] = "fresh" => /\ power'[m] = "off" /\ drive'[m] = NoDrives
                                              /\ m \notin answering' /\ m \notin closing'
  BY DEF MachinesFit
<1>. USE TypeParts DEF MachineTypes
<1>1. life'[m] = "there" => owner'[m] \in Deployments
  BY LifeMoves, JobsAndStrays DEF Ownership, MachinesFit
<1>2. ASSUME life'[m] = "fresh"
      PROVE  /\ power'[m] = "off" /\ drive'[m] = NoDrives
             /\ m \notin answering' /\ m \notin closing'
  <2>1. life[m] = "fresh" /\ ~There(m)
    BY <1>2, LifeMoves DEF There
  <2>2. power[m] = "off" /\ drive[m] = NoDrives /\ m \notin answering /\ m \notin closing
    BY <2>1 DEF Ownership, MachinesFit
  <2>3. CASE \E t \in Threads, n \in Machines : Creates(t, n)
    BY <2>2, <2>3 DEF Creates
  <2>4. CASE \E t \in Threads, n \in Machines, k \in Drives, medium \in Media :
                Refits(t, n, k, medium)
    BY <2>1, <2>2, <2>4 DEF Refits, Accepts
  <2>5. CASE \E n \in Machines : PowersOn(n) \/ PowersOff(n)
    BY <2>1, <2>2, <2>5 DEF PowersOn, PowersOff
  <2>6. CASE \E t \in Threads, n \in Machines : Destroys(t, n)
    BY <2>1, <2>2, <2>6 DEF Destroys
  <2>7. CASE \E t \in Threads : Empties(t)
    BY <2>2, <2>7 DEF Empties
  <2>8. CASE \E n \in Machines : Specializes(n)
    BY <2>1, <2>2, <2>8 DEF Specializes
  <2>9. ASSUME NEW d \in Deployments, Closes(d)
        PROVE  /\ power'[m] = "off" /\ drive'[m] = NoDrives
               /\ m \notin answering' /\ m \notin closing'
    <3>1. row[d].vm # m
      BY <2>1, JobsAndStrays DEF Places, JobsFit, Ownership, Owned, Has
    <3>. QED  BY <2>2, <2>9, <3>1 DEF Closes
  <2>10. CASE UNCHANGED machines_
    BY <2>2, <2>10 DEF machines_
  <2>. QED  BY <2>3, <2>4, <2>5, <2>6, <2>7, <2>8, <2>9, <2>10 DEF MachineMoves
<1>. QED  BY <1>1, <1>2

LEMMA OwnedStep ==
    ASSUME TypeOK, Places, Ownership, CallMoves, MachineMoves
    PROVE  Owned'
<1>. SUFFICES ASSUME NEW t \in Threads, NEW m \in Machines, Has(t, m)'
              PROVE  life'[m] # "fresh" /\ (life'[m] = "there" => owner'[m] = t[1])
  BY DEF Owned
<1>1. ASSUME NEW u \in Threads, Has(u, m), u[1] = t[1]
      PROVE  life'[m] # "fresh" /\ (life'[m] = "there" => owner'[m] = t[1])
  <2>1. life[m] # "fresh" /\ (life[m] = "there" => owner[m] = t[1])
    BY <1>1 DEF Ownership, Owned
  <2>. QED  BY <2>1, LifeMoves DEF Creates
<1>2. CASE Creates(t, m)
  BY <1>2, TypeParts DEF Creates, MachineTypes
<1>. QED  BY <1>1, <1>2, HasMoves, JobsAndStrays

LEMMA ApartStep ==
    ASSUME TypeOK, Places, Ownership, CallMoves
    PROVE  Apart'
<1>. SUFFICES ASSUME NEW d \in Deployments, NEW m \in Machines, Has(Job(d), m)', Has(Stray(d), m)'
              PROVE  /\ row'[d].keep \/ call'[Job(d)].op \in {"abandoned", "fail_answer", "delete_vm"}
                     /\ row'[d].keep => call'[Stray(d)].op \notin Building
  BY DEF Apart
<1>. DEFINE Goal == /\ row'[d].keep \/ call'[Job(d)].op \in {"abandoned", "fail_answer", "delete_vm"}
                    /\ row'[d].keep => call'[Stray(d)].op \notin Building
            c == call[Job(d)]
<1>1. /\ Job(d) \in Threads /\ Stray(d) \in Threads /\ Job(d)[1] = d /\ Stray(d)[1] = d
      /\ Job(d) # Stray(d)
      /\ \A e \in Deployments : e # d => /\ Job(e) # Job(d) /\ Stray(e) # Job(d)
                                         /\ Job(e) # Stray(d) /\ Stray(e) # Stray(d)
      /\ \A e \in Deployments : Job(e) # Stray(d) /\ Stray(e) # Job(d)
  BY JobsAndStrays
<1>2. c.vm = row[d].vm
  BY DEF Places, JobsFit
<1>3. ASSUME call'[Job(d)] = c, row'[d] = row[d], call'[Stray(d)].vm = call[Stray(d)].vm,
             call'[Stray(d)].op = call[Stray(d)].op
      PROVE  Goal
  BY <1>3 DEF Ownership, Apart, Has
<1>4. ASSUME call'[Stray(d)] = Idle
      PROVE  FALSE
  BY <1>4, IdleFacts, HostAssumption DEF Has
<1>5. ASSUME NEW t \in Threads, NEW ok \in BOOLEAN, Ended(t, ok)
      PROVE  Goal
  <2>. DEFINE e == t[1]
  <2>1. e \in Deployments
    BY JobsAndStrays
  <2>2. CASE JobMoves(e, ok) /\ t = Job(e) /\ e = d
    <3>1. PICK next \in Ops :
             /\ Follows(d, c.op, next)
             /\ call'[Job(d)].op = next /\ call'[Job(d)].vm = row'[d].vm
             /\ row'[d].vm = IF c.op = "delete_vm" THEN None ELSE row[d].vm
             /\ row'[d].keep = (row[d].keep \/ c.op = "delete_answer")
             /\ call'[Stray(d)] = call[Stray(d)]
      BY <1>1, <1>5, <2>2, JobMoveFacts DEF Ended
    <3>2. c.op # "delete_vm" /\ row'[d].vm = row[d].vm
      BY <3>1, HostAssumption DEF Has
    <3>3. Has(Job(d), m) /\ Has(Stray(d), m)
      BY <1>2, <3>1, <3>2 DEF Has
    <3>4. /\ row[d].keep \/ c.op \in {"abandoned", "fail_answer", "delete_vm"}
          /\ row[d].keep => call[Stray(d)].op \notin Building
      BY <3>3 DEF Ownership, Apart
    <3>5. c.op # "delete_answer"
      BY <3>4 DEF Places, KeepFits, Ejecting
    <3>6. row[d].keep \in BOOLEAN
      BY CallTypes DEF RowRecords
    <3>7. CASE row[d].keep
      BY <3>1, <3>4, <3>5, <3>7
    <3>8. CASE ~row[d].keep
      <4>1. c.op = "fail_answer"
        BY <1>5, <2>2, <3>2, <3>4, <3>8 DEF Ended, Calls, Building, Ejecting, Tooling, Failing
      <4>2. next = "delete_vm"
        <5>1. c.op \in BestEffort /\ row[d].vm # None
          BY <3>2, <3>1, <4>1, HostAssumption DEF BestEffort, Failing, Has
        <5>. QED  BY <3>1, <3>8, <4>1, <5>1 DEF Follows
      <4>. QED  BY <3>1, <3>5, <3>8, <4>2
    <3>. QED  BY <3>7, <3>8
  <2>3. CASE JobMoves(e, ok) /\ t = Job(e) /\ e # d
    BY <1>1, <1>3, <1>5, <2>1, <2>3, JobMoveFacts DEF Ended
  <2>4. CASE StrayEnds(e)
    BY <1>1, <1>3, <1>4, <2>1, <2>4, StrayEndFacts
  <2>. QED  BY <1>5, <2>2, <2>3, <2>4 DEF Ended, Ends
<1>6. ASSUME NEW t \in Threads, NEW step \in InDelete \cup InPut, Goes(t, step)
      PROVE  Goal
  <2>1. \A u \in Threads : call'[u].op = call[u].op /\ call'[u].vm = call[u].vm
    BY <1>6, GoFacts
  <2>2. row' = row
    BY <1>6, GoFacts
  <2>. QED  BY <1>1, <2>1, <2>2 DEF Ownership, Apart, Has
<1>7. ASSUME NEW e \in Deployments, NEW op \in Ops, Turns(e, op)
      PROVE  Goal
  <2>1. CASE e # d
    BY <1>1, <1>3, <1>7, <2>1, TurnFacts
  <2>2. CASE e = d
    <3>1. /\ call'[Job(d)].op = op /\ call'[Job(d)].vm = row[d].vm /\ row' = row
          /\ call'[Stray(d)] = call[Stray(d)]
      BY <1>1, <1>7, <2>2, TurnFacts
    <3>2. /\ row[d].keep \/ c.op \in {"abandoned", "fail_answer", "delete_vm"}
          /\ row[d].keep => call[Stray(d)].op \notin Building
      BY <1>2, <3>1 DEF Ownership, Apart, Has
    <3>3. row[d].keep \/ op = "fail_answer"
      BY <1>7, <2>2, <3>2 DEF Turns
    <3>. QED  BY <3>1, <3>2, <3>3
  <2>. QED  BY <2>1, <2>2
<1>8. ASSUME NEW e \in Deployments, NEW n \in Machines, Creates(Job(e), n), Gets(e, n)
      PROVE  Goal
  <2>1. CASE e # d
    BY <1>1, <1>3, <1>8, <2>1, GetFacts
  <2>2. CASE e = d
    <3>1. call'[Job(d)].vm = n /\ call'[Stray(d)] = call[Stray(d)]
      BY <1>1, <1>8, <2>2, GetFacts
    <3>2. Has(Stray(d), n)
      BY <3>1 DEF Has
    <3>3. life[n] # "fresh"
      BY <1>1, <3>2 DEF Ownership, Owned
    <3>. QED  BY <1>8, <3>3 DEF Creates
  <2>. QED  BY <2>1, <2>2
<1>9. ASSUME NEW e \in Deployments, Abandons(e)
      PROVE  Goal
  <2>1. CASE e # d
    BY <1>1, <1>3, <1>9, <2>1, AbandonFacts
  <2>2. CASE e = d
    <3>1. /\ call'[Job(d)].op = "abandoned" /\ row' = row
          /\ call'[Stray(d)] = Idle \/ call'[Stray(d)] = c
      BY <1>9, <2>2, AbandonFacts
    <3>2. call'[Stray(d)] = c
      BY <1>4, <3>1
    <3>3. row[d].keep => c.op \notin Building
      BY DEF Places, KeepFits
    <3>. QED  BY <3>1, <3>2, <3>3
  <2>. QED  BY <2>1, <2>2
<1>10. ASSUME NEW e \in Deployments, Restarts(e), call[Job(e)].op = "failed"
       PROVE  Goal
  <2>1. CASE e # d
    BY <1>1, <1>3, <1>10, <2>1, RestartFacts
  <2>2. CASE e = d
    <3>1. call'[Job(d)].vm = row[d].vm
      BY <1>10, <2>2, RestartFacts
    <3>2. c.vm = None
      BY <1>10, <2>2 DEF Places, JobsFit, NoMachineYet
    <3>3. call'[Job(d)].vm = None
      BY <1>2, <3>1, <3>2
    <3>. QED  BY <3>3, HostAssumption DEF Has
  <2>. QED  BY <2>1, <2>2
<1>11. CASE UNCHANGED <<row, call>>
  BY <1>3, <1>11
<1>. QED  BY <1>5, <1>6, <1>7, <1>8, <1>9, <1>10, <1>11 DEF CallMoves

-----------------------------------------------------------------------------
(* What a step does to the threads of one deployment. *)

Stays(d) == call'[Job(d)] = call[Job(d)] /\ row'[d] = row[d]

Enters(d) ==
    LET c == call[Job(d)]  n == call'[Job(d)]
    IN  /\ n.op = c.op /\ n.vm = c.vm /\ row'[d] = row[d]
        /\ \/ c.op = "delete_vm" /\ n.step \in InDelete
           \/ c.op = "upload_iso" /\ n.step \in InPut
        /\ Entered(Job(d), n.step)

Finishes(d) ==
    LET c == call[Job(d)]  n == call'[Job(d)]
    IN  /\ c.op \in Calls /\ Follows(d, c.op, n.op) /\ n.step = "begin" /\ n.vm = row'[d].vm
        /\ row'[d].vm = IF c.op = "delete_vm" THEN None ELSE row[d].vm
        /\ row'[d].keep = (row[d].keep \/ c.op = "delete_answer")
        /\ c.op \in BestEffort \/ n.op = "fail_answer" \/ Did(Job(d))
        /\ c.op = "delete_vm" => c.step = "folder" \/ ~Without({"delete"})' \/ Refuses(Job(d))

TurnsTo(d) ==
    LET c == call[Job(d)]  n == call'[Job(d)]
    IN  /\ n.vm = c.vm /\ n.step = "begin" /\ row'[d] = row[d]
        /\ \/ c.op = "setup" /\ n.op = "detach_iso" /\ c.vm \in answering
           \/ c.op \in {"setup", "abandoned"} /\ n.op = "fail_answer"
           \/ /\ c.op \in {"install_tools", "shutdown", "check_power", "kept"}
              /\ n.op \in Tooling \cup {"done"}
              /\ n.op = "power_up" => IsOff(c.vm)

Drops(d) ==
    LET c == call[Job(d)]  n == call'[Job(d)]
    IN  /\ n.op = "abandoned" /\ n.vm = c.vm /\ n.step = "begin" /\ row'[d] = row[d]
        /\ ~Without({"cancel", "crash"})'

Obtains(d) ==
    LET n == call'[Job(d)]
    IN  /\ n.op = "attach_iso" /\ n.step = "begin" /\ row'[d].keep = row[d].keep
        /\ \E m \in Machines : n.vm = m /\ row'[d].vm = m /\ Creates(Job(d), m)

Renews(d) ==
    LET c == call[Job(d)]  n == call'[Job(d)]
    IN  /\ c.op = "failed" /\ n.op = "upload_answer" /\ n.vm = c.vm /\ n.step = "begin"
        /\ row'[d].vm = None /\ row'[d].keep = FALSE

JobSteps(d) ==
    Stays(d) \/ Enters(d) \/ Finishes(d) \/ TurnsTo(d) \/ Drops(d) \/ Obtains(d) \/ Renews(d)

LEMMA JobStepsHold ==
    ASSUME TypeOK, Places, CallMoves, NEW d \in Deployments
    PROVE  JobSteps(d)
<1>. DEFINE c == call[Job(d)]
<1>1. /\ Job(d) \in Threads /\ Job(d)[1] = d /\ \A e \in Deployments : Stray(e) # Job(d)
      /\ \A e \in Deployments : e # d => Job(e) # Job(d)
  BY JobsAndStrays
<1>2. c.vm = row[d].vm
  BY DEF Places, JobsFit
<1>3. ASSUME call'[Job(d)] = call[Job(d)], row'[d] = row[d]
      PROVE  JobSteps(d)
  BY <1>3 DEF JobSteps, Stays
<1>4. ASSUME NEW t \in Threads, NEW ok \in BOOLEAN, Ended(t, ok)
      PROVE  JobSteps(d)
  <2>. DEFINE e == t[1]
  <2>1. e \in Deployments
    BY JobsAndStrays
  <2>2. CASE JobMoves(e, ok) /\ t = Job(e) /\ e = d
    <3>1. PICK next \in Ops :
             /\ Follows(d, c.op, next)
             /\ call'[Job(d)].op = next /\ call'[Job(d)].step = "begin"
             /\ call'[Job(d)].vm = row'[d].vm
             /\ row'[d].vm = IF c.op = "delete_vm" THEN None ELSE row[d].vm
             /\ row'[d].keep = (row[d].keep \/ c.op = "delete_answer")
      BY <1>4, <2>2, JobMoveFacts DEF Ended
    <3>2. c.op \in BestEffort \/ next = "fail_answer" \/ Did(Job(d))
      <4>1. CASE ok
        BY <1>4, <2>2, <4>1 DEF Ended
      <4>2. CASE ~ok
        <5>1. call'[Job(d)] = Enter(Raised(d, c.op), RowAfter(d, c.op, ok).vm)
          BY <1>1, <2>2, <4>2, CallTypes DEF JobMoves
        <5>2. call'[Job(d)].op = Raised(d, c.op)
          BY <5>1 DEF Enter
        <5>. QED  BY <3>1, <5>2 DEF Raised
      <4>. QED  BY <4>1, <4>2
    <3>3. c.op = "delete_vm" => c.step = "folder" \/ ~Without({"delete"})' \/ Refuses(Job(d))
      BY <1>4, <2>2 DEF Ended, Did, DidNot
    <3>. QED  BY <1>4, <2>2, <3>1, <3>2, <3>3 DEF JobSteps, Finishes, Ended
  <2>3. CASE JobMoves(e, ok) /\ t = Job(e) /\ e # d
    BY <1>1, <1>3, <1>4, <2>1, <2>3, JobMoveFacts DEF Ended
  <2>4. CASE StrayEnds(e)
    BY <1>1, <1>3, <2>1, <2>4, StrayEndFacts
  <2>. QED  BY <1>4, <2>2, <2>3, <2>4 DEF Ended, Ends
<1>5. ASSUME NEW t \in Threads, NEW step \in InDelete \cup InPut, Goes(t, step)
      PROVE  JobSteps(d)
  <2>1. row' = row
    BY <1>5, GoFacts
  <2>2. CASE t = Job(d)
    <3>1. call'[Job(d)].op = c.op /\ call'[Job(d)].vm = c.vm /\ call'[Job(d)].step = step
      BY <1>5, <2>2, GoFacts
    <3>. QED  BY <1>5, <2>1, <2>2, <3>1 DEF JobSteps, Enters, Goes
  <2>3. CASE t # Job(d)
    BY <1>1, <1>3, <1>5, <2>1, <2>3, GoFacts
  <2>. QED  BY <2>2, <2>3
<1>6. ASSUME NEW e \in Deployments, NEW op \in Ops, Turns(e, op)
      PROVE  JobSteps(d)
  <2>1. CASE e = d
    <3>1. /\ call'[Job(d)].op = op /\ call'[Job(d)].vm = row[d].vm
          /\ call'[Job(d)].step = "begin" /\ row' = row
      BY <1>6, <2>1, TurnFacts
    <3>. QED  BY <1>2, <1>6, <2>1, <3>1 DEF JobSteps, TurnsTo, Turns
  <2>2. CASE e # d
    BY <1>1, <1>3, <1>6, <2>2, TurnFacts
  <2>. QED  BY <2>1, <2>2
<1>7. ASSUME NEW e \in Deployments, NEW m \in Machines, Creates(Job(e), m), Gets(e, m)
      PROVE  JobSteps(d)
  <2>1. CASE e = d
    <3>1. /\ call'[Job(d)].op = "attach_iso" /\ call'[Job(d)].vm = m
          /\ call'[Job(d)].step = "begin"
          /\ row'[d].vm = m /\ row'[d].keep = row[d].keep
      BY <1>7, <2>1, GetFacts
    <3>. QED  BY <1>7, <2>1, <3>1 DEF JobSteps, Obtains
  <2>2. CASE e # d
    BY <1>1, <1>3, <1>7, <2>2, GetFacts
  <2>. QED  BY <2>1, <2>2
<1>8. ASSUME NEW e \in Deployments, Abandons(e)
      PROVE  JobSteps(d)
  <2>1. CASE e = d
    <3>1. /\ call'[Job(d)].op = "abandoned" /\ call'[Job(d)].vm = row[d].vm
          /\ call'[Job(d)].step = "begin" /\ row' = row /\ ~Without({"cancel", "crash"})'
      BY <1>8, <2>1, AbandonFacts
    <3>. QED  BY <1>2, <3>1 DEF JobSteps, Drops
  <2>2. CASE e # d
    BY <1>1, <1>3, <1>8, <2>2, AbandonFacts
  <2>. QED  BY <2>1, <2>2
<1>9. ASSUME NEW e \in Deployments, Restarts(e), call[Job(e)].op = "failed"
      PROVE  JobSteps(d)
  <2>1. CASE e = d
    <3>1. /\ call'[Job(d)].op = "upload_answer" /\ call'[Job(d)].vm = row[d].vm
          /\ call'[Job(d)].step = "begin" /\ row'[d].vm = None /\ row'[d].keep = FALSE
      BY <1>9, <2>1, RestartFacts
    <3>. QED  BY <1>2, <1>9, <2>1, <3>1 DEF JobSteps, Renews
  <2>2. CASE e # d
    BY <1>1, <1>3, <1>9, <2>2, RestartFacts
  <2>. QED  BY <2>1, <2>2
<1>10. CASE UNCHANGED <<row, call>>
  BY <1>3, <1>10
<1>. QED  BY <1>4, <1>5, <1>6, <1>7, <1>8, <1>9, <1>10 DEF CallMoves

(* A stray goes on, ends, or is what a dropped job leaves. *)
StraySteps(d) ==
    LET s == call[Stray(d)]  n == call'[Stray(d)]
    IN  \/ n.op = s.op /\ n.vm = s.vm /\ (n.step = s.step \/ Entered(Stray(d), n.step))
        \/ n = Idle
        \/ n = call[Job(d)] /\ call[Job(d)].op \in Lasting /\ Drops(d)

LEMMA StrayStepsHold ==
    ASSUME TypeOK, Places, CallMoves, NEW d \in Deployments
    PROVE  StraySteps(d)
<1>. DEFINE s == call[Stray(d)]
<1>1. /\ Stray(d) \in Threads /\ \A e \in Deployments : Job(e) # Stray(d)
      /\ \A e \in Deployments : e # d => Stray(e) # Stray(d)
  BY JobsAndStrays
<1>2. ASSUME call'[Stray(d)] = s
      PROVE  StraySteps(d)
  BY <1>2 DEF StraySteps
<1>3. ASSUME call'[Stray(d)] = Idle
      PROVE  StraySteps(d)
  BY <1>3 DEF StraySteps
<1>4. ASSUME NEW t \in Threads, NEW ok \in BOOLEAN, Ended(t, ok)
      PROVE  StraySteps(d)
  <2>. DEFINE e == t[1]
  <2>1. e \in Deployments
    BY JobsAndStrays
  <2>2. CASE JobMoves(e, ok) /\ t = Job(e)
    BY <1>1, <1>2, <1>4, <2>1, <2>2, JobMoveFacts DEF Ended
  <2>3. CASE StrayEnds(e)
    BY <1>1, <1>2, <1>3, <2>1, <2>3, StrayEndFacts
  <2>. QED  BY <1>4, <2>2, <2>3 DEF Ended, Ends
<1>5. ASSUME NEW t \in Threads, NEW step \in InDelete \cup InPut, Goes(t, step)
      PROVE  StraySteps(d)
  <2>1. CASE t = Stray(d)
    <3>1. call'[Stray(d)].op = s.op /\ call'[Stray(d)].vm = s.vm /\ call'[Stray(d)].step = step
      BY <1>5, <2>1, GoFacts
    <3>. QED  BY <1>5, <2>1, <3>1 DEF StraySteps, Goes
  <2>2. CASE t # Stray(d)
    BY <1>1, <1>2, <1>5, <2>2, GoFacts
  <2>. QED  BY <2>1, <2>2
<1>6. ASSUME NEW e \in Deployments, NEW op \in Ops, Turns(e, op)
      PROVE  StraySteps(d)
  BY <1>1, <1>2, <1>6, TurnFacts
<1>7. ASSUME NEW e \in Deployments, NEW m \in Machines, Creates(Job(e), m), Gets(e, m)
      PROVE  StraySteps(d)
  BY <1>1, <1>2, <1>7, GetFacts
<1>8. ASSUME NEW e \in Deployments, Abandons(e)
      PROVE  StraySteps(d)
  <2>1. CASE e = d
    <3>1. /\ call'[Job(d)].op = "abandoned" /\ call'[Job(d)].vm = row[d].vm
          /\ call'[Job(d)].step = "begin" /\ row' = row /\ ~Without({"cancel", "crash"})'
          /\ \/ call'[Stray(d)] = Idle
             \/ call'[Stray(d)] = call[Job(d)] /\ call[Job(d)].op \in Lasting
      BY <1>8, <2>1, AbandonFacts
    <3>2. call[Job(d)].vm = row[d].vm
      BY DEF Places, JobsFit
    <3>. QED  BY <3>1, <3>2 DEF StraySteps, Drops
  <2>2. CASE e # d
    BY <1>1, <1>2, <1>8, <2>2, AbandonFacts
  <2>. QED  BY <2>1, <2>2
<1>9. ASSUME NEW e \in Deployments, Restarts(e), call[Job(e)].op = "failed"
      PROVE  StraySteps(d)
  BY <1>1, <1>2, <1>9, RestartFacts
<1>10. CASE UNCHANGED <<row, call>>
  BY <1>2, <1>10
<1>. QED  BY <1>4, <1>5, <1>6, <1>7, <1>8, <1>9, <1>10 DEF CallMoves

-----------------------------------------------------------------------------
(* Media *)

(* What is expected of the drives holds of the call a thread goes on to.   *)
LEMMA JobReadyBefore ==
    ASSUME TypeOK, Places, DrivesReady, KeptInstalled, NEW d \in Deployments, NEW m \in Machines,
           JobSteps(d), ~Obtains(d), Has(Job(d), m)', There(m)
    PROVE  Has(Job(d), m) /\ Ready(call'[Job(d)].op, m)
<1>. DEFINE c == call[Job(d)]
            n == call'[Job(d)]
<1>1. Job(d) \in Threads /\ c.vm = row[d].vm
  BY JobsAndStrays DEF Places, JobsFit
<1>2. Has(Job(d), m)
  <2>1. CASE Finishes(d)
    BY <1>1, <2>1, HostAssumption DEF Finishes, Has
  <2>2. CASE ~Finishes(d)
    BY <2>2 DEF JobSteps, Stays, Enters, TurnsTo, Drops, Renews, Has
  <2>. QED  BY <2>1, <2>2
<1>3. Ready(c.op, m)
  BY <1>1, <1>2 DEF DrivesReady
<1>. SUFFICES Ready(n.op, m)
  BY <1>2
<1>4. CASE Stays(d) \/ Enters(d)
  BY <1>3, <1>4 DEF Stays, Enters
<1>5. CASE Finishes(d)
  <2>1. n.op \in Ejecting \cup Tooling => c.op \in Ejecting \cup Tooling
    BY <1>5 DEF Finishes, Follows, Calls, Building, Ejecting, Tooling, Failing
  <2>2. n.op # "attach_iso" /\ (n.op = "attach_floppy" => c.op = "attach_iso")
    BY <1>5 DEF Finishes, Follows, Calls, Building, Ejecting, Tooling, Failing
  <2>. QED  BY <1>3, <2>1, <2>2, DriveNames DEF Ready
<1>6. CASE TurnsTo(d)
  <2>1. CASE n.op \notin Ejecting \cup Tooling
    BY <1>6, <2>1 DEF TurnsTo, Ready
  <2>2. CASE c.op = "setup" /\ n.op = "detach_iso" /\ c.vm \in answering
    BY <1>2, <2>2 DEF Ready, Has
  <2>3. CASE c.op \in {"install_tools", "shutdown", "check_power", "kept"}
    <3>1. row[d].keep
      BY <2>3 DEF Places, KeepFits, Tooling
    <3>2. m \in answering
      BY <1>2, <3>1 DEF KeptInstalled
    <3>3. n.op \in Tooling \cup {"done"}
      BY <1>6, <2>3 DEF TurnsTo
    <3>. QED  BY <3>2, <3>3 DEF Ready, Tooling
  <2>. QED  BY <1>6, <2>1, <2>2, <2>3 DEF TurnsTo, Ejecting, Tooling
<1>7. CASE Drops(d) \/ Renews(d)
  BY <1>7 DEF Drops, Renews, Ready, Ejecting, Tooling
<1>. QED  BY <1>2, <1>4, <1>5, <1>6, <1>7 DEF JobSteps

LEMMA StrayReadyBefore ==
    ASSUME TypeOK, Places, DrivesReady, NEW d \in Deployments, NEW m \in Machines,
           StraySteps(d), Has(Stray(d), m)', There(m)
    PROVE  Ready(call'[Stray(d)].op, m) /\ (Has(Stray(d), m) \/ Has(Job(d), m))
<1>1. Job(d) \in Threads /\ Stray(d) \in Threads
  BY JobsAndStrays
<1>2. call'[Stray(d)] # Idle
  BY IdleFacts, HostAssumption DEF Has
<1>. QED  BY <1>1, <1>2 DEF StraySteps, DrivesReady, Has

Attaching == {"attach_iso", "attach_floppy"}

(* A machine a drive of which is attached has no other call.               *)
LEMMA RefitsAlone ==
    ASSUME TypeOK, Places, Ownership, CallMoves,
           NEW u \in Threads, NEW m \in Machines, NEW k, NEW medium, Refits(u, m, k, medium),
           NEW t \in Threads, Has(t, m)', call'[t].op \in Attaching
    PROVE  call'[t].op = "attach_floppy" /\ k = "cdrom"
<1>. DEFINE d == u[1]
<1>1. PICK ok \in BOOLEAN : Ended(u, ok)
  BY DEF Refits
<1>2. Has(u, m) /\ There(m) /\ FitsDrive(call[u].op, k, medium)
  BY DEF Refits, Has, Accepts
<1>3. ~Creates(t, m)
  BY <1>2 DEF Creates, There
<1>4. t[1] = d /\ d \in Deployments
  BY <1>2, <1>3, HasMoves, JobsAndStrays DEF Ownership, Owned, There
<1>5. /\ t = Job(d) \/ t = Stray(d)
      /\ Job(d) \in Threads /\ Stray(d) \in Threads /\ Job(d) # Stray(d)
  BY <1>4, JobsAndStrays
<1>6. Attaching \subseteq Building
  BY DEF Attaching, Building
<1>7. CASE u = Job(d)
  <2>1. JobMoves(d, ok)
    BY <1>1, <1>5, <1>7 DEF Ended, Ends
  <2>2. CASE t = Job(d)
    <3>1. Follows(d, call[u].op, call'[u].op)
      BY <1>1, <1>4, <1>7, <2>1, JobMoveFacts DEF Ended
    <3>. QED  BY <1>2, <1>7, <2>2, <3>1 DEF Follows, Attaching, FitsDrive
  <2>3. CASE t = Stray(d)
    <3>1. call'[t] = call[t]
      BY <1>1, <1>4, <1>5, <1>7, <2>1, <2>3, JobMoveFacts DEF Ended
    <3>2. Has(Job(d), m) /\ Has(Stray(d), m) /\ call[Stray(d)].op \in Building
      BY <1>2, <1>6, <1>7, <2>3, <3>1 DEF Has
    <3>3. call[Job(d)].op \in {"abandoned", "fail_answer", "delete_vm"}
      BY <1>4, <3>2 DEF Ownership, Apart
    <3>. QED  BY <1>2, <1>7, <3>3 DEF FitsDrive
  <2>. QED  BY <1>5, <2>2, <2>3
<1>8. CASE u = Stray(d)
  <2>1. StrayEnds(d)
    BY <1>1, <1>5, <1>8 DEF Ended, Ends
  <2>2. call'[Stray(d)] = Idle /\ call'[Job(d)] = call[Job(d)]
    BY <1>4, <1>5, <2>1, StrayEndFacts
  <2>3. t = Job(d)
    BY <1>5, <2>2, IdleFacts, HostAssumption DEF Has
  <2>4. Has(Job(d), m) /\ Has(Stray(d), m) /\ call[Job(d)].op \in Building
    BY <1>2, <1>6, <1>8, <2>2, <2>3 DEF Has
  <2>5. ~row[d].keep
    BY <1>4, <2>4 DEF Places, KeepFits
  <2>6. call[Job(d)].op \in {"abandoned", "fail_answer", "delete_vm"}
    BY <1>4, <2>4, <2>5 DEF Ownership, Apart
  <2>. QED  BY <2>4, <2>6 DEF Building
<1>. QED  BY <1>4, <1>7, <1>8, JobsAndStrays

(* And it stays as it is while the other steps are taken.                  *)
ReadyNext(op, m) ==
    /\ op = "attach_iso" => drive'[m] = NoDrives /\ m \notin answering'
    /\ op = "attach_floppy" => drive'[m]["floppy"] = "absent" /\ m \notin answering'
    /\ op \in Ejecting \cup Tooling => m \in answering'

LEMMA ReadyStays ==
    ASSUME TypeOK, Places, Ownership, CallMoves, MachineMoves,
           NEW t \in Threads, NEW m \in Machines, Has(t, m)', There(m), There(m)',
           Ready(call'[t].op, m)
    PROVE  ReadyNext(call'[t].op, m)
<1>. DEFINE op == call'[t].op
<1>. USE TypeParts DEF MachineTypes
<1>1. ReadyNext(op, m) <=>
         /\ op = "attach_iso" => drive'[m] = NoDrives /\ m \notin answering'
         /\ op = "attach_floppy" => drive'[m]["floppy"] = "absent" /\ m \notin answering'
         /\ op \in Ejecting \cup Tooling => m \in answering'
  BY DEF ReadyNext
<1>2. /\ op = "attach_iso" => drive[m] = NoDrives /\ m \notin answering
      /\ op = "attach_floppy" => drive[m]["floppy"] = "absent" /\ m \notin answering
      /\ op \in Ejecting \cup Tooling => m \in answering
  BY DEF Ready
<1>3. ASSUME drive'[m] = drive[m], m \in answering' <=> m \in answering
      PROVE  ReadyNext(call'[t].op, m)
  BY <1>1, <1>2, <1>3
<1>4. ASSUME NEW u \in Threads, NEW n \in Machines, NEW k \in Drives, NEW medium \in Media,
             Refits(u, n, k, medium)
      PROVE  ReadyNext(call'[t].op, m)
  <2>1. answering' = answering /\ drive' = [drive EXCEPT ![n] = [drive[n] EXCEPT ![k] = medium]]
    BY <1>4 DEF Refits
  <2>2. CASE n # m \/ op \notin Attaching
    BY <1>1, <1>2, <2>1, <2>2 DEF Attaching
  <2>3. CASE n = m /\ op \in Attaching
    <3>1. op = "attach_floppy" /\ k = "cdrom"
      BY <1>4, <2>3, RefitsAlone
    <3>2. drive[m] \in [Drives -> Media] /\ "floppy" \in Drives /\ "cdrom" # "floppy"
      BY DriveNames
    <3>3. drive'[m]["floppy"] = drive[m]["floppy"]
      BY <2>1, <2>3, <3>1, <3>2
    <3>. QED  BY <1>1, <1>2, <2>1, <3>1, <3>3 DEF Ejecting, Tooling
  <2>. QED  BY <2>2, <2>3
<1>5. ASSUME NEW n \in Machines, Specializes(n)
      PROVE  ReadyNext(call'[t].op, m)
  <2>1. drive' = drive /\ answering' = answering \cup {n}
    BY <1>5 DEF Specializes
  <2>2. n = m => op \notin Attaching
    BY <1>2, <1>5, DriveNames DEF Specializes, Attaching
  <2>. QED  BY <1>1, <1>2, <2>1, <2>2 DEF Attaching
<1>6. ASSUME NEW u \in Threads, NEW n \in Machines, Destroys(u, n)
      PROVE  ReadyNext(call'[t].op, m)
  <2>1. n # m
    BY <1>6 DEF Destroys, There
  <2>. QED  BY <1>3, <1>6, <2>1 DEF Destroys
<1>7. CASE drive' = drive /\ answering' = answering
  BY <1>3, <1>7
<1>. QED  BY <1>4, <1>5, <1>6, <1>7 DEF MachineMoves, Creates, PowersOn, PowersOff, Empties,
          Closes, machines_

LEMMA DrivesReadyStep ==
    ASSUME TypeOK, Places, Ownership, DrivesReady, KeptInstalled, CallMoves, MachineMoves
    PROVE  DrivesReady'
<1>. SUFFICES ASSUME NEW t \in Threads, NEW m \in Machines, Has(t, m)', There(m)'
              PROVE  ReadyNext(call'[t].op, m)
  BY DEF DrivesReady, Ready, ReadyNext
<1>. DEFINE d == t[1]
<1>1. /\ d \in Deployments /\ (t = Job(d) \/ t = Stray(d))
      /\ Job(d) \in Threads /\ Stray(d) \in Threads /\ Job(d)[1] = d /\ Stray(d)[1] = d
  BY JobsAndStrays
<1>2. JobSteps(d) /\ StraySteps(d)
  BY <1>1, JobStepsHold, StrayStepsHold
<1>3. CASE t = Job(d) /\ Obtains(d)
  <2>1. call'[t].op = "attach_iso" /\ Creates(t, m)
    BY <1>3 DEF Obtains, Has
  <2>2. drive[m] = NoDrives /\ m \notin answering
    BY <2>1 DEF Creates, Ownership, MachinesFit
  <2>3. drive'[m] = NoDrives /\ m \notin answering'
    BY <2>1, <2>2 DEF Creates
  <2>. QED  BY <2>1, <2>3 DEF ReadyNext, Ejecting, Tooling
<1>4. CASE ~(t = Job(d) /\ Obtains(d))
  <2>1. ~(t = Job(d) /\ Gets(d, m) /\ Creates(t, m))
    <3>1. ASSUME t = Job(d), Gets(d, m), Creates(t, m)
          PROVE  Obtains(d)
      BY <1>1, <3>1, GetFacts DEF Obtains
    <3>. QED  BY <1>4, <3>1
  <2>2. Has(Job(d), m) \/ Has(Stray(d), m)
    BY <1>1, <2>1, HasMoves
  <2>3. life[m] # "fresh"
    BY <1>1, <2>2 DEF Ownership, Owned
  <2>4. There(m)
    BY <2>3, LifeMoves DEF There, Creates
  <2>5. Ready(call'[t].op, m)
    <3>1. CASE t = Job(d)
      BY <1>1, <1>2, <1>4, <2>4, <3>1, JobReadyBefore
    <3>2. CASE t = Stray(d)
      BY <1>1, <1>2, <2>4, <3>2, StrayReadyBefore
    <3>. QED  BY <1>1, <3>1, <3>2
  <2>. QED  BY <2>4, <2>5, ReadyStays
<1>. QED  BY <1>3, <1>4

LEMMA InstalledStays ==
    ASSUME TypeOK, MachineMoves, NEW m \in Machines, m \in answering, There(m)'
    PROVE  m \in answering'
<1>1. CASE \E u \in Threads, n \in Machines : Destroys(u, n)
  BY <1>1, TypeParts DEF Destroys, There, MachineTypes
<1>. QED  BY <1>1 DEF MachineMoves, Creates, Refits, PowersOn, PowersOff, Empties, Specializes,
          Closes, machines_

LEMMA ThereBefore ==
    ASSUME TypeOK, Ownership, MachineMoves, NEW t \in Threads, NEW m \in Machines,
           Has(t, m), There(m)'
    PROVE  There(m)
<1>1. life[m] # "fresh"
  BY DEF Ownership, Owned
<1>. QED  BY <1>1, LifeMoves DEF There, Creates

(* A job's machine was its machine before, or is new. *)
LEMMA JobHadMachine ==
    ASSUME Places, NEW d \in Deployments, NEW m \in Machines,
           JobSteps(d), ~Obtains(d), Has(Job(d), m)'
    PROVE  Has(Job(d), m) /\ row'[d].vm = row[d].vm
<1>1. call[Job(d)].vm = row[d].vm
  BY DEF Places, JobsFit
<1>2. CASE Finishes(d)
  BY <1>1, <1>2, HostAssumption DEF Finishes, Has
<1>3. CASE Renews(d)
  <2>1. call[Job(d)].vm = None
    BY <1>3 DEF Renews, Places, JobsFit, NoMachineYet
  <2>. QED  BY <1>3, <2>1, HostAssumption DEF Renews, Has
<1>4. CASE Stays(d) \/ Enters(d) \/ TurnsTo(d) \/ Drops(d)
  BY <1>1, <1>4 DEF Stays, Enters, TurnsTo, Drops, Has
<1>. QED  BY <1>2, <1>3, <1>4 DEF JobSteps

LEMMA KeptInstalledStep ==
    ASSUME TypeOK, Places, Ownership, DrivesReady, KeptInstalled, CallMoves, MachineMoves
    PROVE  KeptInstalled'
<1>. SUFFICES ASSUME NEW d \in Deployments, NEW m \in Machines,
                     Has(Job(d), m)', row'[d].keep, There(m)'
              PROVE  m \in answering'
  BY DEF KeptInstalled
<1>1. JobSteps(d) /\ Job(d) \in Threads
  BY JobStepsHold, JobsAndStrays
<1>2. ~Obtains(d)
  <2>1. call[Job(d)].op = "create_vm" => ~row[d].keep
    BY DEF Places, KeepFits, Building
  <2>. QED  BY <2>1 DEF Obtains, Creates, At
<1>3. Has(Job(d), m) /\ There(m)
  BY <1>1, <1>2, JobHadMachine, ThereBefore
<1>4. row[d].keep \/ call[Job(d)].op = "delete_answer"
  BY <1>1, <1>2 DEF JobSteps, Stays, Enters, Finishes, TurnsTo, Drops, Renews
<1>5. m \in answering
  BY <1>1, <1>3, <1>4 DEF KeptInstalled, DrivesReady, Ready, Ejecting
<1>. QED  BY <1>5, InstalledStays

(* While it builds, a job has its machine for itself. *)
LEMMA BuildsAlone ==
    ASSUME TypeOK, Places, Ownership, Mounted, NEW d \in Deployments, NEW m \in Machines,
           Has(Job(d), m), call[Job(d)].op \in AfterCreate, NEW t \in Threads, Has(t, m)
    PROVE  t = Job(d) /\ There(m)
<1>1. There(m) /\ Job(d) \in Threads /\ Job(d)[1] = d
  BY JobsAndStrays DEF Mounted
<1>2. t[1] = d
  BY <1>1 DEF Ownership, Owned, There
<1>3. ~row[d].keep
  BY DEF Places, KeepFits, Building, AfterCreate
<1>4. ~Has(Stray(d), m)
  BY <1>3 DEF Ownership, Apart, AfterCreate
<1>. QED  BY <1>1, <1>2, <1>4, JobsAndStrays

LEMMA MountedStays ==
    ASSUME TypeOK, Places, Ownership, Mounted, MachineMoves, NEW d \in Deployments,
           NEW m \in Machines, Has(Job(d), m), call[Job(d)].op \in AfterCreate
    PROVE  /\ There(m)'
           /\ \/ drive'[m] = drive[m]
              \/ \E k \in Drives, medium \in Media : Refits(Job(d), m, k, medium)
<1>. USE TypeParts DEF MachineTypes
<1>0. There(m) /\ Job(d) \in Threads
  BY JobsAndStrays DEF Mounted
<1>1. ASSUME NEW u \in Threads, NEW n \in Machines, NEW k \in Drives, NEW medium \in Media,
             Refits(u, n, k, medium), n = m
      PROVE  u = Job(d)
  BY <1>1, BuildsAlone DEF Refits, Has
<1>2. ASSUME NEW u \in Threads, NEW n \in Machines, Destroys(u, n)
      PROVE  n # m
  <2>1. n = m => u = Job(d)
    BY <1>2, BuildsAlone DEF Destroys, Has
  <2>2. u # Job(d)
    BY <1>2 DEF Destroys, At, AfterCreate
  <2>. QED  BY <2>1, <2>2
<1>3. CASE \E u \in Threads, n \in Machines : Destroys(u, n)
  BY <1>0, <1>2, <1>3 DEF Destroys, There
<1>4. CASE \E u \in Threads, n \in Machines, k \in Drives, medium \in Media :
              Refits(u, n, k, medium)
  <2>1. There(m)'
    BY <1>0, <1>4 DEF Refits, There
  <2>2. PICK u \in Threads, n \in Machines, k \in Drives, medium \in Media :
           Refits(u, n, k, medium)
    BY <1>4
  <2>3. n # m => drive'[m] = drive[m]
    BY <2>2 DEF Refits
  <2>. QED  BY <1>1, <2>1, <2>2, <2>3
<1>5. CASE \E u \in Threads, n \in Machines : Creates(u, n)
  BY <1>0, <1>5 DEF Creates, There
<1>6. CASE UNCHANGED <<life, drive>>
  BY <1>0, <1>6 DEF There
<1>. QED  BY <1>3, <1>4, <1>5, <1>6 DEF MachineMoves, PowersOn, PowersOff, Empties, Specializes,
          Closes, machines_

LEMMA MountedStep ==
    ASSUME TypeOK, Places, Ownership, Mounted, CallMoves, MachineMoves
    PROVE  Mounted'
<1>. SUFFICES ASSUME NEW d \in Deployments, NEW m \in Machines, Has(Job(d), m)',
                     call'[Job(d)].op \in AfterCreate
              PROVE  /\ There(m)'
                     /\ call'[Job(d)].op # "attach_iso" => drive'[m]["cdrom"] = "setup"
                     /\ call'[Job(d)].op \notin {"attach_iso", "attach_floppy"} =>
                           drive'[m]["floppy"] = "setup"
  BY DEF Mounted
<1>. DEFINE c == call[Job(d)]
            n == call'[Job(d)]
<1>1. JobSteps(d)
  BY JobStepsHold
<1>2. CASE Obtains(d)
  <2>1. n.op = "attach_iso" /\ Creates(Job(d), m)
    BY <1>2 DEF Obtains, Has
  <2>. QED  BY <2>1, TypeParts DEF Creates, There, MachineTypes
<1>3. CASE ~Obtains(d)
  <2>1. Has(Job(d), m)
    BY <1>1, <1>3, JobHadMachine
  <2>2. /\ c.op \in AfterCreate
        /\ \/ n.op = c.op
           \/ c.op = "attach_iso" /\ n.op = "attach_floppy" /\ Did(Job(d))
           \/ c.op = "attach_floppy" /\ n.op = "set_boot_order" /\ Did(Job(d))
           \/ c.op = "set_boot_order" /\ n.op = "power_on"
           \/ c.op = "power_on" /\ n.op = "setup"
    <3>1. CASE Finishes(d)
      BY <3>1 DEF Finishes, Follows, AfterCreate, BestEffort, Ejecting, Failing, Calls, Building,
         Tooling
    <3>2. CASE ~Finishes(d)
      BY <1>1, <1>3, <3>2 DEF JobSteps, Stays, Enters, TurnsTo, Drops, Renews, AfterCreate, Tooling
    <3>. QED  BY <3>1, <3>2
  <2>3. /\ There(m)
        /\ c.op # "attach_iso" => drive[m]["cdrom"] = "setup"
        /\ c.op \notin {"attach_iso", "attach_floppy"} => drive[m]["floppy"] = "setup"
    BY <2>1, <2>2 DEF Mounted
  <2>4. There(m)'
    BY <2>1, <2>2, MountedStays
  <2>5. /\ drive \in [Machines -> [Drives -> Media]] /\ "cdrom" \in Drives /\ "floppy" \in Drives
        /\ c.vm = m
    BY <2>1, TypeParts, DriveNames DEF MachineTypes, Has
  <2>6. CASE c.op = "attach_iso" /\ n.op = "attach_floppy" /\ Did(Job(d))
    <3>1. drive'[m]["cdrom"] = "setup"
      BY <2>5, <2>6 DEF Did
    <3>. QED  BY <2>4, <2>6, <3>1
  <2>7. CASE c.op = "attach_floppy" /\ n.op = "set_boot_order" /\ Did(Job(d))
    <3>1. drive'[m]["floppy"] = "setup" /\ drive'[m]["cdrom"] = drive[m]["cdrom"]
      BY <2>5, <2>7 DEF Did
    <3>. QED  BY <2>3, <2>4, <2>7, <3>1
  <2>8. CASE drive'[m] = drive[m] /\ ~(c.op \in Attaching /\ n.op # c.op)
    BY <2>2, <2>3, <2>4, <2>8 DEF Attaching
  <2>9. ASSUME NEW k \in Drives, NEW medium \in Media, Refits(Job(d), m, k, medium)
        PROVE  c.op \in Attaching /\ n.op # c.op
    <3>1. c.op \in Attaching
      BY <2>2, <2>9 DEF Refits, FitsDrive, AfterCreate, Attaching
    <3>2. ASSUME n.op = c.op
          PROVE  FALSE
      <4>1. Job(d) \in Threads /\ n.op \in Attaching
        BY <3>1, <3>2, JobsAndStrays
      <4>2. n.op = "attach_floppy" /\ k = "cdrom"
        BY <2>9, <4>1, RefitsAlone
      <4>. QED  BY <2>9, <3>2, <4>2, DriveNames DEF Refits, FitsDrive
    <3>. QED  BY <3>1, <3>2
  <2>10. CASE c.op \in Attaching /\ n.op # c.op
    BY <2>2, <2>6, <2>7, <2>10 DEF Attaching
  <2>. QED  BY <2>1, <2>2, <2>8, <2>9, <2>10, MountedStays
<1>. QED  BY <1>2, <1>3

(* A thread that outlives its job there is only after a cancellation. *)
LEMMA NoStrays ==
    ASSUME Places, Without({"cancel"}), NEW d \in Deployments
    PROVE  call[Stray(d)] = Idle
BY DEF Places, StraysFit

LEMMA AnswerThereStep ==
    ASSUME TypeOK, Places, AnswerThere, CallMoves, FileMoves, happened \subseteq happened'
    PROVE  AnswerThere'
<1>. DEFINE Kept == AfterCreate \cup {"upload_iso", "create_vm"}
<1>. SUFFICES ASSUME Without({"cancel", "put"})', NEW d \in Deployments,
                     call'[Job(d)].op \in Kept
              PROVE  d \in answer'
  BY DEF AnswerThere
<1>1. Without({"cancel", "put"}) /\ Without({"cancel"}) /\ Without({"put"})'
  BY DEF Without
<1>2. JobSteps(d) /\ Job(d)[1] = d /\ Job(d) \in Threads
  BY JobStepsHold, JobsAndStrays
<1>3. \/ call[Job(d)].op \in Kept
      \/ call[Job(d)].op = "upload_answer" /\ Did(Job(d))
  <2>1. CASE Finishes(d)
    BY <2>1 DEF Finishes, Follows, AfterCreate, BestEffort, Ejecting, Failing, Calls, Building,
       Tooling
  <2>2. CASE Obtains(d)
    BY <2>2 DEF Obtains, Creates, At
  <2>3. CASE ~Finishes(d) /\ ~Obtains(d)
    BY <1>2, <2>3 DEF JobSteps, Stays, Enters, TurnsTo, Drops, Renews, AfterCreate, Tooling
  <2>. QED  BY <2>1, <2>2, <2>3
<1>4. CASE call[Job(d)].op = "upload_answer" /\ Did(Job(d))
  BY <1>1, <1>2, <1>4 DEF Did
<1>5. CASE call[Job(d)].op \in Kept
  <2>1. d \in answer
    BY <1>1, <1>5 DEF AnswerThere
  <2>2. ASSUME NEW t \in Threads, call[t].op \in {"delete_answer", "fail_answer"}
        PROVE  t[1] # d
    <3>1. t # Job(d)
      BY <1>5, <2>2 DEF AfterCreate
    <3>2. call[Stray(d)].op = "idle"
      BY <1>1, NoStrays, IdleFacts
    <3>. QED  BY <2>2, <3>1, <3>2, JobsAndStrays
  <2>. QED  BY <2>1, <2>2 DEF FileMoves, files_
<1>. QED  BY <1>3, <1>4, <1>5

LEMMA ImageThereStep ==
    ASSUME TypeOK, Places, ImageThere, CallMoves, FileMoves
    PROVE  ImageThere'
<1>1. image # "none" => image' # "none"
  BY DEF FileMoves, files_
<1>2. ASSUME NEW t \in Threads, call'[t].step = "writing"
      PROVE  image' # "none"
  <2>. DEFINE d == t[1]
  <2>1. d \in Deployments /\ (t = Job(d) \/ t = Stray(d)) /\ Job(d) \in Threads
    BY JobsAndStrays
  <2>2. JobSteps(d) /\ StraySteps(d)
    BY <2>1, JobStepsHold, StrayStepsHold
  <2>3. call[t].step = "writing" \/ call[Job(d)].step = "writing" \/ Entered(t, "writing")
    <3>1. CASE t = Job(d)
      BY <1>2, <2>2, <3>1 DEF JobSteps, Stays, Enters, Finishes, TurnsTo, Drops, Obtains, Renews
    <3>2. CASE t = Stray(d)
      BY <1>2, <2>2, <3>2, IdleFacts DEF StraySteps
    <3>. QED  BY <2>1, <3>1, <3>2
  <2>. QED  BY <1>1, <2>1, <2>3 DEF ImageThere, Entered
<1>3. ASSUME NEW d \in Deployments, call'[Job(d)].op \in AfterCreate \cup {"create_vm"}
      PROVE  image' # "none"
  <2>1. JobSteps(d)
    BY JobStepsHold
  <2>2. \/ call[Job(d)].op \in AfterCreate \cup {"create_vm"}
        \/ call[Job(d)].op = "upload_iso" /\ Did(Job(d))
    <3>1. CASE Finishes(d)
      BY <1>3, <3>1 DEF Finishes, Follows, AfterCreate, BestEffort, Ejecting, Failing, Calls,
         Building, Tooling
    <3>2. CASE Obtains(d)
      BY <3>2 DEF Obtains, Creates, At
    <3>3. CASE ~Finishes(d) /\ ~Obtains(d)
      BY <1>3, <2>1, <3>3 DEF JobSteps, Stays, Enters, TurnsTo, Drops, Renews, AfterCreate, Tooling
    <3>. QED  BY <3>1, <3>2, <3>3
  <2>3. Writing # {} => image # "none"
    BY DEF ImageThere, Writing, At
  <2>. QED  BY <1>1, <2>2, <2>3 DEF ImageThere, Did
<1>. QED  BY <1>2, <1>3 DEF ImageThere

-----------------------------------------------------------------------------
(* Names and folders *)

LEMMA NamesUniqueStep ==
    ASSUME TypeOK, NamesUnique, MachineMoves, hostname' = hostname
    PROVE  NamesUnique'
<1>. SUFFICES ASSUME NEW m \in Machines, NEW n \in Machines, There(m)', There(n)',
                     hostname[owner'[m]] = hostname[owner'[n]]
              PROVE  m = n
  BY DEF NamesUnique
<1>1. ASSUME NEW a \in Machines, There(a)'
      PROVE  \/ There(a) /\ owner'[a] = owner[a]
             \/ \E t \in Threads : Creates(t, a) /\ owner'[a] = t[1]
  BY <1>1, LifeMoves DEF There
<1>2. ASSUME NEW t \in Threads, NEW a \in Machines, NEW b \in Machines, Creates(t, a),
             There(b)', hostname[owner'[b]] = hostname[t[1]]
      PROVE  a = b
  <2>1. CASE There(b) /\ owner'[b] = owner[b]
    BY <1>2, <2>1 DEF Creates, SameName
  <2>2. CASE \E u \in Threads : Creates(u, b)
    BY <1>2, <2>2, TypeParts DEF Creates, There, MachineTypes
  <2>. QED  BY <1>1, <1>2, <2>1, <2>2
<1>3. CASE (There(m) /\ owner'[m] = owner[m]) /\ (There(n) /\ owner'[n] = owner[n])
  BY <1>3 DEF NamesUnique
<1>. QED  BY <1>1, <1>2, <1>3

(* Only its own threads give a deployment a machine. *)
LEMMA CreatedBy ==
    ASSUME TypeOK, Places, Without({"cancel"}), NEW t \in Threads, NEW m \in Machines,
           Creates(t, m)
    PROVE  t = Job(t[1]) /\ call[Job(t[1])].op = "create_vm"
<1>1. call[t].op = "create_vm"
  BY DEF Creates, At
<1>2. t # Stray(t[1])
  BY <1>1, NoStrays, JobsAndStrays, IdleFacts
<1>. QED  BY <1>1, <1>2, JobsAndStrays

LEMMA FolderAloneStep ==
    ASSUME TypeOK, Places, Ownership, NamesUnique, FolderAlone, CallMoves, MachineMoves,
           happened \subseteq happened'
    PROVE  FolderAlone'
<1>. SUFFICES ASSUME Without({"cancel"})', NEW d \in Deployments, call'[Job(d)].step = "folder",
                     NEW m \in Machines, There(m)', owner'[m] = d
              PROVE  FALSE
  BY DEF FolderAlone
<1>. DEFINE c == call[Job(d)]
<1>1. Without({"cancel"})
  BY DEF Without
<1>2. JobSteps(d) /\ Job(d) \in Threads /\ Job(d)[1] = d
  BY JobStepsHold, JobsAndStrays
<1>3. \/ Stays(d) /\ c.step = "folder"
      \/ Enters(d)
  BY <1>2 DEF JobSteps, Stays, Finishes, TurnsTo, Drops, Obtains, Renews
<1>4. c.op = "delete_vm"
  <2>1. CASE Stays(d) /\ c.step = "folder"
    BY <1>2, <2>1 DEF Places, StepsFit, InDelete
  <2>2. CASE Enters(d)
    BY <2>2 DEF Enters, InPut
  <2>. QED  BY <1>3, <2>1, <2>2
<1>5. There(m) /\ owner[m] = d
  BY <1>1, <1>4, LifeMoves, CreatedBy DEF There
<1>6. CASE Stays(d) /\ c.step = "folder"
  BY <1>1, <1>5, <1>6 DEF FolderAlone
<1>7. CASE Enters(d)
  <2>1. life[c.vm] = "there" /\ life'[c.vm] = "gone"
    BY <1>7 DEF Enters, Entered
  <2>2. c.vm \in Machines
    <3>1. c.vm # None
      BY <1>4 DEF Places, JobsFit, WithMachine, MachineCalls, Lasting, Calls, Failing
    <3>2. c \in CallRecords
      BY <1>2, CallTypes
    <3>. QED  BY <3>1, <3>2 DEF CallRecords
  <2>3. owner[c.vm] = d /\ There(c.vm)
    BY <1>2, <2>1, <2>2 DEF Ownership, Owned, Has, There
  <2>4. m = c.vm
    BY <1>5, <2>2, <2>3 DEF NamesUnique
  <2>. QED  BY <2>1, <2>4 DEF There
<1>. QED  BY <1>3, <1>6, <1>7

LEMMA FilesKeptStep ==
    ASSUME TypeOK, Places, Ownership, FolderAlone, FilesKept, MachineMoves,
           hostname' = hostname, happened \subseteq happened'
    PROVE  FilesKept'
<1>. SUFFICES ASSUME Without({"cancel"})', NEW m \in Machines, There(m)', m \notin files'
              PROVE  \E d \in Deployments : d # owner'[m] /\ hostname[d] = hostname[owner'[m]]
  BY DEF FilesKept
<1>1. Without({"cancel"})
  BY DEF Without
<1>2. ~\E t \in Threads : Creates(t, m)
  BY DEF Creates
<1>3. There(m) /\ owner'[m] = owner[m]
  BY <1>2, LifeMoves DEF There
<1>4. CASE m \notin files
  BY <1>1, <1>3, <1>4 DEF FilesKept
<1>5. ASSUME NEW t \in Threads, Empties(t), m \in files
      PROVE  \E d \in Deployments : d # owner'[m] /\ hostname[d] = hostname[owner'[m]]
  <2>1. SameName(m, t[1]) /\ call[t].step = "folder"
    BY <1>5 DEF Empties, FolderOf, At
  <2>2. t = Job(t[1]) /\ t[1] \in Deployments
    BY <1>1, <2>1, NoStrays, IdleFacts, JobsAndStrays
  <2>3. owner[m] # t[1]
    BY <1>1, <1>3, <2>1, <2>2 DEF FolderAlone
  <2>. QED  BY <1>3, <2>1, <2>2, <2>3 DEF SameName
<1>6. ASSUME NEW u \in Threads, NEW n \in Machines, Destroys(u, n)
      PROVE  m \notin files
  <2>1. n # m
    BY <1>6, TypeParts DEF Destroys, There, MachineTypes
  <2>. QED  BY <1>6, <2>1 DEF Destroys
<1>7. CASE \A t \in Threads : ~Empties(t)
  <2>1. CASE \E u \in Threads, n \in Machines : Destroys(u, n)
    BY <1>4, <1>6, <2>1
  <2>2. CASE \A u \in Threads, n \in Machines : ~Destroys(u, n)
    <3>1. files \subseteq files'
      BY <1>7, <2>2 DEF MachineMoves, Creates, Refits, PowersOn, PowersOff, Specializes, Closes,
         machines_
    <3>. QED  BY <1>4, <3>1
  <2>. QED  BY <2>1, <2>2
<1>. QED  BY <1>4, <1>5, <1>7

-----------------------------------------------------------------------------
(* Calm *)

CalmBase ==
    TypeOK /\ Places /\ Ownership /\ MediaInv /\ Folders /\ Calm /\ JobAlone /\ PowerKnown

LEMMA CalmParts ==
    ASSUME Calm
    PROVE  /\ Without({"cancel"}) /\ Without({"cancel", "put"})
           /\ \A d, e \in Deployments : hostname[d] = hostname[e] => d = e
BY DEF Calm, Distinct, Without, Kinds

(* The machine of a job that has one. *)
LEMMA JobMachine ==
    ASSUME TypeOK, Places, NEW d \in Deployments, call[Job(d)].op \in WithMachine
    PROVE  Has(Job(d), call[Job(d)].vm)
<1>1. call[Job(d)].vm # None
  BY DEF Places, JobsFit
<1>2. call[Job(d)] \in CallRecords
  BY CallTypes, JobsAndStrays
<1>. QED  BY <1>1, <1>2 DEF CallRecords, Has

LEMMA AcceptedWhenCalm ==
    ASSUME CalmBase, NEW d \in Deployments,
           call[Job(d)].op \notin BestEffort \ {"delete_vm"}
    PROVE  ~Refuses(Job(d))
<1>. DEFINE c == call[Job(d)]
            m == c.vm
<1>. USE DEF CalmBase
<1>1. Job(d) \in Threads /\ Job(d)[1] = d /\ MachineCalls \subseteq WithMachine
  BY JobsAndStrays DEF WithMachine
<1>2. c.op \in WithMachine => Has(Job(d), m) /\ (There(m) <=> c.step # "folder")
  BY JobMachine DEF JobAlone, Has
<1>3. ~(c.op \in MachineCalls /\ c.step = "begin" /\ ~There(m))
  BY <1>1, <1>2
<1>4. ASSUME c.op \in MachineCalls \ {"delete_vm"}, There(m)
      PROVE  DriveGone(c.op, m) \/ (Accepts(c.op, m) /\ ~FileMissing(Job(d)))
  <2>1. c.op \in BeforeBoot \cup {"power_up"}
    BY <1>4 DEF MachineCalls, Lasting, Calls, Building, Ejecting, Tooling, Failing, BestEffort,
       BeforeBoot
  <2>2. Has(Job(d), m) /\ m \in Machines
    BY <1>1, <1>2, <1>4 DEF Has
  <2>3. power[m] = "off"
    BY <1>4, <2>1, <2>2 DEF PowerKnown
  <2>4. m \in files
    <3>1. owner[m] \in Deployments
      BY <1>4, <2>2 DEF Ownership, MachinesFit, There
    <3>. QED  BY <1>4, <2>2, <3>1, CalmParts DEF Folders, FilesKept
  <2>5. Accepts(c.op, m)
    BY <1>4, <2>1, <2>3, <2>4 DEF Accepts, BeforeBoot
  <2>6. c.op = "attach_floppy" => d \in answer
    BY CalmParts DEF MediaInv, AnswerThere, AfterCreate
  <2>7. c.op = "attach_iso" => image # "none"
    BY DEF MediaInv, ImageThere, AfterCreate
  <2>. QED  BY <1>1, <2>5, <2>6, <2>7 DEF FileMissing
<1>5. c.step \in {"off", "destroy"} => Has(Job(d), m) /\ There(m)
  <2>1. c.step \in {"off", "destroy"} => c.op = "delete_vm"
    BY <1>1 DEF Places, StepsFit, InDelete
  <2>2. "delete_vm" \in WithMachine
    BY DEF WithMachine, MachineCalls, Lasting, Calls, Failing
  <2>. QED  BY <1>2, <2>1, <2>2
<1>6. c.step = "off" => There(m) /\ power[m] = "on"
  BY <1>5 DEF PowerKnown, Has
<1>7. c.step = "destroy" => There(m) /\ power[m] = "off"
  BY <1>5 DEF PowerKnown, Has
<1>8. ASSUME c.op = "create_vm", NEW n \in Machines, SameName(n, d)
      PROVE  FALSE
  <2>1. There(n) /\ owner[n] = d
    BY <1>8, CalmParts DEF SameName, Ownership, MachinesFit, There
  <2>2. Has(Job(d), n)
    BY <2>1 DEF JobAlone
  <2>3. c.vm = None
    BY <1>8 DEF Places, JobsFit, NoMachineYet
  <2>. QED  BY <2>2, <2>3, HostAssumption DEF Has
<1>. QED  BY <1>1, <1>3, <1>4, <1>6, <1>7, <1>8 DEF Refuses

LEMMA NextCalm ==
    ASSUME happened \subseteq happened', hostname' = hostname, Calm'
    PROVE  Calm
BY DEF Calm, Distinct, Without

(* A machine in use is there as long as its own thread does not destroy it. *)
LEMMA MachineStays ==
    ASSUME CalmBase, CallMoves, MachineMoves, NEW d \in Deployments, NEW m \in Machines,
           Has(Job(d), m), There(m), ~Enters(d)
    PROVE  There(m)'
<1>1. ASSUME NEW u \in Threads, Destroys(u, m)
      PROVE  FALSE
  <2>1. u[1] = d
    <3>1. Has(u, m)
      BY <1>1 DEF Destroys, Has
    <3>2. owner[m] = u[1] /\ owner[m] = Job(d)[1]
      BY <3>1, JobsAndStrays DEF CalmBase, Ownership, Owned, There
    <3>. QED  BY <3>2, JobsAndStrays
  <2>2. u # Stray(d)
    BY <1>1, CalmParts, NoStrays, IdleFacts DEF CalmBase, Destroys, At
  <2>3. u = Job(d)
    BY <2>1, <2>2, JobsAndStrays
  <2>4. Goes(Job(d), "folder") /\ Job(d) \in Threads
    BY <1>1, <2>3, JobsAndStrays DEF Destroys
  <2>5. Enters(d)
    BY <2>4, GoFacts DEF CalmBase, Enters, Goes
  <2>. QED  BY <2>5
<1>2. CASE \E u \in Threads, n \in Machines : Destroys(u, n)
  BY <1>1, <1>2, TypeParts DEF CalmBase, Destroys, There, MachineTypes
<1>3. CASE \E u \in Threads, n \in Machines : Creates(u, n)
  BY <1>3, TypeParts DEF CalmBase, Creates, There, MachineTypes
<1>4. CASE UNCHANGED life
  BY <1>4 DEF There
<1>. QED  BY <1>2, <1>3, <1>4 DEF MachineMoves, Refits, PowersOn, PowersOff, Empties, Specializes,
          Closes, machines_

LEMMA FinishesDelete ==
    ASSUME CalmBase, Calm', NEW d \in Deployments, Finishes(d), call[Job(d)].op = "delete_vm"
    PROVE  call[Job(d)].step = "folder"
<1>1. Without({"delete"})'
  BY DEF Calm, Without, Kinds
<1>2. ~Refuses(Job(d))
  BY AcceptedWhenCalm
<1>. QED  BY <1>1, <1>2 DEF Finishes

LEMMA JobAloneStep ==
    ASSUME CalmBase, CallMoves, MachineMoves, Calm'
    PROVE  JobAlone'
<1>. USE DEF CalmBase
<1>. SUFFICES ASSUME NEW d \in Deployments, NEW m \in Machines
              PROVE  /\ Has(Job(d), m)' => (There(m)' <=> call'[Job(d)].step # "folder")
                     /\ There(m)' /\ owner'[m] = d => Has(Job(d), m)'
  BY DEF JobAlone
<1>. DEFINE c == call[Job(d)]
            n == call'[Job(d)]
<1>1. JobSteps(d) /\ Job(d) \in Threads /\ Job(d)[1] = d
  BY JobStepsHold, JobsAndStrays
<1>2. Without({"cancel", "crash"})' /\ Without({"lost"})'
  BY DEF Calm, Without, Kinds
<1>3. ~Drops(d)
  BY <1>2 DEF Drops
<1>4. c.vm = row[d].vm /\ (c.step = "folder" => c.op = "delete_vm")
  BY <1>1 DEF Places, JobsFit, StepsFit, InDelete
<1>5. ASSUME Has(Job(d), m)'
      PROVE  There(m)' <=> n.step # "folder"
  <2>1. CASE Obtains(d)
    <3>1. Creates(Job(d), m) /\ n.step = "begin"
      BY <1>5, <2>1 DEF Obtains, Has
    <3>. QED  BY <3>1, TypeParts DEF Creates, There, MachineTypes
  <2>2. CASE ~Obtains(d)
    <3>1. Has(Job(d), m)
      BY <1>1, <1>5, <2>2, JobHadMachine
    <3>2. There(m) <=> c.step # "folder"
      BY <3>1 DEF JobAlone
    <3>3. ASSUME c.step # "folder", n.step # "folder", ~Enters(d)
          PROVE  There(m)'
      BY <3>1, <3>2, <3>3, MachineStays
    <3>4. CASE Stays(d)
      <4>1. CASE c.step = "folder"
        <5>1. ~There(m)'
          BY <1>1, <3>1, <3>2, <4>1, ThereBefore
        <5>. QED  BY <3>4, <4>1, <5>1 DEF Stays
      <4>2. CASE c.step # "folder"
        <5>1. CASE Enters(d)
          <6>1. CASE n.step = "destroy" \/ n.step = "off"
            BY <1>5, <5>1, <6>1 DEF Enters, Entered, Has, There
          <6>2. CASE c.op = "upload_iso"
            BY <1>4, <3>1, <6>2, HostAssumption DEF Places, JobsFit, NoMachineYet, Has
          <6>3. n.step # "folder"
            BY <3>4, <4>2 DEF Stays
          <6>. QED  BY <5>1, <6>1, <6>2, <6>3 DEF Enters, InDelete
        <5>2. CASE ~Enters(d)
          BY <3>3, <3>4, <4>2, <5>2 DEF Stays
        <5>. QED  BY <5>1, <5>2
      <4>. QED  BY <4>1, <4>2
    <3>5. CASE Enters(d)
      <4>1. n.step \in InDelete
        <5>1. c.op # "upload_iso"
          BY <3>1, HostAssumption DEF Places, JobsFit, NoMachineYet, Has
        <5>. QED  BY <3>5, <5>1 DEF Enters
      <4>2. n.vm = m
        BY <1>5 DEF Has
      <4>. QED  BY <3>5, <4>1, <4>2, <3>1 DEF Enters, Entered, InDelete, There, Has
    <3>6. CASE Finishes(d)
      <4>1. c.op # "delete_vm" /\ n.step = "begin"
        BY <1>5, <3>6, HostAssumption DEF Finishes, Has
      <4>2. ~Enters(d)
        BY <4>1 DEF Enters, InDelete, InPut
      <4>. QED  BY <1>4, <3>3, <4>1, <4>2
    <3>7. CASE TurnsTo(d)
      <4>1. c.op # "delete_vm" /\ n.step = "begin"
        BY <3>7 DEF TurnsTo
      <4>2. ~Enters(d)
        BY <4>1 DEF Enters, InDelete, InPut
      <4>. QED  BY <1>4, <3>3, <4>1, <4>2
    <3>8. CASE Renews(d)
      <4>1. c.vm = None
        BY <3>8 DEF Renews, Places, JobsFit, NoMachineYet
      <4>. QED  BY <3>1, <4>1, HostAssumption DEF Has
    <3>. QED  BY <1>1, <1>3, <2>2, <3>4, <3>5, <3>6, <3>7, <3>8 DEF JobSteps
  <2>. QED  BY <2>1, <2>2
<1>6. ASSUME There(m)', owner'[m] = d
      PROVE  Has(Job(d), m)'
  <2>1. CASE \E t \in Threads : Creates(t, m)
    <3>1. PICK t \in Threads : Creates(t, m) /\ Granted(t, m)
      <4>1. life[m] = "fresh"
        BY <2>1 DEF Creates
      <4>2. ASSUME NEW u \in Threads, NEW a \in Machines, Creates(u, a)
            PROVE  a = m
        BY <1>6, <4>1, <4>2, TypeParts DEF Creates, There, MachineTypes
      <4>3. CASE \E u \in Threads, a \in Machines : Destroys(u, a)
        BY <1>6, <4>1, <4>3, TypeParts DEF Destroys, There, MachineTypes
      <4>. QED  BY <1>6, <4>1, <4>2, <4>3 DEF MachineMoves, Refits, PowersOn, PowersOff, Empties,
                Specializes, Closes, machines_, There
    <3>2. t[1] = d
      BY <1>6, <3>1, TypeParts DEF Creates, MachineTypes
    <3>3. t = Job(d)
      BY <3>1, <3>2, CalmParts, CreatedBy
    <3>4. Gets(d, m)
      BY <1>2, <3>1, <3>2, <3>3, JobsAndStrays DEF Granted
    <3>. QED  BY <3>4, GetFacts DEF Has
  <2>2. CASE ~\E t \in Threads : Creates(t, m)
    <3>1. There(m) /\ owner[m] = d
      BY <1>6, <2>2, LifeMoves DEF There
    <3>2. Has(Job(d), m)
      BY <3>1 DEF JobAlone
    <3>3. c.vm = m /\ m # None
      BY <3>2, HostAssumption DEF Has
    <3>4. ~Obtains(d)
      BY <3>3 DEF Obtains, Creates, At, Places, JobsFit, NoMachineYet
    <3>5. ~Renews(d)
      BY <3>3 DEF Renews, Places, JobsFit, NoMachineYet
    <3>6. CASE Finishes(d)
      <4>1. c.op # "delete_vm"
        <5>1. c.step # "folder"
          BY <3>1, <3>2 DEF JobAlone
        <5>. QED  BY <3>6, <5>1, FinishesDelete
      <4>. QED  BY <1>4, <3>3, <3>6, <4>1 DEF Finishes, Has
    <3>. QED  BY <1>1, <1>3, <3>3, <3>4, <3>5, <3>6 DEF JobSteps, Stays, Enters, TurnsTo, Has
  <2>. QED  BY <2>1, <2>2
<1>. QED  BY <1>5, <1>6

(* What is done to the machine of a job its own thread does. *)
LEMMA CalmOwner ==
    ASSUME CalmBase, NEW d \in Deployments, NEW m \in Machines, Has(Job(d), m), There(m),
           NEW t \in Threads, call[t].vm = m
    PROVE  t = Job(d)
<1>1. owner[m] = t[1] /\ owner[m] = Job(d)[1]
  BY JobsAndStrays DEF CalmBase, Ownership, Owned, There, Has
<1>2. call[Stray(d)] = Idle
  BY CalmParts, NoStrays DEF CalmBase
<1>3. t # Stray(d)
  BY <1>2, IdleFacts, HostAssumption
<1>. QED  BY <1>1, <1>3, JobsAndStrays

LEMMA PowerMoves ==
    ASSUME TypeOK, MachineMoves, NEW m \in Machines
    PROVE  power'[m] = power[m] \/ PowersOn(m) \/ PowersOff(m)
<1>. USE TypeParts DEF MachineTypes
<1>1. ASSUME NEW n \in Machines, PowersOn(n)
      PROVE  power'[m] = power[m] \/ PowersOn(m)
  BY <1>1 DEF PowersOn
<1>2. ASSUME NEW n \in Machines, PowersOff(n)
      PROVE  power'[m] = power[m] \/ PowersOff(m)
  BY <1>2 DEF PowersOff
<1>. QED  BY <1>1, <1>2 DEF MachineMoves, Creates, Refits, Destroys, Empties, Specializes, Closes,
          machines_

(* The guest of a job's machine is told to shut down by that job only. *)
LEMMA ClosingStays ==
    ASSUME CalmBase, MachineMoves, NEW d \in Deployments, NEW m \in Machines, Has(Job(d), m),
           There(m), ~row[d].keep
    PROVE  m \notin closing'
<1>1. m \notin closing
  BY DEF CalmBase, PowerKnown
<1>2. ASSUME NEW e \in Deployments, Closes(e)
      PROVE  row[e].vm # m
  <2>1. row[e].keep /\ call[Job(e)].vm = row[e].vm
    BY <1>2 DEF CalmBase, Closes, Places, KeepFits, JobsFit
  <2>2. CASE row[e].vm = m
    <3>1. Job(e) = Job(d)
      BY <2>1, <2>2, CalmOwner, JobsAndStrays
    <3>2. e = d
      BY <3>1, JobsAndStrays
    <3>. QED  BY <2>1, <3>2
  <2>. QED  BY <2>2
<1>3. ASSUME NEW e \in Deployments, Closes(e)
      PROVE  m \notin closing'
  BY <1>1, <1>2, <1>3 DEF Closes
<1>4. CASE closing' \subseteq closing
  BY <1>1, <1>4
<1>. QED  BY <1>3, <1>4 DEF MachineMoves, Creates, Refits, PowersOn, PowersOff, Destroys, Empties,
          Specializes, machines_

LEMMA PowerKnownStep ==
    ASSUME CalmBase, CallMoves, MachineMoves, Calm'
    PROVE  PowerKnown'
<1>. DEFINE Off == BeforeBoot \cup {"power_up"}
<1>. SUFFICES ASSUME NEW d \in Deployments, NEW m \in Machines, Has(Job(d), m)', There(m)'
              PROVE  /\ call'[Job(d)].op \in Off \/ call'[Job(d)].step = "destroy" =>
                           power'[m] = "off"
                     /\ call'[Job(d)].step = "off" => power'[m] = "on"
                     /\ ~row'[d].keep => m \notin closing'
  BY DEF PowerKnown
<1>. DEFINE c == call[Job(d)]
            n == call'[Job(d)]
<1>1. /\ JobSteps(d) /\ Job(d) \in Threads /\ Job(d)[1] = d
      /\ \A e \in Deployments : Stray(e) # Job(d)
  BY JobStepsHold, JobsAndStrays DEF CalmBase
<1>2. Without({"cancel", "crash"})' /\ Without({"operator"})'
  BY DEF Calm, Without, Kinds
<1>3. CASE Obtains(d)
  <2>1. Creates(Job(d), m) /\ n.op = "attach_iso" /\ n.step = "begin"
    BY <1>3 DEF Obtains, Has
  <2>2. power[m] = "off" /\ m \notin closing
    BY <2>1 DEF CalmBase, Creates, Ownership, MachinesFit
  <2>3. power'[m] = "off" /\ m \notin closing'
    BY <2>1, <2>2 DEF Creates
  <2>. QED  BY <2>1, <2>3
<1>4. CASE ~Obtains(d)
  <2>1. Has(Job(d), m) /\ There(m) /\ c.vm = m
    BY <1>1, <1>4, JobHadMachine, ThereBefore DEF CalmBase, Has
  <2>2. m # None /\ c.vm = row[d].vm
    BY HostAssumption DEF CalmBase, Places, JobsFit
  <2>3. c.op # "failed" /\ c.op # "upload_iso"
    BY <2>1, <2>2 DEF CalmBase, Places, JobsFit, NoMachineYet
  <2>4. Stays(d) \/ Enters(d) \/ Finishes(d) \/ TurnsTo(d)
    BY <1>1, <1>2, <1>4, <2>3 DEF JobSteps, Drops, Renews
  <2>5. ~row'[d].keep => m \notin closing'
    <3>1. ~row'[d].keep => ~row[d].keep
      BY <2>4 DEF Stays, Enters, Finishes, TurnsTo
    <3>. QED  BY <2>1, <3>1, ClosingStays
  <2>6. /\ c.op \in Off \/ c.step = "destroy" => power[m] = "off"
        /\ c.step = "off" => power[m] = "on"
        /\ ~row[d].keep => m \notin closing
    BY <2>1 DEF CalmBase, PowerKnown
  <2>7. ASSUME power'[m] = power[m]
        PROVE  /\ n.op \in Off \/ n.step = "destroy" => power'[m] = "off"
               /\ n.step = "off" => power'[m] = "on"
    <3>1. CASE Stays(d)
      BY <2>6, <2>7, <3>1 DEF Stays
    <3>2. CASE Enters(d)
      <4>1. n.op = "delete_vm" /\ Entered(Job(d), n.step)
        BY <2>3, <3>2 DEF Enters
      <4>. QED  BY <2>1, <4>1 DEF Entered, BeforeBoot
    <3>3. CASE Finishes(d)
      <4>1. n.op \in Off => c.op \in Off
        BY <3>3 DEF Finishes, Follows, BeforeBoot
      <4>2. n.step = "begin"
        BY <3>3 DEF Finishes
      <4>. QED  BY <2>6, <2>7, <4>1, <4>2
    <3>4. CASE TurnsTo(d)
      <4>1. n.step = "begin" /\ (n.op \in Off => IsOff(m))
        BY <2>1, <3>4 DEF TurnsTo, BeforeBoot, Tooling
      <4>. QED  BY <2>7, <4>1 DEF IsOff
    <3>. QED  BY <2>4, <3>1, <3>2, <3>3, <3>4
  <2>8. ASSUME PowersOn(m)
        PROVE  n.op \notin Off /\ n.step = "begin"
    <3>1. PICK t \in Threads : /\ call[t].vm = m /\ call[t].op \in {"power_on", "power_up"}
                               /\ \E ok \in BOOLEAN : Ended(t, ok)
      BY <1>2, <2>8 DEF PowersOn
    <3>2. t = Job(d)
      BY <2>1, <3>1, CalmOwner
    <3>3. PICK ok \in BOOLEAN : Ended(Job(d), ok)
      BY <3>1, <3>2
    <3>4. JobMoves(d, ok)
      BY <1>1, <3>3 DEF Ended, Ends
    <3>5. Follows(d, c.op, n.op) /\ n.step = "begin"
      BY <3>3, <3>4, JobMoveFacts DEF CalmBase, Ended
    <3>. QED  BY <3>1, <3>2, <3>5 DEF Follows, BeforeBoot
  <2>9. ASSUME PowersOff(m)
        PROVE  n.step # "off" /\ power'[m] = "off"
    <3>1. power'[m] = "off"
      BY <2>9, TypeParts DEF CalmBase, PowersOff, MachineTypes
    <3>2. ASSUME NEW t \in Threads, call[t].vm = m, Goes(t, "destroy")
          PROVE  n.step = "destroy"
      <4>1. t = Job(d)
        BY <2>1, <3>2, CalmOwner
      <4>. QED  BY <3>2, <4>1, GoFacts DEF CalmBase
    <3>3. ASSUME m \in closing, n.step = "off"
          PROVE  FALSE
      <4>1. c.op = "delete_vm"
        <5>1. CASE Stays(d)
          BY <1>1, <3>3, <5>1 DEF CalmBase, Stays, Places, StepsFit, InDelete
        <5>2. CASE Enters(d)
          BY <2>3, <5>2 DEF Enters
        <5>. QED  BY <2>4, <3>3, <5>1, <5>2 DEF Finishes, TurnsTo
      <4>2. ~row[d].keep
        BY <4>1 DEF CalmBase, Places, KeepFits
      <4>. QED  BY <2>6, <3>3, <4>2
    <3>. QED  BY <1>2, <2>9, <3>1, <3>2, <3>3 DEF PowersOff
  <2>10. power'[m] = power[m] \/ PowersOn(m) \/ PowersOff(m)
    BY PowerMoves DEF CalmBase
  <2>. QED  BY <2>5, <2>7, <2>8, <2>9, <2>10
<1>. QED  BY <1>3, <1>4

-----------------------------------------------------------------------------
(* The invariant *)

LEMMA InitThreads ==
    ASSUME Init
    PROVE  /\ \A d \in Deployments :
                 /\ call[Job(d)].op = "upload_answer" /\ call[Stray(d)] = Idle
                 /\ row[d].vm = None /\ ~row[d].keep
           /\ \A t \in Threads :
                 call[t].vm = None /\ call[t].step = "begin" /\ call[t].op \in {"upload_answer", "idle"}
           /\ \A m \in Machines : ~There(m)
<1>1. ASSUME NEW t \in Threads
      PROVE  call[t] = IF t = Job(t[1]) THEN Enter("upload_answer", None) ELSE Idle
  BY DEF Init
<1>2. ASSUME NEW d \in Deployments
      PROVE  call[Job(d)].op = "upload_answer" /\ call[Stray(d)] = Idle
  <2>1. call[Job(d)] = Enter("upload_answer", None) /\ call[Stray(d)] = Idle
    BY <1>1, JobsAndStrays
  <2>. QED  BY <2>1 DEF Enter
<1>3. \A t \in Threads :
         call[t].vm = None /\ call[t].step = "begin" /\ call[t].op \in {"upload_answer", "idle"}
  BY <1>1 DEF Enter, Idle
<1>4. \A d \in Deployments : row[d].vm = None /\ ~row[d].keep
  BY DEF Init
<1>5. \A m \in Machines : ~There(m)
  BY DEF Init, There, Contract!Init
<1>. QED  BY <1>2, <1>3, <1>4, <1>5

LEMMA InitTyped ==
    ASSUME Init
    PROVE  TypeOK
<1>1. call \in [Threads -> CallRecords]
  <2>1. Enter("upload_answer", None) \in CallRecords
    BY EnterFacts DEF Ops, Calls, Building
  <2>. QED  BY <2>1, IdleFacts DEF Init
<1>2. row \in [Deployments -> RowRecords]
  BY DEF Init, RowRecords
<1>3. MachineTypes
  BY DriveNames DEF Init, Contract!Init, MachineTypes, NoDrives
<1>4. FileTypes /\ CounterTypes
  BY HostAssumption DEF Init, FileTypes, CounterTypes
<1>. QED  BY <1>1, <1>2, <1>3, <1>4, TypeParts DEF Init

LEMMA InitInv ==
    ASSUME Init
    PROVE  Inv
<1>. USE InitThreads
<1>1. \A t \in Threads, m \in Machines : ~Has(t, m)
  BY HostAssumption DEF Has
<1>2. \A d \in Deployments : Job(d) \in Threads /\ Stray(d) \in Threads
  BY JobsAndStrays
<1>3. Places
  <2>1. \A d \in Deployments : call[Job(d)].op = "upload_answer" /\ call[Job(d)].vm = None
    BY <1>2
  <2>2. StepsFit
    BY DEF StepsFit, InDelete, InPut
  <2>3. JobsFit
    BY <2>1 DEF JobsFit, WithMachine, MachineCalls, Ejecting, Tooling
  <2>4. KeepFits
    BY <2>1 DEF KeepFits, Tooling
  <2>5. StraysFit
    BY IdleFacts DEF StraysFit, WithMachine, MachineCalls, Lasting, Calls, Building, Ejecting,
       Tooling, Failing
  <2>. QED  BY <2>2, <2>3, <2>4, <2>5 DEF Places
<1>4. Ownership
  BY <1>1, <1>2 DEF Ownership, MachinesFit, Owned, Apart, Init, Contract!Init, NoDrives
<1>5. MediaInv
  <2>1. \A d \in Deployments : call[Job(d)].op = "upload_answer"
    OBVIOUS
  <2>. QED  BY <1>1, <1>2, <2>1 DEF MediaInv, DrivesReady, KeptInstalled, Mounted, AnswerThere,
            ImageThere, AfterCreate
<1>6. Folders
  BY <1>2 DEF Folders, NamesUnique, FolderAlone, FilesKept
<1>7. CalmInv
  BY <1>1, <1>2 DEF CalmInv, JobAlone, PowerKnown
<1>. QED  BY <1>3, <1>4, <1>5, <1>6, <1>7, InitTyped DEF Inv

LEMMA InvStep ==
    ASSUME Inv, [Next]_vars
    PROVE  Inv'
<1>. USE DEF Inv
<1>1. /\ TypeOK' /\ Places' /\ CallMoves /\ MachineMoves /\ FileMoves
      /\ hostname' = hostname /\ happened \subseteq happened'
  BY TypesAndPlaces
<1>2. Ownership'
  BY <1>1, MachinesFitStep, OwnedStep, ApartStep DEF Ownership
<1>3. MediaInv'
  BY <1>1, DrivesReadyStep, KeptInstalledStep, MountedStep, AnswerThereStep, ImageThereStep
  DEF MediaInv
<1>4. Folders'
  BY <1>1, NamesUniqueStep, FolderAloneStep, FilesKeptStep DEF Folders
<1>5. CalmInv'
  <2>1. ASSUME Calm'
        PROVE  JobAlone' /\ PowerKnown'
    <3>1. Calm
      BY <1>1, <2>1, NextCalm
    <3>2. CalmBase
      BY <3>1 DEF CalmBase, CalmInv
    <3>. QED  BY <1>1, <2>1, <3>2, JobAloneStep, PowerKnownStep
  <2>. QED  BY <2>1 DEF CalmInv
<1>. QED  BY <1>1, <1>2, <1>3, <1>4, <1>5

LEMMA Invariance == Spec => []Inv
<1>1. Inv /\ [Next]_vars => Inv'
  BY InvStep
<1>. QED  BY <1>1, InitInv, PTL DEF Spec

-----------------------------------------------------------------------------
(* The theorems *)

(* Every reachable state of the host, of the rows and of the threads is    *)
(* well typed: a row names a machine or none (create_vm returns the new    *)
(* machine's id, not what waiting for the task returns), and a thread is   *)
(* at a step its call has.                                                 *)
THEOREM TypeOKHolds == Spec => []TypeOK
<1>1. Inv => TypeOK
  BY DEF Inv
<1>. QED  BY <1>1, Invariance, PTL

(* delete_vm, which deletes the folder of the machine's name after it has  *)
(* destroyed the machine, takes the files of no machine that was created   *)
(* since, unless two deployments share a name or a call outlives its job.  *)
THEOREM FilesKeptHolds == Spec => []FilesKept
<1>1. Inv => FilesKept
  BY DEF Inv, Folders
<1>. QED  BY <1>1, Invariance, PTL

(* As long as a job waits for Windows Setup, it has its ISO and its answer *)
(* file: no call of an earlier attempt, no operator and no other deployment*)
(* ejects them or takes the machine away.                                  *)
THEOREM SetupKeepsMediaHolds == Spec => []SetupKeepsMedia
<1>1. ASSUME Inv
      PROVE  SetupKeepsMedia
  <2>. SUFFICES ASSUME NEW d \in Deployments, Stands(d, "setup")
                PROVE  /\ There(row[d].vm)
                       /\ \A k \in Drives : drive[row[d].vm][k] = "setup"
                       /\ Without({"cancel", "put"}) => d \in answer
    BY DEF SetupKeepsMedia
  <2>1. call[Job(d)].op = "setup" /\ call[Job(d)].vm = row[d].vm
    BY <1>1 DEF Stands, Inv, Places, JobsFit
  <2>2. Has(Job(d), row[d].vm) /\ row[d].vm \in Machines
    BY <1>1, <2>1, JobMachine DEF Inv, WithMachine, Has
  <2>3. Mounted /\ AnswerThere
    BY <1>1 DEF Inv, MediaInv
  <2>4. /\ There(row[d].vm)
        /\ drive[row[d].vm]["cdrom"] = "setup" /\ drive[row[d].vm]["floppy"] = "setup"
    BY <2>1, <2>2, <2>3 DEF Mounted, AfterCreate
  <2>5. Without({"cancel", "put"}) => d \in answer
    BY <2>1, <2>3 DEF AnswerThere, AfterCreate
  <2>. QED  BY <2>4, <2>5, DriveNames
<1>. QED  BY <1>1, Invariance, PTL

(* The host takes every call a deployment depends on, over any number of   *)
(* attempts: nothing the driver itself did, and no call that failed before *)
(* it did anything, leaves a machine on that should be off, a name taken   *)
(* or a folder empty.                                                      *)
THEOREM CallsAcceptedHolds == Spec => []CallsAccepted
<1>1. ASSUME Inv
      PROVE  CallsAccepted
  <2>. SUFFICES ASSUME Calm, NEW d \in Deployments,
                       call[Job(d)].op \notin BestEffort \ {"delete_vm"}
                PROVE  ~Refuses(Job(d))
    BY DEF CallsAccepted, Calm
  <2>1. CalmBase
    BY <1>1 DEF CalmBase, Inv, CalmInv
  <2>. QED  BY <2>1, AcceptedWhenCalm
<1>. QED  BY <1>1, Invariance, PTL

LEMMA ContractPut ==
    ASSUME TypeOK, DrivesReady, NEW t \in Threads, NEW m \in Machines, NEW k \in Drives,
           NEW medium \in Media, Refits(t, m, k, medium)
    PROVE  Contract!Step(m)
<1>. DEFINE op == call[t].op
<1>1. Ready(op, m) /\ There(m)
  BY DEF Refits, Accepts, DrivesReady, Has
<1>2. FitsDrive(op, k, medium) /\ Accepts(op, m) /\ ~DriveGone(op, m) /\ Contract!Put(m, k, medium)
  BY DEF Refits, Contract!Put
<1>3. Contract!There(m)
  BY <1>1 DEF There, Contract!There
<1>4. CASE op = "attach_iso"
  <2>1. m \notin answering /\ drive[m]["cdrom"] = "absent" /\ k = "cdrom" /\ medium = "setup"
    BY <1>1, <1>2, <1>4, DriveNames DEF Ready, FitsDrive
  <2>2. power[m] = "off"
    BY <1>2, <1>4, <2>1 DEF Accepts
  <2>3. Contract!AttachIso(m)
    BY <1>2, <1>3, <2>1, <2>2 DEF Contract!AttachIso
  <2>. QED  BY <2>3 DEF Contract!Step
<1>5. CASE op = "attach_floppy"
  <2>1. m \notin answering /\ drive[m]["floppy"] = "absent" /\ k = "floppy" /\ medium = "setup"
    BY <1>1, <1>2, <1>5 DEF Ready, FitsDrive
  <2>2. power[m] = "off"
    BY <1>2, <1>5, <2>1 DEF Accepts
  <2>3. Contract!AttachFloppy(m)
    BY <1>2, <1>3, <2>1, <2>2 DEF Contract!AttachFloppy
  <2>. QED  BY <2>3 DEF Contract!Step
<1>6. CASE op \in Ejecting \cup Tooling
  <2>1. m \in answering
    BY <1>1, <1>6 DEF Ready
  <2>2. CASE op \in {"detach_iso", "eject_tools"}
    <3>1. drive[m]["cdrom"] # "absent" /\ k = "cdrom" /\ medium = "empty"
      BY <1>2, <2>2 DEF DriveGone, FitsDrive
    <3>2. Contract!DetachIso(m)
      BY <1>2, <1>3, <2>1, <3>1 DEF Contract!DetachIso
    <3>. QED  BY <3>2 DEF Contract!Step
  <2>3. CASE op = "detach_floppy"
    <3>1. drive[m]["floppy"] # "absent" /\ k = "floppy" /\ medium = "empty"
      BY <1>2, <2>3 DEF DriveGone, FitsDrive
    <3>2. Contract!DetachFloppy(m)
      BY <1>2, <1>3, <2>1, <3>1 DEF Contract!DetachFloppy
    <3>. QED  BY <3>2 DEF Contract!Step
  <2>4. CASE op = "remove_floppy"
    <3>1. power[m] = "off" /\ k = "floppy" /\ medium = "absent"
      BY <1>2, <2>4 DEF Accepts, FitsDrive
    <3>2. Contract!RemoveFloppy(m)
      BY <1>2, <1>3, <2>1, <3>1 DEF Contract!RemoveFloppy
    <3>. QED  BY <3>2 DEF Contract!Step
  <2>5. CASE op = "remove_cdrom"
    <3>1. power[m] = "off" /\ k = "cdrom" /\ medium = "absent"
      BY <1>2, <2>5 DEF Accepts, FitsDrive
    <3>2. Contract!RemoveCdrom(m)
      BY <1>2, <1>3, <2>1, <3>1 DEF Contract!RemoveCdrom
    <3>. QED  BY <3>2 DEF Contract!Step
  <2>6. CASE op = "mount_tools"
    <3>1. drive[m]["cdrom"] # "absent" /\ k = "cdrom" /\ medium = "tools"
      BY <1>2, <2>6 DEF Accepts, FitsDrive
    <3>2. Contract!MountToolsInstaller(m)
      BY <1>2, <1>3, <2>1, <3>1 DEF Contract!MountToolsInstaller
    <3>. QED  BY <3>2 DEF Contract!Step
  <2>. QED  BY <1>2, <1>6, <2>2, <2>3, <2>4, <2>5, <2>6 DEF FitsDrive, Ejecting, Tooling
<1>. QED  BY <1>2, <1>4, <1>5, <1>6 DEF FitsDrive, Ejecting, Tooling

LEMMA ContractStep ==
    ASSUME TypeOK, DrivesReady, MachineMoves
    PROVE  Contract!Next \/ UNCHANGED Contract!machineVars
<1>1. ASSUME NEW m \in Machines, Contract!Step(m)
      PROVE  Contract!Next
  BY <1>1 DEF Contract!Next
<1>2. ASSUME UNCHANGED <<life, power, drive, answering>>
      PROVE  UNCHANGED Contract!machineVars
  BY <1>2 DEF Contract!machineVars
<1>3. ASSUME NEW t \in Threads, NEW m \in Machines, Creates(t, m)
      PROVE  Contract!Next
  <2>1. Contract!CreateVm(m)
    BY <1>3 DEF Creates, Contract!CreateVm
  <2>. QED  BY <1>1, <2>1 DEF Contract!Step
<1>4. ASSUME NEW t \in Threads, NEW m \in Machines, NEW k \in Drives, NEW medium \in Media,
             Refits(t, m, k, medium)
      PROVE  Contract!Next
  BY <1>1, <1>4, ContractPut
<1>5. ASSUME NEW m \in Machines, PowersOn(m)
      PROVE  Contract!Next
  <2>1. Contract!PowerOn(m)
    BY <1>5 DEF PowersOn, There, Contract!PowerOn, Contract!There
  <2>. QED  BY <1>1, <2>1 DEF Contract!Step
<1>6. ASSUME NEW m \in Machines, PowersOff(m)
      PROVE  Contract!Next
  <2>1. Contract!PowerOff(m)
    BY <1>6 DEF PowersOff, There, Contract!PowerOff, Contract!There
  <2>. QED  BY <1>1, <2>1 DEF Contract!Step
<1>7. ASSUME NEW t \in Threads, NEW m \in Machines, Destroys(t, m)
      PROVE  Contract!Next
  <2>1. Contract!DeleteVm(m)
    BY <1>7 DEF Destroys, There, NoDrives, Contract!DeleteVm, Contract!There
  <2>. QED  BY <1>1, <2>1 DEF Contract!Step
<1>8. ASSUME NEW m \in Machines, Specializes(m)
      PROVE  Contract!Next
  <2>1. Contract!Answer(m)
    BY <1>8 DEF Specializes, There, Drives, Contract!Answer, Contract!There
  <2>. QED  BY <1>1, <2>1 DEF Contract!Step
<1>. QED  BY <1>2, <1>3, <1>4, <1>5, <1>6, <1>7, <1>8 DEF MachineMoves, Empties, Closes, machines_

(* Whatever calls of whichever attempts, late ones included, and whichever *)
(* hands on the power switch come between: each machine is created, given  *)
(* its media, comes to specialize, is emptied of them and destroyed in the *)
(* order of the drivers' contract (base.py), a drive removed only while it *)
(* is off.  The media may leave it before Setup is over: WinRM answers     *)
(* from the specialize pass on.                                            *)
THEOREM ContractHolds == Spec => ContractSpec
<1>1. Init => Contract!Init
  BY DEF Init
<1>2. Inv /\ [Next]_vars => [Contract!Next]_Contract!machineVars
  <2>1. ASSUME Inv, [Next]_vars
        PROVE  Contract!Next \/ UNCHANGED Contract!machineVars
    <3>1. TypeOK /\ Places /\ DrivesReady
      BY <2>1 DEF Inv, MediaInv
    <3>2. MachineMoves
      BY <2>1, <3>1, TypesAndPlaces
    <3>. QED  BY <3>1, <3>2, ContractStep
  <2>. QED  BY <2>1
<1>. QED  BY <1>1, <1>2, Invariance, PTL DEF Spec, ContractSpec, Contract!Spec
=============================================================================
