--------------------------- MODULE HypervisorDriver ---------------------------
(***************************************************************************)
(* The contract of a hypervisor backend as the pipeline uses it: what may  *)
(* happen to a virtual machine and its two drives.  The Windows ISO goes   *)
(* into the CD-ROM, the answer file onto the floppy; both stay until the   *)
(* guest can answer, which it does from the specialize pass of Windows     *)
(* Setup on, and a drive is removed only from a machine that is off.       *)
(* Module EsxiHost implements it.                                          *)
(***************************************************************************)
CONSTANT Machines

VARIABLES
    life,       \* whether a machine exists: "fresh" not yet, "gone" no more
    power,      \* PowerState
    drive,      \* what is in the drives
    answering   \* machines whose guest has come to specialize: WinRM answers

machineVars == <<life, power, drive, answering>>

Drives == {"cdrom", "floppy"}
Media == {"absent", "empty", "setup", "tools"}

NoDrives == [k \in Drives |-> "absent"]

Init ==
    /\ life = [m \in Machines |-> "fresh"]
    /\ power = [m \in Machines |-> "off"]
    /\ drive = [m \in Machines |-> NoDrives]
    /\ answering = {}

There(m) == life[m] = "there"

Put(m, k, medium) ==
    /\ drive' = [drive EXCEPT ![m] = [drive[m] EXCEPT ![k] = medium]]
    /\ UNCHANGED <<life, power, answering>>

(* create_vm: a machine without drives, off. *)
CreateVm(m) ==
    /\ life[m] = "fresh"
    /\ life' = [life EXCEPT ![m] = "there"]
    /\ UNCHANGED <<power, drive, answering>>

(* attach_iso and attach_floppy: once, before the machine runs. *)
AttachIso(m) ==
    /\ There(m) /\ power[m] = "off" /\ m \notin answering /\ drive[m]["cdrom"] = "absent"
    /\ Put(m, "cdrom", "setup")

AttachFloppy(m) ==
    /\ There(m) /\ power[m] = "off" /\ m \notin answering /\ drive[m]["floppy"] = "absent"
    /\ Put(m, "floppy", "setup")

(* detach_iso and detach_floppy leave the drive empty. *)
DetachIso(m) ==
    There(m) /\ m \in answering /\ drive[m]["cdrom"] # "absent" /\ Put(m, "cdrom", "empty")

DetachFloppy(m) ==
    There(m) /\ m \in answering /\ drive[m]["floppy"] # "absent" /\ Put(m, "floppy", "empty")

(* mount_tools_installer takes the drive that is there. *)
MountToolsInstaller(m) ==
    There(m) /\ m \in answering /\ drive[m]["cdrom"] # "absent" /\ Put(m, "cdrom", "tools")

(* remove_cdrom and remove_floppy: only valid while powered off. *)
RemoveCdrom(m) ==
    There(m) /\ m \in answering /\ power[m] = "off" /\ Put(m, "cdrom", "absent")

RemoveFloppy(m) ==
    There(m) /\ m \in answering /\ power[m] = "off" /\ Put(m, "floppy", "absent")

PowerOn(m) ==
    /\ There(m) /\ power[m] = "off"
    /\ power' = [power EXCEPT ![m] = "on"]
    /\ UNCHANGED <<life, drive, answering>>

(* power_off, graceful or hard, or the guest's own doing. *)
PowerOff(m) ==
    /\ There(m) /\ power[m] = "on"
    /\ power' = [power EXCEPT ![m] = "off"]
    /\ UNCHANGED <<life, drive, answering>>

(* Windows Setup needs the ISO and the answer file to come to specialize. *)
Answer(m) ==
    /\ There(m) /\ power[m] = "on"
    /\ \A k \in Drives : drive[m][k] = "setup"
    /\ answering' = answering \cup {m}
    /\ UNCHANGED <<life, power, drive>>

(* delete_vm: the machine is off by then. *)
DeleteVm(m) ==
    /\ There(m) /\ power[m] = "off"
    /\ life' = [life EXCEPT ![m] = "gone"]
    /\ drive' = [drive EXCEPT ![m] = NoDrives]
    /\ answering' = answering \ {m}
    /\ UNCHANGED power

Step(m) ==
    \/ CreateVm(m) \/ AttachIso(m) \/ AttachFloppy(m) \/ DetachIso(m) \/ DetachFloppy(m)
    \/ MountToolsInstaller(m) \/ RemoveCdrom(m) \/ RemoveFloppy(m)
    \/ PowerOn(m) \/ PowerOff(m) \/ Answer(m) \/ DeleteVm(m)

Next == \E m \in Machines : Step(m)

Spec == Init /\ [][Next]_machineVars

===============================================================================
