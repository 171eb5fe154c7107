-------------------------- MODULE DeploymentLifecycle --------------------------
(***************************************************************************)
(* What the provisioning pipeline promises about one deployment, as an     *)
(* operator sees it: the state it shows and whether it names a virtual     *)
(* machine.  One operation per line of the promise; the pipeline of module *)
(* Provisioning implements this specification when nothing runs a job      *)
(* twice and the stale-deployment sweep stays out of its way.              *)
(***************************************************************************)
EXTENDS DeploymentStates

VARIABLES state,    \* the deployment's state
          hasVm     \* whether the deployment names a virtual machine

lifecycle == <<state, hasVm>>

Init == state = "pending" /\ hasVm = FALSE

(* The machine is created, once, while the deployment is creating_vm.      *)
Create ==
    /\ state = "creating_vm" /\ ~hasVm
    /\ hasVm' = TRUE
    /\ UNCHANGED state

(* One step forward.  From booting on there is a machine to work on.       *)
Advance ==
    \E to \in DeploymentState \ {"failed"} :
        /\ CanTransition(state, to)
        /\ to # "creating_vm" => hasVm
        /\ state' = to
        /\ UNCHANGED hasVm

(* A failure keeps the machine exactly when Windows was installed on it.   *)
Fail ==
    /\ CanTransition(state, "failed")
    /\ state' = "failed"
    /\ hasVm' = (hasVm /\ state \in KEEPABLE_ON_FAILURE_STATES)

(* A full retry starts over without a machine ...                          *)
Retry ==
    /\ state = "failed"
    /\ state' = "pending"
    /\ hasVm' = FALSE

(* ... and a post-install retry needs the one that was kept.               *)
RetryPostInstall ==
    /\ state = "failed" /\ hasVm
    /\ state' = "installing_os"
    /\ UNCHANGED hasVm

Next == Create \/ Advance \/ Fail \/ Retry \/ RetryPostInstall

Spec == Init /\ [][Next]_lifecycle

===============================================================================
