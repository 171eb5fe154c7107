--------------------------- MODULE DeploymentStates ---------------------------
(***************************************************************************)
(* The deployment state machine of services/deployment_service.py: the     *)
(* states, the transitions DeploymentStateMachine.transition accepts, and  *)
(* the states in which a failure keeps the virtual machine.                *)
(***************************************************************************)

DeploymentState == {"pending", "creating_vm", "booting", "installing_os",
                    "post_install", "configuring", "completed", "failed"}

TERMINAL_STATES == {"completed", "failed"}

(* The forward edges; "failed" is reachable from every state that is not   *)
(* terminal and is added by CanTransition, as transition() does.           *)
ALLOWED_TRANSITIONS ==
    {<<"pending", "creating_vm">>,      <<"creating_vm", "booting">>,
     <<"booting", "installing_os">>,    <<"installing_os", "post_install">>,
     <<"post_install", "configuring">>, <<"configuring", "completed">>}

CanTransition(from, to) ==
    /\ from \notin TERMINAL_STATES
    /\ to = "failed" \/ <<from, to>> \in ALLOWED_TRANSITIONS

(* Wrong on purpose: one state too many. *)
KeepableFault == {"installing_os", "post_install", "configuring"}

(* provision.py keeps the VM of a deployment that fails in one of these.   *)
KEEPABLE_ON_FAILURE_STATES == {"post_install", "configuring"}

===============================================================================
