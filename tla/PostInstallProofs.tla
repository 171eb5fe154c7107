--------------------------- MODULE PostInstallProofs ---------------------------
(***************************************************************************)
(* Theorems about PostInstall, for any templates, addresses, number of     *)
(* retries and number and kind of incidents.                               *)
(***************************************************************************)
EXTENDS PostInstall, TLAPS

-----------------------------------------------------------------------------
(* What the stages that come after one presuppose. *)

AfterApps == {"scripts", "updates", "join", "reboot", "admin", "close", "complete"}
AfterFeatures == {"rdp", "apps"} \cup AfterApps
AfterJoin == {"reboot", "admin", "close", "complete"}

Ats == {"idle", "address", "probe", "begin", "verified", "restart", "settle", "install",
        "eject", "shutdown", "await off", "remove", "power on", "register", "poll",
        "read", "clean", "enrol"}

Execs ==
    [stage : Stages \cup {"none"}, at : Ats, todo : SUBSET Apps,
     what : Apps \cup {"updates", "none"}, ok : {"none", "OK", "FAIL", "raised"},
     addr : Addresses \cup {None}, unit : BOOLEAN]

Deployments ==
    [state : {"installing_os", "post_install", "configuring", "failed", "completed"},
     wanted : Templates, host : {"none", "made", "enrolled"}, kept : BOOLEAN,
     addr : Addresses \cup {None}]

Guests ==
    [power : {"on", "off"}, pending : {"none", "restart", "shutdown"}, winrm : BOOLEAN,
     addr : Addresses, features : BOOLEAN, apps : SUBSET Apps,
     agent : {"none", "working", "enrolled"}, joined : BOOLEAN,
     media : {"empty", "tools", "removed"}]

Tasks ==
    [what : Apps \cup {"updates"}, try : 0 .. MaxRetries, st : {"running", "done"},
     res : {"none", "OK", "FAIL"}]

Types ==
    /\ exec \in Execs /\ deployment \in Deployments /\ guest \in Guests
    /\ task \subseteq Tasks
    /\ assets \subseteq Apps /\ retries \in 0 .. MaxRetries /\ lost \in BOOLEAN

(* Where an execution is in its stage. *)
AtTask == exec.at \in {"register", "poll", "read", "clean"}

Places ==
    /\ exec.stage = "none" <=> exec.at = "idle"
    /\ exec.stage = "complete" => exec.at = "begin"
    /\ AtTask => \/ exec.stage = "apps" /\ exec.what \in Apps
                 \/ exec.stage = "updates" /\ exec.what = "updates"
    /\ exec.at = "enrol" => exec.stage = "apps" /\ exec.what = "agent"
    /\ exec.at = "settle" => exec.stage \in {"tools", "features", "reboot"}
    /\ exec.at \in {"verified", "restart"} => exec.stage = "features"
    /\ deployment.state \in {"failed", "completed"} => exec.stage = "none"

(* What is known of the agent and of the results. *)
Installed ==
    /\ guest.agent # "none" => "agent" \in guest.apps
    /\ deployment.host = "enrolled" => guest.agent = "enrolled"
    /\ \A t \in task : t.res = "OK" /\ t.what \in Apps => t.what \in guest.apps

FeaturesDone ==
    "features" \in Wanted =>
        \/ guest.features
        \/ /\ exec.stage \notin AfterFeatures /\ deployment.state # "completed"
           /\ exec.at \notin {"verified", "restart"}
           /\ ~(exec.stage = "features" /\ exec.at = "settle")

JoinDone ==
    "join" \in Wanted =>
        guest.joined \/ (exec.stage \notin AfterJoin /\ deployment.state # "completed")

AppsLeft ==
    exec.stage = "apps" =>
        /\ \A what \in Wanted \cap assets :
              \/ what \in exec.todo
              \/ AtTask /\ exec.what = what
              \/ what \in guest.apps
        /\ "agent" \in Wanted \cap assets =>
              \/ "agent" \in exec.todo
              \/ (AtTask \/ exec.at = "enrol") /\ exec.what = "agent"
              \/ deployment.host = "enrolled"
        /\ exec.at = "clean" /\ exec.ok = "OK" => exec.what \in guest.apps

AppsInstalled ==
    exec.stage \in AfterApps \/ deployment.state \in {"configuring", "completed"} =>
        /\ Wanted \cap assets \subseteq guest.apps
        /\ "agent" \in Wanted \cap assets => deployment.host = "enrolled"

OwnTasks ==
    ~lost => /\ exec.at \in {"poll", "read", "clean"} => task \subseteq Mine
             /\ exec.at \notin {"poll", "read", "clean"} => task = {}

Inv ==
    /\ Types /\ Places /\ Installed /\ FeaturesDone /\ JoinDone
    /\ AppsLeft /\ AppsInstalled /\ OwnTasks /\ ClosedIsDone

-----------------------------------------------------------------------------
(* Moves.  Most steps of the worker fail, go on to the next stage or go on *)
(* within the stage, while the guest only gains.                           *)

Gains ==
    /\ guest' \in Guests /\ guest'.agent = guest.agent /\ guest'.winrm = guest.winrm
    /\ guest.apps \subseteq guest'.apps
    /\ guest.features => guest'.features
    /\ guest.joined => guest'.joined

Keeps == Gains /\ UNCHANGED <<assets, retries>> /\ lost' \in BOOLEAN /\ (lost => lost')

LEMMA NextStageFacts ==
    ASSUME NEW stage, NEW next, NextStage(stage, next)
    PROVE  /\ stage \in Stages \ {"complete"} /\ next \in Stages \ {"reach"}
           /\ next \in AfterFeatures =>
                 stage \in AfterFeatures \cup {"features"} \/ "features" \notin Wanted
           /\ next \in AfterApps => stage \in AfterApps \cup {"apps"}
           /\ next \in AfterJoin =>
                 stage \in AfterJoin \cup {"join"} \/ "join" \notin Wanted
           /\ stage = "close" => next = "complete"
<1>1. PICK i \in 1 .. 13, j \in 1 .. 13 :
        /\ i < j /\ Order[i] = stage /\ Order[j] = next
        /\ \A k \in i + 1 .. j - 1 : Skipped(Order[k])
  BY DEF NextStage, Order
<1>2. /\ Order[1] = "reach" /\ Order[2] = "layout" /\ Order[3] = "tools"
      /\ Order[4] = "features" /\ Order[5] = "rdp" /\ Order[6] = "apps"
      /\ Order[7] = "scripts" /\ Order[8] = "updates" /\ Order[9] = "join"
      /\ Order[10] = "reboot" /\ Order[11] = "admin" /\ Order[12] = "close"
      /\ Order[13] = "complete"
  BY DEF Order
<1>3. stage \in Stages \ {"complete"} /\ next \in Stages \ {"reach"}
  BY <1>1, <1>2 DEF Stages, Order
<1>4. next \in AfterFeatures =>
        stage \in AfterFeatures \cup {"features"} \/ "features" \notin Wanted
  BY <1>1, <1>2 DEF AfterFeatures, AfterApps, Skipped, Optional
<1>5. next \in AfterApps => stage \in AfterApps \cup {"apps"}
  BY <1>1, <1>2 DEF AfterApps, Skipped, Optional
<1>6. next \in AfterJoin => stage \in AfterJoin \cup {"join"} \/ "join" \notin Wanted
  BY <1>1, <1>2 DEF AfterJoin, Skipped, Optional
<1>7. stage = "close" => next = "complete"
  BY <1>1, <1>2
<1>. QED  BY <1>3, <1>4, <1>5, <1>6, <1>7

LEMMA FailMoves ==
    ASSUME Types, Fail
    PROVE  /\ deployment' \in Deployments /\ deployment'.state = "failed"
           /\ deployment'.wanted = deployment.wanted /\ deployment'.host = deployment.host
           /\ exec' = Idle
<1>1. \A k \in BOOLEAN :
         LET d == [deployment EXCEPT !.state = "failed", !.kept = k]
         IN  /\ d \in Deployments /\ d.state = "failed"
             /\ d.wanted = deployment.wanted /\ d.host = deployment.host
  BY DEF Types, Deployments
<1>. DEFINE k == deployment.state # "installing_os"
<1>2. k \in BOOLEAN
  OBVIOUS
<1>3. deployment' = [deployment EXCEPT !.state = "failed", !.kept = k] /\ exec' = Idle
  BY DEF Fail, Failed
<1>. HIDE DEF k
<1>. QED  BY <1>1, <1>2, <1>3

LEMMA IdleFacts ==
    /\ Idle \in Execs /\ Idle.stage = "none" /\ Idle.at = "idle" /\ Idle.todo = {}
    /\ Entered \in Execs /\ Entered.stage = "reach" /\ Entered.at = "address"
<1>1. "reach" \in Stages
  <2>1. Order[1] = "reach" /\ 1 \in DOMAIN Order
    BY DEF Order
  <2>. QED  BY <2>1 DEF Stages
<1>. QED  BY <1>1 DEF Idle, Entered, Execs, Ats

LEMMA ProceedMoves ==
    ASSUME Types, Proceed
    PROVE  /\ deployment' \in Deployments /\ deployment'.state = StateAt(exec'.stage)
           /\ deployment'.wanted = deployment.wanted /\ deployment'.host = deployment.host
           /\ exec' \in Execs /\ exec'.at = "begin" /\ NextStage(exec.stage, exec'.stage)
           /\ exec'.stage = "apps" => exec'.todo = Wanted \cap Apps
<1>1. PICK stage \in Stages :
        /\ NextStage(exec.stage, stage)
        /\ exec' = [exec EXCEPT !.stage = stage, !.at = "begin", !.unit = FALSE,
                      !.todo = IF stage = "apps" THEN Wanted \cap Apps ELSE {}]
        /\ deployment' = [deployment EXCEPT !.state = StateAt(stage)]
  BY DEF Proceed
<1>2. exec' \in Execs /\ exec'.at = "begin" /\ exec'.stage = stage
      /\ (stage = "apps" => exec'.todo = Wanted \cap Apps)
  BY <1>1 DEF Types, Execs, Ats
<1>3. StateAt(stage) \in {"post_install", "configuring"}
  BY DEF StateAt
<1>4. /\ deployment' \in Deployments /\ deployment'.state = StateAt(stage)
      /\ deployment'.wanted = deployment.wanted /\ deployment'.host = deployment.host
  BY <1>1, <1>3 DEF Types, Deployments
<1>. QED  BY <1>1, <1>2, <1>4

LEMMA GotoMoves ==
    ASSUME Types, NEW at \in Ats, Goto(at)
    PROVE  /\ exec' \in Execs /\ exec'.at = at /\ exec'.stage = exec.stage
           /\ exec'.todo = exec.todo /\ exec'.what = exec.what /\ exec'.ok = exec.ok
           /\ UNCHANGED deployment
BY DEF Goto, Types, Execs

(* What is done stays done. *)
LEMMA DoneStays ==
    ASSUME ClosedIsDone, deployment'.wanted = deployment.wanted, assets' \subseteq assets,
           guest.apps \subseteq guest'.apps, guest'.winrm = guest.winrm,
           guest.features => guest'.features, guest.joined => guest'.joined,
           deployment.host = "enrolled" => deployment'.host = "enrolled"
    PROVE  ClosedIsDone'
BY DEF ClosedIsDone, Done, Wanted

(* Tasks end, start and go; no result appears. *)
Tidy ==
    /\ task' \subseteq Tasks
    /\ \A t \in task' : t.res = "OK" => t \in task
    /\ OwnTasks'

LEMMA FailMove ==
    ASSUME Inv, Fail, Keeps, Tidy, exec.stage # "complete", deployment.state # "completed"
    PROVE  Inv'
<1>1. /\ deployment' \in Deployments /\ deployment'.state = "failed"
      /\ deployment'.wanted = deployment.wanted /\ deployment'.host = deployment.host
      /\ exec' = Idle
  BY FailMoves DEF Inv
<1>2. /\ exec' \in Execs /\ exec'.stage = "none" /\ exec'.at = "idle" /\ exec'.todo = {}
  BY <1>1, IdleFacts
<1>3. Types'
  BY <1>1, <1>2 DEF Inv, Types, Keeps, Gains, Tidy
<1>4. Places'
  BY <1>1, <1>2 DEF Places, AtTask
<1>5. Installed'
  BY <1>1 DEF Inv, Installed, Keeps, Gains, Tidy
<1>6. FeaturesDone' /\ JoinDone' /\ AppsLeft' /\ AppsInstalled'
  BY <1>1, <1>2 DEF FeaturesDone, JoinDone, AppsLeft, AppsInstalled, AfterFeatures,
     AfterApps, AfterJoin
<1>7. OwnTasks'
  BY DEF Tidy
<1>8. ClosedIsDone'
  BY <1>1, DoneStays DEF Inv, Keeps, Gains
<1>. QED  BY <1>3, <1>4, <1>5, <1>6, <1>7, <1>8 DEF Inv

(* A stage that gets somewhere is done. *)
LEMMA ProceedMove ==
    ASSUME Inv, Proceed, Tidy, guest' \in Guests, UNCHANGED <<assets, retries>>,
           lost' \in BOOLEAN, lost => lost',
           guest'.agent = guest.agent, guest.apps \subseteq guest'.apps,
           guest.features => guest'.features, guest.joined => guest'.joined,
           guest'.winrm = guest.winrm \/ exec.stage = "close",
           exec.stage = "features" => exec.at \in {"verified", "settle"},
           exec.stage = "join" => guest'.joined,
           exec.stage = "apps" => exec.at = "begin" /\ exec.todo = {}
    PROVE  Inv'
<1>1. /\ deployment' \in Deployments /\ deployment'.state = StateAt(exec'.stage)
      /\ deployment'.wanted = deployment.wanted /\ deployment'.host = deployment.host
      /\ exec' \in Execs /\ exec'.at = "begin"
      /\ exec'.stage = "apps" => exec'.todo = Wanted \cap Apps
  BY ProceedMoves DEF Inv
<1>2. /\ exec.stage \in Stages \ {"complete"} /\ exec'.stage \in Stages \ {"reach"}
      /\ exec'.stage \in AfterFeatures =>
            exec.stage \in AfterFeatures \cup {"features"} \/ "features" \notin Wanted
      /\ exec'.stage \in AfterApps => exec.stage \in AfterApps \cup {"apps"}
      /\ exec'.stage \in AfterJoin =>
            exec.stage \in AfterJoin \cup {"join"} \/ "join" \notin Wanted
      /\ exec.stage = "close" => exec'.stage = "complete"
  <2>1. NextStage(exec.stage, exec'.stage)
    BY ProceedMoves DEF Inv
  <2>. QED  BY <2>1, NextStageFacts
<1>3. deployment'.state \in {"post_install", "configuring"}
      /\ (deployment'.state = "configuring" => exec'.stage \in AfterApps)
  BY <1>1 DEF StateAt, AfterApps
<1>4. exec.stage \notin {"none", "complete"} /\ exec'.stage # "none"
  BY <1>2 DEF Stages, Order
<1>5. Types'
  BY <1>1 DEF Inv, Types, Tidy
<1>6. Places'
  BY <1>1, <1>3, <1>4 DEF Places, AtTask
<1>7. Installed'
  BY <1>1 DEF Inv, Installed, Tidy
<1>8. FeaturesDone'
  BY <1>1, <1>2, <1>3 DEF Inv, FeaturesDone, Wanted, AfterFeatures, AfterApps
<1>9. JoinDone'
  BY <1>1, <1>2, <1>3 DEF Inv, JoinDone, Wanted
<1>10. AppsLeft'
  BY <1>1 DEF Inv, Types, AppsLeft, AtTask, Wanted
<1>11. AppsInstalled'
  <2>1. exec'.stage \in AfterApps =>
           /\ Wanted \cap assets \subseteq guest.apps
           /\ "agent" \in Wanted \cap assets => deployment.host = "enrolled"
    BY <1>2 DEF Inv, AppsLeft, AppsInstalled, AtTask
  <2>. QED  BY <1>1, <1>3, <2>1 DEF AppsInstalled, Wanted
<1>12. ClosedIsDone'
  <2>1. CASE exec.stage = "close"
    <3>1. exec'.stage = "complete"
      BY <1>2, <2>1
    <3>. QED  BY <1>8, <1>9, <1>11, <3>1 DEF ClosedIsDone, Done, FeaturesDone, JoinDone,
            AppsInstalled, AfterFeatures, AfterApps, AfterJoin
  <2>2. CASE exec.stage # "close"
    BY <1>1, <2>2, DoneStays DEF Inv
  <2>. QED  BY <2>1, <2>2
<1>. QED  BY <1>5, <1>6, <1>7, <1>8, <1>9, <1>10, <1>11, <1>12 DEF Inv, Tidy

(* The stage stays the same. *)
Within ==
    /\ exec' \in Execs /\ exec'.stage = exec.stage /\ exec.stage \notin {"none", "complete"}
    /\ deployment' \in Deployments /\ deployment'.state = deployment.state
    /\ deployment'.wanted = deployment.wanted
    /\ deployment'.host = "enrolled" <=> deployment.host = "enrolled"

LEMMA WithinMove ==
    ASSUME Inv, Within, Keeps, Tidy, Places', AppsLeft',
           exec.stage = "features" =>
               exec.at \in {"verified", "restart", "settle"} \/ guest'.features
    PROVE  Inv'
<1>1. Types'
  BY DEF Within, Inv, Types, Keeps, Gains, Tidy
<1>2. Installed'
  BY DEF Within, Inv, Installed, Keeps, Gains, Tidy
<1>3. FeaturesDone'
  BY DEF Within, Inv, Places, FeaturesDone, Wanted, Keeps, Gains
<1>4. JoinDone'
  BY DEF Within, Inv, JoinDone, Wanted, Keeps, Gains
<1>5. AppsInstalled'
  BY DEF Within, Inv, AppsInstalled, Wanted, Keeps, Gains
<1>6. ClosedIsDone'
  BY DoneStays DEF Within, Inv, Keeps, Gains
<1>. QED  BY <1>1, <1>2, <1>3, <1>4, <1>5, <1>6 DEF Inv, Tidy

(* Outside the stages with tasks, a step within the stage only has to take *)
(* care of where it goes.                                                  *)
LEMMA GotoMove ==
    ASSUME Inv, Keeps, Tidy, NEW at \in Ats \ {"idle", "register", "poll", "read", "clean", "enrol"},
           Goto(at), exec.stage \notin {"none", "complete", "apps"},
           at = "settle" => exec.stage \in {"tools", "features", "reboot"},
           at \in {"verified", "restart"} => exec.stage = "features",
           exec.stage = "features" =>
               exec.at \in {"verified", "restart", "settle"} \/ guest'.features
    PROVE  Inv'
<1>1. /\ exec' \in Execs /\ exec'.at = at /\ exec'.stage = exec.stage
      /\ UNCHANGED deployment
  BY GotoMoves DEF Inv
<1>2. Within
  BY <1>1 DEF Within, Inv, Types
<1>3. Places'
  BY <1>1 DEF Inv, Places, AtTask
<1>4. AppsLeft'
  BY <1>1 DEF AppsLeft
<1>. QED  BY <1>2, <1>3, <1>4, WithinMove

(* Where no task is looked after, a step that registers none is tidy. *)
Busy == {"poll", "read", "clean"}

LEMMA Quiet ==
    ASSUME Inv, exec.at \notin Busy, exec'.at \notin Busy, UNCHANGED task, lost => lost'
    PROVE  Tidy
BY DEF Inv, Types, Tidy, OwnTasks, Busy

(* What the worker's calls do to the guest. *)
Gain(g) ==
    /\ g \in Guests /\ g.agent = guest.agent /\ g.winrm = guest.winrm
    /\ g.apps = guest.apps
    /\ guest.features => g.features
    /\ guest.joined => g.joined

LEMMA Effects ==
    ASSUME Types
    PROVE  /\ Gain(guest) /\ Gain(MountToolsInstaller) /\ Gain(DetachIso)
           /\ Gain(RemoveCdrom) /\ Gain(PowerOnVm) /\ Gain(Reboot) /\ Gain(Shutdown)
           /\ Gain(FeaturesInstalled) /\ FeaturesInstalled.features
           /\ Gain(Joined) /\ Joined.joined
<1>1. Gain(guest)
  BY DEF Types, Gain
<1>2. Gain(MountToolsInstaller) /\ Gain(DetachIso) /\ Gain(RemoveCdrom)
  BY DEF Types, Guests, Gain, MountToolsInstaller, DetachIso, RemoveCdrom
<1>3. Gain(PowerOnVm) /\ Gain(Reboot) /\ Gain(Shutdown)
  BY DEF Types, Guests, Gain, PowerOnVm, Reboot, Shutdown
<1>4. Gain(FeaturesInstalled) /\ FeaturesInstalled.features
  BY DEF Types, Guests, Gain, FeaturesInstalled
<1>5. Gain(Joined) /\ Joined.joined
  BY DEF Types, Guests, Gain, Joined
<1>. QED  BY <1>1, <1>2, <1>3, <1>4, <1>5

LEMMA GainKeeps ==
    ASSUME Inv, Gain(guest'), UNCHANGED <<assets, retries>>, lost' \in BOOLEAN, lost => lost'
    PROVE  Keeps
<1>1. Gains
  BY DEF Gain, Gains
<1>. QED  BY <1>1 DEF Keeps

(* The three moves, for steps that leave the tasks alone. *)
Still ==
    /\ Gain(guest') /\ UNCHANGED <<assets, retries, task>> /\ lost' \in BOOLEAN
    /\ lost => lost'
    /\ exec.at \notin Busy /\ exec.stage \notin {"none", "complete"}

LEMMA StillKeeps == Inv /\ Still => Keeps
BY GainKeeps DEF Still

LEMMA FailStep ==
    ASSUME Inv, Still, Fail
    PROVE  Inv'
<1>1. exec'.at \notin Busy
  BY FailMoves, IdleFacts DEF Inv, Busy
<1>2. Tidy
  BY <1>1, Quiet DEF Still
<1>. QED  BY <1>2, StillKeeps, FailMove DEF Still, Inv, Places

LEMMA ProceedStep ==
    ASSUME Inv, Still, Proceed,
           exec.stage = "features" => exec.at \in {"verified", "settle"},
           exec.stage = "join" => guest'.joined,
           exec.stage = "apps" => exec.at = "begin" /\ exec.todo = {}
    PROVE  Inv'
<1>1. exec'.at \notin Busy
  BY ProceedMoves DEF Inv, Busy
<1>2. Tidy
  BY <1>1, Quiet DEF Still
<1>3. /\ guest' \in Guests /\ guest'.agent = guest.agent /\ guest'.winrm = guest.winrm
      /\ guest.apps \subseteq guest'.apps
      /\ guest.features => guest'.features
      /\ guest.joined => guest'.joined
  BY DEF Still, Gain
<1>. QED  BY <1>2, <1>3, ProceedMove DEF Still

LEMMA GotoStep ==
    ASSUME Inv, Still,
           NEW at \in Ats \ {"idle", "register", "poll", "read", "clean", "enrol"}, Goto(at),
           exec.stage # "apps",
           at = "settle" => exec.stage \in {"tools", "features", "reboot"},
           at \in {"verified", "restart"} => exec.stage = "features",
           exec.stage = "features" =>
               exec.at \in {"verified", "restart", "settle"} \/ guest'.features
    PROVE  Inv'
<1>1. exec'.at = at
  BY GotoMoves DEF Inv
<1>2. Tidy
  BY <1>1, Quiet DEF Still, Busy
<1>. QED  BY <1>2, StillKeeps, GotoMove DEF Still

-----------------------------------------------------------------------------
(* The worker's steps *)

LEMMA CommandStep ==
    ASSUME Inv, NEW stage \in {"layout", "rdp", "scripts", "join", "admin"}, NEW effect,
           Gain(effect), stage = "join" => effect.joined, Command(stage, effect)
    PROVE  Inv'
<1>1. /\ exec.stage = stage /\ exec.at = "begin"
      /\ UNCHANGED assets /\ UNCHANGED retries /\ UNCHANGED lost /\ UNCHANGED task
  BY DEF Command, In, external
<1>2. \/ Fail /\ guest' \in {guest, effect}
      \/ Proceed /\ guest' = effect
  BY DEF Command, Raises
<1>3. Gain(guest')
  BY <1>2, Effects DEF Inv
<1>4. Still
  BY <1>1, <1>3 DEF Still, Busy, Inv, Types
<1>5. CASE Fail
  BY <1>4, <1>5, FailStep
<1>6. CASE Proceed /\ guest' = effect
  BY <1>1, <1>4, <1>6, ProceedStep
<1>. QED  BY <1>2, <1>5, <1>6

LEMMA CommandSteps ==
    ASSUME Inv, RunPostInstallScripts \/ EnableRdp \/ JoinDomain \/ DisableBuiltinAdministrator
    PROVE  Inv'
<1>1. CASE RunPostInstallScripts \/ EnableRdp
  BY <1>1, Effects, CommandStep DEF Inv, RunPostInstallScripts, EnableRdp
<1>2. CASE JoinDomain
  <2>1. CASE Command("join", Joined)
    BY <2>1, Effects, CommandStep DEF Inv
  <2>2. CASE /\ In("join", "begin") /\ Fail
             /\ UNCHANGED <<external, guest, task, incidents>>
    <3>1. Still
      BY <2>2, Effects DEF In, external, Still, Busy, Inv, Types
    <3>. QED  BY <2>2, <3>1, FailStep
  <2>. QED  BY <1>2, <2>1, <2>2 DEF JoinDomain
<1>3. CASE DisableBuiltinAdministrator
  <2>1. CASE Command("admin", guest)
    BY <2>1, Effects, CommandStep DEF Inv
  <2>2. CASE In("admin", "begin") /\ Proceed /\ UNCHANGED <<external, guest, task>>
    <3>1. Still
      BY <2>2, Effects DEF In, external, Still, Busy, Inv, Types
    <3>. QED  BY <2>2, <3>1, ProceedStep DEF In
  <2>. QED  BY <1>3, <2>1, <2>2 DEF DisableBuiltinAdministrator
<1>. QED  BY <1>1, <1>2, <1>3

LEMMA ReachSteps ==
    ASSUME Inv, FindAddress \/ Probe \/ SwitchAddress
    PROVE  Inv'
<1>1. Still
  BY Effects DEF FindAddress, Probe, SwitchAddress, In, external, Still, Busy, Inv, Types
<1>2. exec.stage = "reach"
  BY DEF FindAddress, Probe, SwitchAddress, In
<1>3. CASE Fail
  BY <1>1, <1>3, FailStep
<1>4. CASE Proceed
  BY <1>1, <1>2, <1>4, ProceedStep
<1>5. CASE \E addr \in Addresses \cup {None} :
             /\ exec' = [exec EXCEPT !.at = "probe", !.addr = addr]
             /\ UNCHANGED deployment \/ deployment' = [deployment EXCEPT !.addr = addr]
  <2>1. exec' \in Execs /\ exec'.at = "probe" /\ exec'.stage = exec.stage
    BY <1>5 DEF Inv, Types, Execs, Ats
  <2>2. /\ deployment' \in Deployments /\ deployment'.state = deployment.state
        /\ deployment'.wanted = deployment.wanted /\ deployment'.host = deployment.host
    BY <1>5 DEF Inv, Types, Deployments
  <2>3. Within
    BY <1>2, <2>1, <2>2 DEF Within
  <2>4. Tidy
    BY <1>1, <2>1, Quiet DEF Still, Busy
  <2>5. Places' /\ AppsLeft'
    BY <1>2, <2>1, <2>2 DEF Inv, Places, AppsLeft, AtTask
  <2>. QED  BY <1>1, <1>2, <2>3, <2>4, <2>5, StillKeeps, WithinMove
<1>6. CASE FindAddress
  <2>1. guest.addr \in Addresses /\ deployment.addr \in Addresses \cup {None}
    BY DEF Inv, Types, Guests, Deployments
  <2>. QED  BY <1>3, <1>5, <1>6, <2>1 DEF FindAddress, GetGuestIp
<1>7. CASE SwitchAddress
  <2>1. guest.addr \in Addresses /\ exec' = [exec EXCEPT !.at = "probe", !.addr = guest.addr]
    BY <1>7 DEF SwitchAddress, In, GetGuestIp, Inv, Types, Guests, Execs
  <2>. QED  BY <1>5, <1>7, <2>1 DEF SwitchAddress, GetGuestIp
<1>8. CASE Probe
  BY <1>3, <1>4, <1>8 DEF Probe
<1>. QED  BY <1>6, <1>7, <1>8

LEMMA FeatureSteps ==
    ASSUME Inv, InstallFeatures \/ FeaturesVerified
    PROVE  Inv'
<1>1. exec.stage = "features" /\ exec.at \in {"begin", "verified"}
  BY DEF InstallFeatures, FeaturesVerified, In
<1>2. Gain(guest')
  BY Effects DEF InstallFeatures, FeaturesVerified, Raises, Inv
<1>3. Still
  BY <1>1, <1>2 DEF InstallFeatures, FeaturesVerified, external, Still, Busy, Inv, Types
<1>4. CASE Fail
  BY <1>3, <1>4, FailStep
<1>5. CASE guest' = FeaturesInstalled /\ Goto("verified")
  BY <1>1, <1>3, <1>5, Effects, GotoStep DEF Ats, Inv
<1>6. CASE FeaturesVerified
  <2>1. exec.at = "verified"
    BY <1>6 DEF FeaturesVerified, In
  <2>2. CASE Proceed
    BY <1>1, <1>3, <2>1, <2>2, ProceedStep
  <2>3. CASE Goto("restart")
    BY <1>1, <1>3, <2>1, <2>3, GotoStep DEF Ats
  <2>. QED  BY <1>4, <1>6, <2>2, <2>3 DEF FeaturesVerified
<1>7. CASE InstallFeatures
  BY <1>4, <1>5, <1>7 DEF InstallFeatures
<1>. QED  BY <1>6, <1>7

LEMMA RestartSteps ==
    ASSUME Inv, Restart \/ Settled
    PROVE  Inv'
<1>1. CASE Restart
  <2>1. \/ exec.stage = "reboot" /\ exec.at = "begin"
        \/ exec.stage = "features" /\ exec.at = "restart"
    BY <1>1 DEF Restart, In
  <2>2. Gain(guest')
    BY <1>1, Effects DEF Restart, Raises, Inv
  <2>3. Still /\ Goto("settle")
    BY <1>1, <2>1, <2>2 DEF Restart, external, Still, Busy, Inv, Types
  <2>. QED  BY <2>1, <2>3, GotoStep DEF Ats
<1>2. CASE Settled
  <2>1. exec.at = "settle" /\ exec.stage \in {"tools", "features", "reboot"}
    BY <1>2 DEF Settled, Inv, Places
  <2>3. Still
    BY <1>2, <2>1, Effects DEF Settled, external, Still, Busy, Inv, Types
  <2>4. CASE Fail
    BY <2>3, <2>4, FailStep
  <2>5. CASE Proceed
    BY <2>1, <2>3, <2>5, ProceedStep
  <2>. QED  BY <1>2, <2>4, <2>5 DEF Settled
<1>. QED  BY <1>1, <1>2

LEMMA ToolsSteps ==
    ASSUME Inv, \/ MountTools \/ InstallTools \/ EjectTools
                \/ ShutDown \/ AwaitPowerOff \/ RemoveMedia \/ PowerOn
    PROVE  Inv'
<1>1. /\ exec.stage = "tools"
      /\ exec.at \in {"begin", "install", "eject", "shutdown", "await off", "remove", "power on"}
  BY DEF MountTools, InstallTools, EjectTools, ShutDown, AwaitPowerOff, RemoveMedia, PowerOn, In
<1>2. Gain(guest')
  BY Effects DEF MountTools, InstallTools, EjectTools, ShutDown, AwaitPowerOff, RemoveMedia,
     PowerOn, Raises, Inv
<1>3. lost' \in BOOLEAN /\ (lost => lost')
  BY DEF MountTools, InstallTools, EjectTools, ShutDown, AwaitPowerOff, RemoveMedia,
     PowerOn, external, Inv, Types
<1>4. UNCHANGED <<assets, retries, task>>
  BY DEF MountTools, InstallTools, EjectTools, ShutDown, AwaitPowerOff, RemoveMedia,
     PowerOn, external
<1>5. Still
  BY <1>1, <1>2, <1>3, <1>4 DEF Still, Busy
<1>6. CASE Fail
  BY <1>5, <1>6, FailStep
<1>7. CASE Proceed
  BY <1>1, <1>5, <1>7, ProceedStep
<1>8. CASE \E at \in {"install", "eject", "shutdown", "await off", "remove", "power on",
                      "settle"} : Goto(at)
  BY <1>1, <1>5, <1>8, GotoStep DEF Ats
<1>9. CASE MountTools
  <2>1. PICK unit \in BOOLEAN : exec' = [exec EXCEPT !.at = "install", !.unit = unit]
    <3>1. exec' = [exec EXCEPT !.at = "install"] =>
              exec' = [exec EXCEPT !.at = "install", !.unit = exec.unit]
      BY DEF Inv, Types, Execs
    <3>2. exec.unit \in BOOLEAN
      BY DEF Inv, Types, Execs
    <3>. QED  BY <1>9, <3>1, <3>2 DEF MountTools
  <2>2. exec' \in Execs /\ exec'.at = "install" /\ exec'.stage = exec.stage
    BY <2>1 DEF Inv, Types, Execs, Ats
  <2>3. Within
    BY <1>1, <1>9, <2>2 DEF Within, MountTools, Inv, Types
  <2>4. Tidy
    BY <1>5, <2>2, Quiet DEF Still, Busy
  <2>5. Places' /\ AppsLeft'
    BY <1>1, <1>9, <2>2 DEF MountTools, Inv, Places, AppsLeft, AtTask
  <2>. QED  BY <1>1, <1>5, <2>3, <2>4, <2>5, StillKeeps, WithinMove
<1>10. CASE InstallTools
  BY <1>6, <1>8, <1>10 DEF InstallTools
<1>11. CASE EjectTools
  BY <1>7, <1>11 DEF EjectTools
<1>12. CASE ShutDown \/ AwaitPowerOff \/ RemoveMedia \/ PowerOn
  BY <1>6, <1>8, <1>12 DEF ShutDown, AwaitPowerOff, RemoveMedia, PowerOn
<1>. QED  BY <1>9, <1>10, <1>11, <1>12

-----------------------------------------------------------------------------
(* Tasks *)

LEMMA BeginSteps ==
    ASSUME Inv, (\E what \in Apps : BeginApp(what)) \/ AppsDone \/ BeginUpdates
    PROVE  Inv'
<1>1. exec.at = "begin" /\ exec.stage \in {"apps", "updates"}
  BY DEF BeginApp, AppsDone, BeginUpdates, In
<1>2. Still
  BY <1>1, Effects DEF BeginApp, AppsDone, BeginUpdates, external, Still, Busy, Inv, Types
<1>3. ASSUME NEW what \in Apps, BeginApp(what)
      PROVE  Inv'
  <2>. DEFINE todo == exec.todo \ {what}
              agent == what = "agent" /\ what \in assets
              skip == what \notin assets \/ (agent /\ deployment.host = "enrolled")
  <2>1. /\ exec.stage = "apps" /\ what \in exec.todo
        /\ exec' = [exec EXCEPT !.todo = todo, !.what = what,
                       !.at = IF skip THEN "begin" ELSE "register"]
        /\ deployment' = GetOrCreateManagedHost \/ UNCHANGED deployment
    BY <1>3 DEF BeginApp, In
  <2>2. /\ exec' \in Execs /\ exec'.stage = exec.stage /\ exec'.todo = todo
        /\ exec'.what = what
        /\ \/ exec'.at = "begin" /\ skip
           \/ exec'.at = "register" /\ ~skip
    <3>. DEFINE at == IF skip THEN "begin" ELSE "register"
    <3>1. \/ at = "begin" /\ skip
          \/ at = "register" /\ ~skip
      OBVIOUS
    <3>2. exec' = [exec EXCEPT !.todo = todo, !.what = what, !.at = at]
      BY <2>1
    <3>. HIDE DEF at, skip
    <3>3. at \in Ats /\ todo \in SUBSET Apps
      BY <3>1 DEF Ats, Inv, Types, Execs
    <3>. QED  BY <3>1, <3>2, <3>3 DEF Inv, Types, Execs
  <2>3. /\ deployment' \in Deployments /\ deployment'.state = deployment.state
        /\ deployment'.wanted = deployment.wanted
        /\ deployment'.host = "enrolled" <=> deployment.host = "enrolled"
    BY <2>1 DEF GetOrCreateManagedHost, Inv, Types, Deployments
  <2>4. Within
    BY <2>1, <2>2, <2>3 DEF Within
  <2>5. Tidy
    BY <1>2, <2>2, Quiet DEF Still, Busy
  <2>6. Places'
    BY <2>1, <2>2, <2>3 DEF Places, AtTask, Inv
  <2>7. Wanted' = Wanted /\ assets' = assets /\ guest'.apps = guest.apps
    BY <1>2, <2>3 DEF Wanted, Still, Gain
  <2>8. skip /\ what \in assets => what = "agent" /\ deployment.host = "enrolled"
                                 /\ what \in guest.apps
    BY DEF Inv, Installed
  <2>9. AppsLeft'
    <3>1. ASSUME NEW w \in Wanted \cap assets
          PROVE  w \in todo \/ (exec'.at = "register" /\ w = what) \/ w \in guest.apps
      BY <1>1, <2>1, <2>2, <2>8 DEF Inv, AppsLeft, AtTask
    <3>2. "agent" \in Wanted \cap assets =>
             \/ "agent" \in todo
             \/ exec'.at = "register" /\ what = "agent"
             \/ deployment.host = "enrolled"
      BY <1>1, <2>1, <2>2, <2>8 DEF Inv, AppsLeft, AtTask
    <3>. QED  BY <2>2, <2>3, <2>7, <3>1, <3>2 DEF AppsLeft, AtTask
  <2>. QED  BY <1>2, <2>1, <2>4, <2>5, <2>6, <2>9, StillKeeps, WithinMove
<1>4. CASE AppsDone
  BY <1>2, <1>4, ProceedStep DEF AppsDone, In
<1>5. CASE BeginUpdates
  <2>1. /\ exec' \in Execs /\ exec'.at = "register" /\ exec'.stage = exec.stage
        /\ exec'.what = "updates" /\ UNCHANGED deployment /\ exec.stage = "updates"
    BY <1>5 DEF BeginUpdates, In, Inv, Types, Execs, Ats
  <2>2. Within
    BY <2>1 DEF Within, Inv, Types
  <2>3. Tidy
    BY <1>2, <2>1, Quiet DEF Still, Busy
  <2>4. Places' /\ AppsLeft'
    BY <2>1 DEF Inv, Places, AppsLeft, AtTask
  <2>. QED  BY <1>2, <2>1, <2>2, <2>3, <2>4, StillKeeps, WithinMove
<1>. QED  BY <1>3, <1>4, <1>5

LEMMA RegisteredFacts ==
    ASSUME Inv, exec.at = "register", task' = Registered, UNCHANGED retries
    PROVE  /\ task' \subseteq Tasks
           /\ \A t \in task' : t.res = "OK" => t \in task
           /\ exec'.what = exec.what /\ ~lost => task' \subseteq Mine'
<1>. DEFINE new == [what |-> exec.what, try |-> TryOf(exec.what), st |-> "running",
                    res |-> "none"]
<1>1. exec.what \in Apps \cup {"updates"}
  BY DEF Inv, Places, AtTask
<1>2. TryOf(exec.what) \in 0 .. MaxRetries
  BY PostInstallAssumption DEF TryOf, Inv, Types, PostInstallAssumption
<1>3. new \in Tasks
  BY <1>1, <1>2 DEF Tasks
<1>4. task' = (task \ Mine) \cup {new}
  BY DEF Registered
<1>5. task' \subseteq Tasks
  BY <1>3, <1>4 DEF Inv, Types
<1>6. \A t \in task' : t.res = "OK" => t \in task
  BY <1>4
<1>7. ~lost => task' = {new}
  BY <1>4 DEF Inv, OwnTasks
<1>8. ASSUME exec'.what = exec.what, ~lost
      PROVE  task' \subseteq Mine'
  <2>1. \A t \in task' : t.what = exec'.what /\ t.try = TryOf(exec.what)
    BY <1>7, <1>8
  <2>2. TryOf(exec.what)' = TryOf(exec.what)
    BY <1>8 DEF TryOf
  <2>. QED  BY <2>1, <2>2 DEF Mine
<1>. QED  BY <1>5, <1>6, <1>8

(* The guest stays as it is while the worker looks after a task. *)
Watch == guest' = guest /\ UNCHANGED <<assets, retries>> /\ lost' \in BOOLEAN /\ (lost => lost')

LEMMA WatchKeeps == Inv /\ Watch => Keeps
BY Effects, GainKeeps DEF Watch, Inv

LEMMA RegisterStep ==
    ASSUME Inv, RegisterTask
    PROVE  Inv'
<1>1. /\ exec.at = "register"
      /\ \/ exec.stage = "apps" /\ exec.what \in Apps
         \/ exec.stage = "updates" /\ exec.what = "updates"
  BY DEF RegisterTask, Inv, Places, AtTask
<1>2. Watch
  BY DEF RegisterTask, Raises, Watch, Inv, Types
<1>3. CASE task' = Registered /\ Goto("poll")
  <2>1. /\ exec' \in Execs /\ exec'.at = "poll" /\ exec'.stage = exec.stage
        /\ exec'.todo = exec.todo /\ exec'.what = exec.what /\ UNCHANGED deployment
    BY <1>3, GotoMoves DEF Ats, Inv
  <2>2. Within
    BY <1>1, <2>1 DEF Within, Inv, Types
  <2>3. Tidy
    <3>1. lost' = lost
      BY <1>3, <2>1, FailMoves, IdleFacts DEF RegisterTask, Inv
    <3>. QED  BY <1>1, <1>2, <1>3, <2>1, <3>1, RegisteredFacts DEF Watch, Tidy, OwnTasks
  <2>4. Places'
    BY <1>1, <2>1 DEF Inv, Places, AtTask
  <2>5. AppsLeft'
    BY <1>1, <1>2, <2>1 DEF Inv, AppsLeft, AtTask, Wanted, Watch
  <2>. QED  BY <1>1, <1>2, <2>2, <2>3, <2>4, <2>5, WatchKeeps, WithinMove
<1>4. CASE UNCHANGED task /\ (Fail \/ (Proceed /\ exec.what = "updates"))
  <2>1. Still
    BY <1>1, <1>2, <1>4, Effects DEF Watch, Still, Busy, Inv
  <2>2. CASE Fail
    BY <2>1, <2>2, FailStep
  <2>3. CASE Proceed /\ exec.what = "updates"
    <3>1. exec.stage = "updates"
      BY <1>1, <2>3 DEF Apps
    <3>. QED  BY <2>1, <2>3, <3>1, ProceedStep
  <2>. QED  BY <1>4, <2>2, <2>3
<1>5. CASE Fail /\ task' = Registered /\ lost' = TRUE
  <2>1. Tidy
    BY <1>1, <1>2, <1>5, RegisteredFacts DEF Watch, Tidy, OwnTasks
  <2>. QED  BY <1>1, <1>2, <1>5, <2>1, WatchKeeps, FailMove DEF Inv, Places
<1>. QED  BY <1>3, <1>4, <1>5 DEF RegisterTask

LEMMA PollSteps ==
    ASSUME Inv, PollTask \/ ReadResult
    PROVE  Inv'
<1>1. /\ exec.at \in {"poll", "read"} /\ AtTask
      /\ \/ exec.stage = "apps" /\ exec.what \in Apps
         \/ exec.stage = "updates" /\ exec.what = "updates"
  BY DEF PollTask, ReadResult, Inv, Places, AtTask
<1>2. Watch /\ UNCHANGED <<task, lost, deployment>>
  BY DEF PollTask, ReadResult, Raises, Goto, external, Watch, Inv, Types
<1>3. Outcome \in {"OK", "FAIL"} /\ (Outcome = "OK" => \E t \in Mine : t.res = "OK")
  BY DEF Outcome
<1>4. Outcome = "OK" /\ exec.what \in Apps => exec.what \in guest.apps
  BY <1>3 DEF Mine, Inv, Installed
<1>5. \/ exec' = [exec EXCEPT !.at = "read"]
      \/ \E ok \in {"FAIL", "raised"} : exec' = [exec EXCEPT !.at = "clean", !.ok = ok]
      \/ exec' = [exec EXCEPT !.at = "clean", !.ok = Outcome]
  BY DEF PollTask, ReadResult, Goto
<1>6. /\ exec' \in Execs /\ exec'.at \in {"read", "clean"} /\ exec'.stage = exec.stage
      /\ exec'.todo = exec.todo /\ exec'.what = exec.what
      /\ exec'.at = "clean" /\ exec'.ok = "OK" => Outcome = "OK"
  BY <1>3, <1>5 DEF Inv, Types, Execs, Ats
<1>7. Within
  BY <1>1, <1>2, <1>6 DEF Within, Inv, Types
<1>8. Tidy
  <2>1. Mine' = Mine
    BY <1>2, <1>6 DEF Mine, TryOf, Watch
  <2>. QED  BY <1>1, <1>2, <1>6, <2>1 DEF Inv, Types, Tidy, OwnTasks
<1>9. Places'
  BY <1>1, <1>2, <1>6 DEF Inv, Places, AtTask
<1>10. AppsLeft'
  BY <1>1, <1>2, <1>4, <1>6 DEF Inv, AppsLeft, AtTask, Wanted, Watch, Apps
<1>. QED  BY <1>1, <1>2, <1>7, <1>8, <1>9, <1>10, WatchKeeps, WithinMove

LEMMA CleanStep ==
    ASSUME Inv, CleanTask
    PROVE  Inv'
<1>1. /\ exec.at = "clean" /\ AtTask
      /\ \/ exec.stage = "apps" /\ exec.what \in Apps
         \/ exec.stage = "updates" /\ exec.what = "updates"
  BY DEF CleanTask, Inv, Places, AtTask
<1>2. Watch
  <2>1. guest' = guest /\ UNCHANGED <<assets, retries>>
    BY DEF CleanTask
  <2>2. UNCHANGED lost \/ lost' = TRUE
    BY DEF CleanTask
  <2>. QED  BY <2>1, <2>2 DEF Watch, Inv, Types
<1>3. ASSUME exec'.at \notin Busy
      PROVE  Tidy
  <2>1. \/ task' = Cleaned /\ lost' = lost
        \/ task' = task /\ lost' = TRUE
    BY DEF CleanTask
  <2>2. ~lost' => task' = {}
    BY <1>1, <2>1 DEF Cleaned, Inv, OwnTasks
  <2>. QED  BY <1>3, <2>1, <2>2 DEF Cleaned, Inv, Types, Tidy, OwnTasks, Busy
<1>4. CASE Fail
  <2>1. exec'.at \notin Busy
    BY <1>4, FailMoves, IdleFacts DEF Inv, Busy
  <2>. QED  BY <1>1, <1>2, <1>3, <1>4, <2>1, WatchKeeps, FailMove DEF Inv, Places
<1>5. CASE exec.what = "updates" /\ Proceed
  <2>1. exec'.at \notin Busy
    BY <1>5, ProceedMoves DEF Inv, Busy
  <2>2. exec.stage = "updates"
    BY <1>1, <1>5 DEF Apps
  <2>. QED  BY <1>2, <1>3, <1>5, <2>1, <2>2, ProceedMove DEF Watch, Inv, Types
<1>6. CASE /\ exec.what \in Apps /\ exec.ok = "OK"
           /\ Goto(IF exec.what = "agent" THEN "enrol" ELSE "begin")
  <2>. DEFINE at == IF exec.what = "agent" THEN "enrol" ELSE "begin"
  <2>1. at \in {"enrol", "begin"} /\ (at = "enrol" <=> exec.what = "agent")
    OBVIOUS
  <2>. HIDE DEF at
  <2>2. Goto(at)
    BY <1>6 DEF at
  <2>3. /\ exec' \in Execs /\ exec'.at = at /\ exec'.stage = exec.stage
        /\ exec'.todo = exec.todo /\ exec'.what = exec.what /\ UNCHANGED deployment
    BY <2>1, <2>2, GotoMoves DEF Ats, Inv
  <2>4. exec.stage = "apps"
    BY <1>1, <1>6 DEF Apps
  <2>5. Within
    BY <2>3, <2>4 DEF Within, Inv, Types
  <2>6. Tidy
    BY <1>3, <2>1, <2>3 DEF Busy
  <2>7. Places'
    BY <2>1, <2>3, <2>4 DEF Inv, Places, AtTask
  <2>8. exec.what \in guest.apps
    BY <1>1, <1>6, <2>4 DEF Inv, AppsLeft
  <2>9. AppsLeft'
    BY <1>1, <1>2, <2>1, <2>3, <2>4, <2>8 DEF Inv, AppsLeft, AtTask, Wanted, Watch
  <2>. QED  BY <1>2, <2>4, <2>5, <2>6, <2>7, <2>9, WatchKeeps, WithinMove
<1>. QED  BY <1>4, <1>5, <1>6 DEF CleanTask

LEMMA EnrolStep ==
    ASSUME Inv, AwaitEnrolment
    PROVE  Inv'
<1>1. exec.at = "enrol" /\ exec.stage = "apps" /\ exec.what = "agent"
  BY DEF AwaitEnrolment, Inv, Places
<1>2. Still
  BY <1>1, Effects DEF AwaitEnrolment, external, Still, Busy, Inv, Types
<1>3. CASE Fail
  BY <1>2, <1>3, FailStep
<1>4. CASE deployment.host = "enrolled" /\ Goto("begin")
  <2>1. /\ exec' \in Execs /\ exec'.at = "begin" /\ exec'.stage = exec.stage
        /\ exec'.todo = exec.todo /\ UNCHANGED deployment
    BY <1>4, GotoMoves DEF Ats, Inv
  <2>2. Within
    BY <1>1, <2>1 DEF Within, Inv, Types
  <2>3. Tidy
    BY <1>2, <2>1, Quiet DEF Still, Busy
  <2>4. Places'
    BY <1>1, <2>1 DEF Inv, Places, AtTask
  <2>5. AppsLeft'
    BY <1>1, <1>2, <1>4, <2>1 DEF Inv, Installed, AppsLeft, AtTask, Wanted, Still, Gain
  <2>. QED  BY <1>1, <1>2, <2>2, <2>3, <2>4, <2>5, StillKeeps, WithinMove
<1>. QED  BY <1>3, <1>4 DEF AwaitEnrolment

-----------------------------------------------------------------------------
(* The end, and what happens around the worker *)

LEMMA CloseStep ==
    ASSUME Inv, CloseWinRm
    PROVE  Inv'
<1>1. /\ exec.stage = "close" /\ exec.at = "begin" /\ Proceed
      /\ guest' \in {guest, Closed} /\ UNCHANGED <<assets, retries, lost, task>>
  BY DEF CloseWinRm, In, external, Raises
<1>2. /\ guest' \in Guests /\ guest'.agent = guest.agent /\ guest'.apps = guest.apps
      /\ guest'.features = guest.features /\ guest'.joined = guest.joined
  BY <1>1 DEF Closed, Inv, Types, Guests
<1>3. exec'.at \notin Busy
  BY <1>1, ProceedMoves DEF Inv, Busy
<1>4. Tidy
  BY <1>1, <1>3, Quiet DEF Busy
<1>. QED  BY <1>1, <1>2, <1>4, ProceedMove DEF Inv, Types

LEMMA CompleteStep ==
    ASSUME Inv, Complete
    PROVE  Inv'
<1>1. /\ exec.stage = "complete" /\ exec.at = "begin" /\ exec' = Idle
      /\ deployment' = [deployment EXCEPT !.state = "completed"]
      /\ UNCHANGED <<assets, retries, lost, guest, task>>
  BY DEF Complete, In, external
<1>2. /\ deployment' \in Deployments /\ deployment'.state = "completed"
      /\ deployment'.wanted = deployment.wanted /\ deployment'.host = deployment.host
  BY <1>1 DEF Inv, Types, Deployments
<1>3. exec' \in Execs /\ exec'.stage = "none" /\ exec'.at = "idle"
  BY <1>1, IdleFacts
<1>4. Types' /\ Places'
  BY <1>1, <1>2, <1>3 DEF Inv, Types, Places, AtTask
<1>5. Installed'
  BY <1>1, <1>2 DEF Inv, Installed
<1>6. FeaturesDone' /\ JoinDone'
  BY <1>1, <1>2, <1>3 DEF Inv, FeaturesDone, JoinDone, Wanted, AfterFeatures, AfterApps,
     AfterJoin
<1>7. AppsLeft' /\ AppsInstalled'
  BY <1>1, <1>2, <1>3 DEF Inv, AppsLeft, AppsInstalled, Wanted, AfterApps
<1>8. OwnTasks' /\ ClosedIsDone'
  BY <1>1, <1>2, <1>3, DoneStays DEF Inv, OwnTasks
<1>. QED  BY <1>4, <1>5, <1>6, <1>7, <1>8 DEF Inv

LEMMA CrashStep ==
    ASSUME Inv, Crash
    PROVE  Inv'
<1>1. /\ exec' = Idle /\ lost' = (lost \/ task # {})
      /\ UNCHANGED <<deployment, assets, guest, task, retries>>
  BY DEF Crash
<1>2. exec' \in Execs /\ exec'.stage = "none" /\ exec'.at = "idle"
  BY <1>1, IdleFacts
<1>3. Types' /\ Places' /\ Installed'
  BY <1>1, <1>2 DEF Inv, Types, Places, AtTask, Installed
<1>4. FeaturesDone' /\ JoinDone' /\ AppsLeft' /\ AppsInstalled'
  BY <1>1, <1>2 DEF Inv, FeaturesDone, JoinDone, AppsLeft, AppsInstalled, Wanted,
     AfterFeatures, AfterApps, AfterJoin
<1>5. OwnTasks' /\ ClosedIsDone'
  BY <1>1, <1>2, DoneStays DEF Inv, OwnTasks
<1>. QED  BY <1>3, <1>4, <1>5 DEF Inv

LEMMA SweepStep ==
    ASSUME Inv, Sweep
    PROVE  Inv'
<1>1. /\ Fail /\ exec = Idle /\ deployment.state # "completed"
      /\ UNCHANGED <<assets, retries, lost, guest, task>>
  BY DEF Sweep, Fail, external
<1>2. exec.at = "idle" /\ exec.stage = "none" /\ exec'.at = "idle"
  BY <1>1, IdleFacts DEF Fail
<1>3. Tidy
  BY <1>1, <1>2, Quiet DEF Busy
<1>4. Keeps
  BY <1>1, Effects, GainKeeps DEF Inv, Types
<1>. QED  BY <1>1, <1>2, <1>3, <1>4, FailMove

LEMMA RetryStep ==
    ASSUME Inv, RetryPostInstall
    PROVE  Inv'
<1>1. /\ deployment.state = "failed" /\ exec = Idle /\ exec' = Entered
      /\ deployment' = [deployment EXCEPT !.state = "installing_os"]
      /\ retries' = retries + 1 /\ retries < MaxRetries
      /\ UNCHANGED <<assets, guest, task, lost>>
  BY DEF RetryPostInstall
<1>2. /\ deployment' \in Deployments /\ deployment'.state = "installing_os"
      /\ deployment'.wanted = deployment.wanted /\ deployment'.host = deployment.host
  BY <1>1 DEF Inv, Types, Deployments
<1>3. /\ exec' \in Execs /\ exec'.stage = "reach" /\ exec'.at = "address"
      /\ exec.stage = "none" /\ exec.at = "idle"
  BY <1>1, IdleFacts
<1>4. retries' \in 0 .. MaxRetries
  BY <1>1, PostInstallAssumption DEF PostInstallAssumption, Inv, Types
<1>5. Types' /\ Places' /\ Installed'
  BY <1>1, <1>2, <1>3, <1>4 DEF Inv, Types, Places, AtTask, Installed
<1>6. FeaturesDone' /\ JoinDone' /\ AppsLeft' /\ AppsInstalled'
  BY <1>1, <1>2, <1>3 DEF FeaturesDone, JoinDone, AppsLeft, AppsInstalled, Wanted,
     AfterFeatures, AfterApps, AfterJoin
<1>7. OwnTasks' /\ ClosedIsDone'
  BY <1>1, <1>2, <1>3, DoneStays DEF Inv, OwnTasks
<1>. QED  BY <1>5, <1>6, <1>7 DEF Inv

LEMMA DeleteAssetStep ==
    ASSUME Inv, NEW what \in Apps, DeleteAsset(what)
    PROVE  Inv'
<1>1. assets' = assets \ {what} /\ UNCHANGED <<deployment, exec, guest, task, retries, lost>>
  BY DEF DeleteAsset
<1>2. Types' /\ Places' /\ Installed' /\ FeaturesDone' /\ JoinDone'
  BY <1>1 DEF Inv, Types, Places, AtTask, Installed, FeaturesDone, JoinDone, Wanted
<1>3. AppsLeft' /\ AppsInstalled'
  BY <1>1 DEF Inv, AppsLeft, AppsInstalled, AtTask, Wanted
<1>4. OwnTasks' /\ ClosedIsDone'
  BY <1>1, DoneStays DEF Inv, OwnTasks, Mine, TryOf
<1>. QED  BY <1>2, <1>3, <1>4 DEF Inv

-----------------------------------------------------------------------------
(* The guest *)

LEMMA GuestMove ==
    ASSUME Inv, UNCHANGED <<exec, assets, retries, lost>>,
           guest' \in Guests, guest'.winrm = guest.winrm,
           guest'.features = guest.features, guest'.joined = guest.joined,
           guest.apps \subseteq guest'.apps,
           deployment' \in Deployments, deployment'.state = deployment.state,
           deployment'.wanted = deployment.wanted,
           deployment.host = "enrolled" => deployment'.host = "enrolled",
           task' \subseteq Tasks, Installed',
           \A t \in task' : \E u \in task : t.what = u.what /\ t.try = u.try
    PROVE  Inv'
<1>1. Types' /\ Places'
  BY DEF Inv, Types, Places, AtTask
<1>2. FeaturesDone' /\ JoinDone'
  BY DEF Inv, FeaturesDone, JoinDone, Wanted
<1>3. AppsLeft' /\ AppsInstalled'
  BY DEF Inv, AppsLeft, AppsInstalled, AtTask, Wanted
<1>4. OwnTasks'
  <2>1. task \subseteq Mine => task' \subseteq Mine'
    BY DEF Mine, TryOf
  <2>2. task = {} => task' = {}
    OBVIOUS
  <2>. QED  BY <2>1, <2>2 DEF Inv, OwnTasks
<1>5. ClosedIsDone'
  BY DoneStays DEF Inv
<1>. QED  BY <1>1, <1>2, <1>3, <1>4, <1>5 DEF Inv

LEMMA InterruptedFacts ==
    ASSUME task \subseteq Tasks
    PROVE  /\ Interrupted \subseteq Tasks
           /\ \A t \in Interrupted : \E u \in task :
                 t.what = u.what /\ t.try = u.try /\ t.res = u.res
<1>1. \A u \in task : LET t == IF u.st = "running" THEN [u EXCEPT !.st = "done"] ELSE u
                     IN  t \in Tasks /\ t.what = u.what /\ t.try = u.try /\ t.res = u.res
  BY DEF Tasks
<1>. QED  BY <1>1 DEF Interrupted

LEMMA EndedFacts ==
    ASSUME task \subseteq Tasks, NEW t \in task, NEW result \in {"OK", "FAIL"}
    PROVE  /\ Ended(t, result) \subseteq Tasks
           /\ \A e \in Ended(t, result) :
                 /\ \E u \in task : e.what = u.what /\ e.try = u.try
                 /\ e.res = "OK" => e \in task \/ (result = "OK" /\ e.what = t.what)
<1>. DEFINE d == [t EXCEPT !.st = "done", !.res = result]
<1>1. d \in Tasks /\ d.what = t.what /\ d.try = t.try /\ d.res = result
  BY DEF Tasks
<1>2. Ended(t, result) = (task \ {t}) \cup {d}
  BY DEF Ended
<1>. HIDE DEF d
<1>. QED  BY <1>1, <1>2

LEMMA RestartsSteps ==
    ASSUME Inv, GuestRestarts \/ GuestShutsDown
    PROVE  Inv'
<1>1. UNCHANGED <<exec, assets, retries, lost, deployment>> /\ task' = Interrupted
  BY DEF GuestRestarts, GuestShutsDown, external
<1>2. /\ guest' \in Guests /\ guest'.winrm = guest.winrm /\ guest'.apps = guest.apps
      /\ guest'.features = guest.features /\ guest'.joined = guest.joined
      /\ guest'.agent = guest.agent
  BY DEF GuestRestarts, GuestShutsDown, Inv, Types, Guests
<1>3. /\ task' \subseteq Tasks
      /\ \A t \in task' : \E u \in task :
            t.what = u.what /\ t.try = u.try /\ t.res = u.res
  BY <1>1, InterruptedFacts DEF Inv, Types
<1>4. Installed'
  BY <1>1, <1>2, <1>3 DEF Inv, Installed
<1>. QED  BY <1>1, <1>2, <1>3, <1>4, GuestMove DEF Inv, Types

LEMMA EnrollStep ==
    ASSUME Inv, EnrollAgent
    PROVE  Inv'
<1>1. /\ UNCHANGED <<exec, assets, retries, lost, task>> /\ guest.agent = "working"
      /\ guest' = [guest EXCEPT !.agent = "enrolled"]
      /\ deployment' = [deployment EXCEPT !.host = "enrolled"]
  BY DEF EnrollAgent, external
<1>2. /\ guest' \in Guests /\ guest'.winrm = guest.winrm /\ guest'.apps = guest.apps
      /\ guest'.features = guest.features /\ guest'.joined = guest.joined
      /\ guest'.agent = "enrolled"
  BY <1>1 DEF Inv, Types, Guests
<1>3. /\ deployment' \in Deployments /\ deployment'.state = deployment.state
      /\ deployment'.wanted = deployment.wanted /\ deployment'.host = "enrolled"
  BY <1>1 DEF Inv, Types, Deployments
<1>4. Installed'
  BY <1>1, <1>2, <1>3 DEF Inv, Installed
<1>. QED  BY <1>1, <1>2, <1>3, <1>4, GuestMove DEF Inv, Types

LEMMA TaskEndsSteps ==
    ASSUME Inv, NEW t \in task, InstallerEnds(t) \/ UpdatesEnd(t) \/ TaskFails(t)
    PROVE  Inv'
<1>1. UNCHANGED <<exec, assets, retries, lost, deployment>>
  BY DEF InstallerEnds, UpdatesEnd, TaskFails, external
<1>2. PICK result \in {"OK", "FAIL"} :
        /\ task' = Ended(t, result)
        /\ result = "OK" => InstallerEnds(t) \/ t.what = "updates"
  BY DEF InstallerEnds, InstallerResult, UpdatesEnd, TaskFails
<1>3. /\ guest' \in Guests /\ guest'.winrm = guest.winrm /\ guest.apps \subseteq guest'.apps
      /\ guest'.features = guest.features /\ guest'.joined = guest.joined
      /\ InstallerEnds(t) => t.what \in guest'.apps
      /\ guest.agent = "enrolled" => guest'.agent = "enrolled"
      /\ guest'.agent # "none" => guest.agent # "none" \/ "agent" \in guest'.apps
  <2>1. CASE guest' = guest /\ ~InstallerEnds(t)
    BY <2>1 DEF Inv, Types
  <2>2. CASE InstallerEnds(t)
    <3>. DEFINE agent == IF t.what = "agent" /\ guest.agent = "none" THEN "working"
                         ELSE guest.agent
    <3>1. /\ guest' = [guest EXCEPT !.apps = guest.apps \cup {t.what}, !.agent = agent]
          /\ t.what \in Apps
      BY <2>2 DEF InstallerEnds
    <3>2. /\ agent \in {"none", "working", "enrolled"}
          /\ guest.agent = "enrolled" => agent = "enrolled"
          /\ agent # "none" => guest.agent # "none" \/ t.what = "agent"
      BY DEF Inv, Types, Guests
    <3>. HIDE DEF agent
    <3>. QED  BY <3>1, <3>2 DEF Inv, Types, Guests
  <2>. QED  BY <2>1, <2>2 DEF UpdatesEnd, TaskFails
<1>4. /\ task' \subseteq Tasks
      /\ \A e \in task' :
            /\ \E u \in task : e.what = u.what /\ e.try = u.try
            /\ e.res = "OK" => e \in task \/ (result = "OK" /\ e.what = t.what)
  BY <1>2, EndedFacts DEF Inv, Types
<1>5. Installed'
  <2>1. ASSUME NEW e \in task', e.res = "OK", e.what \in Apps
        PROVE  e.what \in guest'.apps
    <3>1. CASE e \in task
      BY <1>3, <2>1, <3>1 DEF Inv, Installed
    <3>2. CASE result = "OK" /\ e.what = t.what
      BY <1>2, <1>3, <2>1, <3>2 DEF Apps
    <3>. QED  BY <1>4, <2>1, <3>1, <3>2
  <2>2. guest'.agent # "none" => "agent" \in guest'.apps
    BY <1>3 DEF Inv, Installed
  <2>3. deployment'.host = "enrolled" => guest'.agent = "enrolled"
    BY <1>1, <1>3 DEF Inv, Installed
  <2>. QED  BY <2>1, <2>2, <2>3 DEF Installed
<1>. QED  BY <1>1, <1>3, <1>4, <1>5, GuestMove DEF Inv, Types

-----------------------------------------------------------------------------
(* The invariant *)

LEMMA InitInv == Init => Inv
<1>. SUFFICES ASSUME Init
              PROVE  Inv
  OBVIOUS
<1>1. PICK wanted \in Templates, addr \in Addresses, known \in BOOLEAN,
           setup \in {"none", "restart"} :
        /\ deployment = [state |-> "installing_os", wanted |-> wanted, host |-> "none",
                         kept |-> TRUE, addr |-> IF known THEN addr ELSE None]
        /\ guest = [power |-> "on", pending |-> setup, winrm |-> TRUE, addr |-> addr,
                    features |-> FALSE, apps |-> {}, agent |-> "none",
                    joined |-> FALSE, media |-> "empty"]
  BY DEF Init
<1>2. /\ assets = Apps /\ exec = Entered /\ task = {} /\ retries = 0 /\ lost = FALSE
  BY DEF Init
<1>3. exec \in Execs /\ exec.stage = "reach" /\ exec.at = "address"
  BY <1>2, IdleFacts
<1>4. PICK row \in Addresses \cup {None} :
        deployment = [state |-> "installing_os", wanted |-> wanted, host |-> "none",
                      kept |-> TRUE, addr |-> row]
  BY <1>1
<1>5. deployment \in Deployments /\ deployment.state = "installing_os"
      /\ deployment.host = "none" /\ deployment.wanted = wanted
  BY <1>4 DEF Deployments
<1>6. guest \in Guests /\ guest.winrm /\ guest.agent = "none"
  BY <1>1 DEF Guests
<1>7. Types
  <2>1. 0 \in 0 .. MaxRetries
    BY PostInstallAssumption DEF PostInstallAssumption
  <2>2. lost \in BOOLEAN
    BY <1>2
  <2>. QED  BY <1>2, <1>3, <1>5, <1>6, <2>1, <2>2 DEF Types
<1>8. Places /\ Installed
  BY <1>2, <1>3, <1>5, <1>6 DEF Places, AtTask, Installed
<1>9. FeaturesDone /\ JoinDone /\ AppsLeft /\ AppsInstalled
  BY <1>3, <1>5 DEF FeaturesDone, JoinDone, AppsLeft, AppsInstalled, AfterFeatures,
     AfterApps, AfterJoin
<1>10. OwnTasks /\ ClosedIsDone
  BY <1>2, <1>6 DEF OwnTasks, ClosedIsDone
<1>. QED  BY <1>7, <1>8, <1>9, <1>10 DEF Inv

LEMMA NextInv == Inv /\ [Next]_vars => Inv'
<1>. SUFFICES ASSUME Inv, [Next]_vars
              PROVE  Inv'
  OBVIOUS
<1>1. CASE Work
  BY <1>1, ReachSteps, CommandSteps, FeatureSteps, RestartSteps, ToolsSteps, BeginSteps,
     RegisterStep, PollSteps, CleanStep, EnrolStep, CloseStep, CompleteStep DEF Work
<1>2. CASE Guest
  BY <1>2, RestartsSteps, EnrollStep, TaskEndsSteps DEF Guest
<1>3. CASE Sweep \/ Crash \/ RetryPostInstall \/ \E what \in Apps : DeleteAsset(what)
  BY <1>3, SweepStep, CrashStep, RetryStep, DeleteAssetStep
<1>4. CASE UNCHANGED vars
  BY <1>4 DEF vars, Inv, Types, Places, AtTask, Installed, FeaturesDone, JoinDone, AppsLeft,
     AppsInstalled, OwnTasks, Mine, TryOf, ClosedIsDone, Done, Wanted
<1>. QED  BY <1>1, <1>2, <1>3, <1>4 DEF Next

LEMMA Invariant == Spec => []Inv
BY InitInv, NextInv, PTL DEF Spec

(* Types are kept; the stages, places and results are those of the code.    *)
THEOREM TypeCorrect == Spec => []TypeOK
<1>1. Inv => TypeOK
  BY DEF Inv, Types, Execs, Deployments, Guests, Tasks, TypeOK
<1>. QED  BY <1>1, Invariant, PTL

(* Whatever fails, is late, restarts or is tried again, "completed" is      *)
(* only ever written (provision.py:1475) for a machine that has what its    *)
(* template asks for, as far as the catalogue still has it.                 *)
THEOREM CompletedIsDoneHolds == Spec => []CompletedIsDone
<1>1. Inv => CompletedIsDone
  BY DEF Inv, FeaturesDone, JoinDone, AppsInstalled, CompletedIsDone, Done
<1>. QED  BY <1>1, Invariant, PTL

(* While the worker knows what became of its calls, no scheduled task that *)
(* it registered outlives the wait for it (client.py:405-454).             *)
THEOREM NoTaskLeftHolds == Spec => []NoTaskLeft
<1>1. Inv => NoTaskLeft
  BY DEF Inv, OwnTasks, NoTaskLeft, Mine
<1>. QED  BY <1>1, Invariant, PTL

(* From the updates on the agent has enrolled, so the restarts that follow  *)
(* do not cut its work off.                                                *)
THEOREM AgentDoneBeforeRestartHolds == Spec => []AgentDoneBeforeRestart
<1>1. Inv => AgentDoneBeforeRestart
  BY DEF Inv, Installed, AppsInstalled, AgentDoneBeforeRestart
<1>. QED  BY <1>1, Invariant, PTL

(* The worker only closes WinRM (provision.py:1457) on a machine that has   *)
(* what its template asks for, whatever fails, is retried or dies before    *)
(* or after.                                                               *)
THEOREM ClosedIsDoneHolds == Spec => []ClosedIsDone
<1>1. Inv => ClosedIsDone
  BY DEF Inv
<1>. QED  BY <1>1, Invariant, PTL
================================================================================
