# Verification of DeployCore

DeployCore provisions Windows machines on vSphere without a human at the
console: an API stores a deployment, an arq worker creates the machine, waits
for Windows Setup to call back, configures the guest over WinRM and marks the
deployment completed.  This directory holds TLA+ models of the parts whose
correctness depends on order, failure and concurrency, the TLC configurations
that check them, and TLAPS proofs.  Source paths below are relative to the
repository's root.

    tlc -workers 2 -config Attempts.cfg MCProvisioning.tla
    tlapm ProvisioningProofs.tla
    tlapm LifecycleProofs.tla
    tlapm MachineProofs.tla
    tlapm PostInstallProofs.tla
    tlapm RemoteSessionsProofs.tla
    tlapm AssetsProofs.tla
    tlapm EsxiHostProofs.tla

## Inventory

| Part | State | Operations | What is hard | What makes it correct |
|---|---|---|---|---|
| Deployment state machine (`backend/app/services/deployment_service.py`) | `deployments.state`, `vm_moref`, `callback_token_used`, `retry_count` | `transition`, `retry_deployment`, `retry_post_install` | The checks read a session's copy of the row, which is not refreshed after commits | Only listed transitions; only a retry leaves a terminal state |
| Provisioning pipeline (`worker/worker/tasks/provision.py`) | The row, the machine, its media, the answer floppy | `run_deployment`, `wait_for_callback`, `run_post_install`, `cleanup_deployment`, `_fail` | Worker crashes, redelivery, cancellation, hypervisor calls that fail, a poll loop racing a callback, commits of stale sessions | One driver; completed means configured; media stay until Setup can do without them; partial machines are deleted, those that answered kept; no secret is left behind; every deployment ends |
| Sweep and job settings (`worker/worker/tasks/maintenance.py`, `worker/worker/main.py`) | `updated_at` | `sweep_stale_deployments`, job timeouts | Runs beside the job it gives up on | Ends what nothing else ends |
| Deployment API (`backend/app/api/routes/deployments.py`) | Inserts and updates the row | create, bulk create, retry, retry-post-install, delete, event stream | Commit and enqueue are two steps; two requests read the same row | A stored deployment gets a job or is ended; one retry wins |
| Guest callbacks (`backend/app/api/routes/callback.py`) | `callback_token_used`, `guest_reported_ip` | callback, network ping | Early, late and repeated calls; calls from a previous attempt's machine | A landed callback is not lost, and counts only after Setup |
| Database sessions (`backend/app/db.py`) | A copy of the row per session | load, commit, refresh | `expire_on_commit=False`: copies outlive other processes' commits | A commit touches the changed columns only |
| Hypervisor drivers (`backend/app/hypervisors/`) | On the host: machines, their drives and power, folders, files on the datastore | create, attach, detach, remove, power, delete, upload | Several remote calls per operation, each of which may fail with or without its effect; threads that outlive their cancelled job; a name used again; an operator at the same machine | Media stay while Setup is waited for and drives go only from a machine that is off; nothing takes another machine's files; what one attempt leaves does not make the host refuse the next |
| Remote sessions (`backend/app/services/remote_session.py`, `api/routes/remote_agent.py`, `api/routes/managed_hosts.py`) | `_AGENTS`, `_SESSIONS`, `_TUNNEL_WRITERS` | register, unregister, relay, open and tear down sessions | A reconnect overlapping the old connection's cleanup; tasks that outlive their session; an agent that goes away at any await | Registries hold exactly what is live |
| WinRM client and the guest (`backend/app/winrm/client.py`, used by `run_post_install`) | Scheduled tasks on the guest, its features, applications, domain, power and address | commands, `_run_as_system_task`, installers, updates, reboot, shutdown | Calls whose answer is lost; guests that are late, restart or move; attempts that follow one another on one machine | A completed guest has what its template asks for; no task outlives the wait for it; what a restart cuts off does not count as done; a guest is closed only when nothing is left to do on it; every attempt ends |
| Uploads, assets and downloads (`services/iso_upload.py`, `services/app_asset_upload.py`, `services/remote_agent_seed.py`, their routes) | Part files, files in storage, asset rows, the designated agent | create, append, finalize, delete, designate, seed, download | Requests that overlap or whose browser has gone; a failure between file and commit; two stores | A complete asset's file is its chunks in order; a row never names a missing file; a guest that gets an upload gets all of it |
| Windows agent, console session (`remote-agent/agent/ShadowSession.cs`, `SessionHelper.cs`, `SessionCapture.cs`) | The session's fields, a capture process and its file, a helper process per desktop, the console's resolution | start, resize, desktop report, helper relaunch, stop | Threads without a lock; processes that start, die and report late | Captures go with the session, one writes the file at a time; capture and input follow the desktop; helpers and altered resolutions go with the session |
| Event stream (`api/routes/deployments.py`, `_event_stream`) | Two timestamp cursors per client | poll, emit, close at a terminal transition | Timestamps are taken before the commit that makes them visible | Every line once, the end of the attempt seen |
| Updater (`updater/update.sh`, `api/routes/settings.py`) | Request flags and status in the settings table | poll, update, clear | A request that arrives while one is served | No request is lost |
| Login sessions (`security/sessions.py`, `api/routes/auth.py`, `api/routes/setup.py`) | Redis keys and a set per user | create, revoke, revoke all, first setup | Several Redis calls per operation | A revoked user has no session; set-up happens once |
| Notifications and webhooks (`services/notifications.py`, `services/webhooks.py`, worker tasks) | Queued jobs, last delivery status | dispatch, deliver | Repeats, failures inside the caller's try block | Delivery never changes the outcome of the deployment |
| Settings, template rendering, backup, edition detection, migrations, users/orgs/templates CRUD, frontend, start-up scripts | | | Pure functions, I/O, single-request CRUD, presentation | Outside the models |

The parts meet in the `deployments` row.  The API and the worker share no
memory: they exchange jobs through Redis (arq, at least once) and state through
the row, and each job or request works on its own ORM copy of it.  The guest
reaches the API with the callback token; the worker reaches the guest over
WinRM and the hypervisor over its API.

## Modules

| Module | Contents |
|---|---|
| `OrmSession` | `Flush`: what a SQLAlchemy session's commit does to the row.  Only columns whose value differs from the copy are written; the copy is not read again |
| `DeploymentStates` | States, transitions and keepable states as constants and `CanTransition` |
| `DeploymentLifecycle` | Abstract specification: the state an operator sees and whether the deployment names a machine |
| `Provisioning` | One deployment's row, the jobs, requests and callbacks that work on it, the machines on the hypervisor, and the incidents.  Properties at its end |
| `ProvisioningProofs` | Theorems about `Provisioning`: types, callbacks, one driver with a current copy |
| `LifecycleProofs` | `Provisioning` implements `DeploymentLifecycle`.  Uses `ProvisioningProofs` |
| `MachineProofs` | Theorems about the machines and files `Provisioning` leaves.  Uses `LifecycleProofs` |
| `RemoteSessions` | One managed host: the agent's control connections, operators' sessions, tunnels between guacd and the agent, the three registries.  Both sides of the control channel |
| `RemoteSessionsProofs` | Theorems about `RemoteSessions` |
| `PostInstall` | `run_post_install` from the inside: its stages, the client's calls, the tasks on the guest, the guest |
| `PostInstallProofs` | Theorems about `PostInstall` |
| `Assets` | Rows, part files, stored files and the agent designation, with the handlers and the browser tabs that drive them.  Uses `OrmSession` |
| `AssetsProofs` | Theorems about `Assets` |
| `ShadowSession` | The capture of one console session of the Windows agent: the threads that start and stop it, the capture processes and the loops that read their file |
| `HypervisorDriver` | Abstract specification: what may happen to a machine and its drives under the contract of `hypervisors/base.py`, as the pipeline uses it |
| `EsxiHost` | One ESXi host: machines, drives, folders, datastore files, and the calls `ESXiDriver` makes on it for several deployments, an operator and the guests |
| `EsxiHostProofs` | Theorems about `EsxiHost`, among them that it implements `HypervisorDriver` |
| `MCProvisioning`, `MCRemoteSessions`, `MCPostInstall`, `MCAssets`, `MCEsxiHost` | Symmetry and values of the constants for TLC |

### How `Provisioning` corresponds to the code

`row` is the `deployments` row without the columns that no control depends on.
`stale` abstracts `updated_at` against `os_install_timeout_minutes`.  `floppy`
is the answer image on the datastore (one name per deployment), `guest` and
`media` what each machine is doing and whether it has its install media.
A slot of `Execs` is one execution: `job[e]` the arq job, `pc[e]` where its
code is, `snap[e]` its session's copy, `ref[e]` the machine it holds in a local
variable.  A step is the code between two points at which others may act: a
commit, a hypervisor or WinRM call, a wait.

* `run_deployment`: `RunDeployment` (load), `BeginCreate`, `UploadFloppy`,
  `RecordFloppy`, `CreateVm`, `RecordVm`, `AttachAndBoot`, `PowerOn`,
  `EnterInstallingOs`, `EnqueueWait`.  The slot that ends is reused for the job
  it enqueues.
* `wait_for_callback`: `WaitForCallback` (guard and load), `Poll` (one turn:
  refresh, callback, failed elsewhere, WinRM fallback), `PollTimeout`, `Eject`.
* `run_post_install`, inline or a job of its own: `RunPostInstall` (guard,
  load, address), `ReResolve`, `BeginPostInstall`, `InstallApps`, `FinishApps`,
  `Configure`, `CloseWinRm`, `Complete`, `Announce`.
* `_fail`: `FailCleanup` (hypervisor part, and the commit of the log line when
  the machine is kept), `FailCommit`.  `Raise` is an exception in a try block,
  `CreateVmRaises` one of `create_vm` after vSphere has made the machine (a lost
  answer, or the disconnect in its `finally`), `CleanupDeployment` the sweep's job.
* API: `RequestRetry`, `CommitRetry`, `Enqueue`.  `Init` is the state right
  after create's commit, before its enqueue.
* Guest: `GuestSpecializes`, `GuestInstalls`, and the two callback routes.
* Mishaps: `Redeliver`, `Crash`, `Cancel` (arq's job timeout: `CancelledError`
  is not an `Exception`, `_fail` does not run), `DeleteTemplate`, and the ones
  inside other actions (a hypervisor deletion that fails, a notification
  dispatch that raises, a WinRM close that does not happen).

Choices worth knowing:

* Which kinds of incident may happen is the constant `Incidents`, so that each
  property is checked under the weakest conditions it holds in and a run shows
  what breaks it.
* `UniqueNames = TRUE` says that the hypervisor refuses a second machine of one
  name.  `Sweep` sets it FALSE, which allows more.
* WinRM answers from Setup's specialize pass on (`Answering`), in every run:
  the template `_specialize_enable_winrm.xml.j2` opens it there, and
  `provision.py:50-56` says so.  The comments at `provision.py:728-731` and
  839-843 take an answer for the end of Setup; the model does not.
* An address is identified with the machine that has it; a static address is
  shared by all machines of the deployment.
* The hypervisor answers both deletions of one clean-up or neither.
* A failing dispatch in the API, before its enqueue, is `Crash` at
  `api_enqueue`: either way there is no job.
* The sweep may find any non-terminal state overdue: the timeout has no lower
  bound and a queued job does not touch `updated_at`.  With the default of 90
  minutes the early stages would have to wait that long in the queue.

Left out of `Provisioning`: log lines, notification rows, `error_message`, the soft delete (it
hides the row and changes nothing the jobs read), the ISO uploads, failures of
the database itself.  The content of the post-install steps is in `PostInstall`.

### How `PostInstall` corresponds to the code

`exec` is the one execution of `run_post_install`: its stage, where in it the
code is, the applications still to install, the address its client uses.
`guest` and `task` are the machine and its scheduler; `assets` are the
applications not yet deleted.  `lost` is a history variable: a call that
registers or cleans up a task raised, or the worker was killed while a task was
there.  Nothing else sets it: early answers, late restarts and failing calls do not.
The guest may start with a restart of Setup's own still to come, because the wait
for Setup ends on an answer over WinRM, too.

* Stages follow `Order`; the optional ones are skipped when the template does
  not want them (`Skipped`).  `Proceed` goes on to the next stage, with the
  transition to `configuring` where it comes; `Goto` goes on within a stage;
  `Fail` is the exception that ends the try block, with `_fail`'s decision
  whether the machine is kept.
* A call over WinRM either returns what the guest says or raises; when it raises
  it may have had its effect (`Raises`).  Waiting loops are a step that is
  possible when the answer is there and one that gives up.
* `_run_as_system_task`: `RegisterTask`, `PollTask`, `ReadResult`, `CleanTask`.
  The name of an application's task differs between attempts; the updates' task
  always has the same one.
* `_shutdown_remove_media_and_power_on`: `ShutDown`, `AwaitPowerOff`,
  `RemoveMedia`, `PowerOn`; `_reboot_and_wait` and `_wait_for_guest_settled`:
  `Restart`, `Settled`.
* The guest: `GuestRestarts` (perhaps with another address), `GuestShutsDown`,
  `InstallerEnds`, `UpdatesEnd`, `TaskFails`, `EnrollAgent`.

One execution works at a time (`SoleDriver` of `Provisioning`); the sweep's race
with a running execution and what can fail after `completed` is written are in
`Provisioning` too.  Known from the model and not claimed otherwise: an EXE
that is installed already is reported as failed on a retry, because no new
Uninstall entry appears; a second domain join is refused, so such a retry cannot
succeed; a registration that raises leaves its task running; the VMware Tools
image stays mounted when the shutdown is late or removing the drive fails, though
the docstring at `provision.py:670` takes it for ejected.  A probe that is given
up after ten seconds goes on in its thread, on the client the pipeline then uses
(`provision.py:443`); what becomes of two requests over one NTLM session is
outside the source.  A second delivery of the job may make a second managed host
(`provision.py:161`).  Three answers in a row may come before the guest has gone
down (`provision.py:611`): the next stage starts, and the restart ends its task; the
task then has no result, which fails the application or the stage and never counts
as done (`CompletedIsDone`).  A worker that dies after WinRM is closed and before
`COMPLETED` (`provision.py:1457-1475`) leaves a finished machine in a row that the
sweep ends as failed and that no retry reaches; `ClosedIsDone` says that at least
nothing is left to do on it.

### How `Assets` corresponds to the code

The API is one asyncio process: a step is the code between two awaits of a
handler.  `rows` are the tables `iso_assets` and `app_assets`, `part` the
`upload-<id>.part` files, `file` what is in storage; the seeded agent installer
has one path for all its rows.  A request works on its session's copy and
commits with `Flush`.  `tab` is the browser tab that sends the chunks one after
the other, each when the last was answered, and never repeats one.

* Upload: `CreateAsset`, `LoadForChunk`, `ReceiveChunk` (the body may arrive
  long after the row was read), `Finalize` (no await between reading the row and
  the checksum; a Windows ISO may be rewritten in place), `CommitUpload`.
* Deletion: `LoadForDelete`, `CommitDelete`, `Unlink`.
* Designation and seeding: `SetRemoteAgent`, `ClearOtherAgents`,
  `CommitDesignation`; `CurrentAsset`, `RemoteSize`, `FetchInstaller`,
  `CommitSeed`, `UnlinkOld`.
* Download: `DownloadAppAsset`, `OpenFile`, `ReadFile`.  `Restart` ends every
  handler and seeds again.

Known from the model and not claimed otherwise: a chunk that is sent twice is
appended twice (the browser gives the upload up instead); nothing serialises
designations and seeds, so that two that overlap leave two agents, against the
docstring at `app_assets.py:277` (`OneAgent` is stated and fails);
designating the asset that already is the agent's loses the designation, because
the UPDATE clears it outside the session and the session sees no change to write
(`app_assets.py:290`); deleting one seeded row removes the file of all; a
deletion that races a finalize leaves a stored file without a row, and no
deletion removes a `.part`.

A seed rewrites the installer in place (`remote_agent_seed.py:107`) while
`FileResponse` may be sending it, so a guest can get parts of two builds.  A
download is therefore one read only for the file of an upload, which is never
written again once it is there; what is read from the installer's path is not
represented (`OpenFile`), and `DownloadWhole` does not speak of it.  PATCH of names
and arguments is not modelled.

### How `ShadowSession` corresponds to the code

A step is what one thread does between two calls that wait for a process.
`field` are those fields of the `ShadowSession` object that say which capture is
the current one: `ff` stands for `_ffmpegProcessId`, `cts` for `_captureCts`,
`input` for `_inputDesktop`.  No lock guards them.  `thread` says where the control
channel's receive loop, the data channel's callback and the read loops of the
helpers' pipes are; `capture[c]` is the process of the launch `c` and the loop that
reads its file.

`StartCapture` begins by `StopCapture`, here two steps (`StopCapture` up to the
kill, `Killed` after it), and then launches.  `Stop` is the same two steps without
the launch.  A launch may fail, and is then logged only.  The path of the capture
file is a function of the session, so it is the same for all captures and is not a
variable; that two processes must not write it is `OneWriter`.

The helper process (its relaunches, the pipe, input, clipboard, the console's
resolution) and the H.264 stream are not modelled.

### How `EsxiHost` corresponds to the code

`Provisioning` and `PostInstall` take a driver call for one step that succeeds or
fails.  `EsxiHost` opens it.  `call[t]` says which call of the pipeline thread `t`
is in, at which point of it, and with which `vm_ref`: the argument is fixed when
the call is made, the row is not read again.  `asyncio.to_thread` cannot be
interrupted, so a job that is cancelled leaves its thread behind
(`Stray(d)`), and the next attempt's calls run beside it.  `row` keeps
`vm_moref`, `answer_iso_remote_path`, whether a failure would keep the machine,
and the local `tools_cdrom_unit`.  `life`, `power`, `drive` are what vSphere
knows of a machine, `files` whether its folder is on the datastore, `image`
the Windows ISO there and `answer` the answer files.

* `Then` is the order of the calls in `run_deployment`, `_eject_install_media`,
  the VMware Tools part of `run_post_install` and `_fail`; `Raised` where an
  exception leads: past it where it is caught, else to `_fail`.
* Every call may raise before it does anything (`CallFails`), after it did what
  it should (`Returns`, incident `lost`), or because the host refuses it
  (`Refused`).  `NothingToDo` is the early return of the calls that look for a
  drive first.
* `create_vm`: `CreateVm`; the ones that reconfigure the machine: `Reconfigure`
  with the drive and the medium; `delete_vm`: `FindToDelete`, `PowerOffToDelete`,
  `Destroy`, `DeleteFolder`, with others free to act in between.
* `upload_iso_to_datastore`: `UploadAnswer` (its name is new or overwritten);
  for the ISO, which has one name for all deployments, `ProbeImage`, `StartPut`,
  `EndPut`.  The response of the PUT is not looked at: `AnswerNotTaken`, `BreakPut`.
* `OperatorPowers` is the power menu of a deployment and of its managed host;
  a graceful shutdown is the same step at the time the guest has gone down.

What the host accepts is external and assumed (`Accepts`, `SameName`,
`FileMissing`, `Locked`): a second machine of one name is refused, because
`create_vm` names the `.vmx` itself; a drive is added or removed only while the
machine is off, as the comments of `base.py` say; a running machine's files are
locked.  A machine's identity is never used again.

Left out: the VirtIO ISO (no ESXi machine needs it), the order of the drives and the
key presses (no state the properties tell apart), and everything post-install
does besides VMware Tools, whose failure is a failing `shutdown` or
`check_power`.  A worker that dies takes its threads with it; a vSphere task
that finishes after that is, for the host, the call of a cancelled job.  The
clean-up starts when the job is gone: its race with a job that still runs is in
`Provisioning`, and so is the full retry of a kept deployment.  The row changes
with the call, the commit after it is not a step of its own.

The wait for Setup ends (`SetupEnds`) once the guest is in `answering`: it has come
to the specialize pass, where WinRM is opened.  Setup may not be over then, and the
media are taken out all the same; the contract is stated accordingly.

Known from the model and not claimed otherwise: with a cancelled job whose
`delete_vm` goes on, or with two deployments of one hostname, the folder deletion
may take the files of the machine created since (`FilesKept` names both); a
deletion that fails is swallowed, and the retry is then refused the name
(`CallsAccepted` does without that incident); an answer file still in a running
machine's floppy cannot be deleted, and the row forgets it all the same.

### How `RemoteSessions` corresponds to the code

The API is one asyncio process, so a step is the code between two awaits.
`agents`, `sessions` and `writer` are the registries `_AGENTS` (of one host),
`_SESSIONS` and `_TUNNEL_WRITERS`; `conn` is `agent_control`'s loop for each
connection and `pc` where `managed_host_session_ws` is for each session;
`bridge` and `sock` are the task `_bridge_listener_to_agent` and guacd's socket
for each dial-back.  `held` and `hosted` belong to the agent: its one socket and
its two dictionaries of sessions.

* Control channel: `AgentConnects`, `ControlDisconnect`, `ReceiveFrame`
  (signal, session_end and tunnel bytes, each of which may raise).  A frame the
  server sends raises only once `agent_control` has returned; until then a
  connection the agent has given up swallows it.
* Agent: `AgentDrops` (and the clean-up of its sessions), `AgentReceives`,
  `AgentSends`, `LocalRdpCloses`.
* Session: `OpenSession`, `CommitAudit`, `StartSession`, then `RelayEnds` and
  `RelayFails` (Shadow), or `Listen`, `OpenGuacdConnection`, `ReplayReady`,
  `AwaitDialBack`, `PumpEnds`, `PumpFails` (Connect), then `EndSession`.
* guacd: `GuacdDials`, `GuacdRedials`, `GuacdEnds`, `GuacdHangsUp`; the bridge:
  `BridgeStarts`, `BridgeEof`, `BridgeFails`.

`half_open` lets the agent reconnect before the server has noticed that the old
connection is gone (a reset machine; the server waits for its ping to time out).
Frames to the agent that it only passes on are left out: sending them matters
here only when it fails, which `RelayFails` and `BridgeFails` say.  A guacd
connection whose handshake fails counts as never opened.

## Runs

Bounds.  In the runs of `Provisioning` two slots are enough for two drivers of
one row, three for the sweep's job beside two others.  Three machines cover three attempts (two retries), so
that a machine of an earlier attempt is around when a later one runs.
`Termination` has one attempt and one machine: a second one could only be made by a
repeated `run_deployment` after the first was deleted, and that job fails here
instead.
`MaxIncidents` counts every incident but the sweep.  `MaxRetries` bounds retry
requests of both kinds together.  Slots, machines and assets are symmetric and used as
such where no liveness is checked.  Deadlock is not checked in any run: a
deployment at rest with no more retries, a session that is over, uploads that
are done have no step to take.

| Run | Shows |
|---|---|
| `Attempts` | Over three attempts with two incidents (crash, cancellation, failing deletion, deleted template, lost answer of `create_vm`), WinRM answering from the specialize pass on: `CompletedGuestIsConfigured`, `MediaUntilAnswer`, `FailedVmAnswered`, `SoleDriver`, `SnapshotCurrent`, `CallbackNotLost`, `NoSecretsAtRest` and `OnlyRetryAbandonsVm` (these two until the first incident), and that the pipeline implements `DeploymentLifecycle` |
| `Sweep` | `NoOrphanVm` with the sweep racing the pipeline in three slots and machine names not unique; no retries, crashes, cancellations, failing deletions or lost answers of `create_vm` |
| `Termination` | `EventuallyTerminal` under `FairSpec`: one pipeline with lost, cancelled, crashed, failing and redelivered jobs and the sweep; `TypeOK`, `CallbackNotLost` in the same state space.  No retries, so no overlapping requests |
| `Guest` | `PostInstall` for three templates (each optional stage is in one and missing in another), two addresses, three attempts and any two incidents: lost answers, failing commands, late guests, changed addresses, crashes, deleted applications |
| `Remote` | `RegisteredAgentLive`, `WriterIsPumped`, `HostedSessionEnds`, and under `FairSpec` `SessionEnds` and `TunnelUnregistered`, for two control connections and one session of either mode |
| `Assets` | `CompleteIsWhole`, `RowNamesFile`, `DownloadWhole` (of uploads) for two assets of every pair of kinds, two handlers that overlap in any way, abandoned uploads, failing commits and restarts |
| `Host` | `FilesKept`, `SetupKeepsMedia`, `CallsAccepted`, and that `EsxiHost` implements `HypervisorDriver`, for two deployments with equal or different names, three machines, a retry and any two incidents of seven kinds |

One session suffices for `Remote`: its properties speak of one session at a
time, and what other sessions can do to it, ending the agent's connection, the
agent can do by itself at any moment.  Two connections are one reconnect, two
dial-backs one overlap of their clean-ups; `MaxQueue` bounds only the data
frames an agent may have under way.  Two chunks per file show a missing, a
repeated and a swapped one; two handlers are one race; the second asset is the
other candidate for the agent.

In `Host` two deployments are needed for the shared ISO and the shared name;
three machines are one of each and a retry's; two incidents let a call outlive its
job and the next attempt fail too.  A worker that dies (`crash`) is left to the
theorems, which have no bound on any of these: it is a cancellation without a thread
that goes on, and the run has those whenever the job awaits no call.

Fairness in `Termination`: each slot's next step (the worker and the API
run what they have started; calls have time-outs), each poll's deadline, the
passage of time while the deployment is not terminal, and the cron job.  Nothing
is assumed of guests, operators or mishaps, so the property also covers a guest
that never calls back.  In `Guest`: the worker's steps (every call and loop has a
time-out), the sweep, and the guest's own steps: a guest that is later than the
worker waits is an incident (`late`), one that is gone is noticed at once.
In `Remote`: the handler's and the bridges'
own steps (tasks of the event loop; the handshake and the dial-back have
time-outs) and guacd's giving up the RDP connection of a user that left;
nothing is assumed of agents, browsers or the network.

No passing run has overlapping retry requests (`ConcurrentRequests`): two
requests that overlap do start two pipelines on one row.  The theorems
`TypeCorrect` and `CallbackKept` admit them.

Five runs refute what documentation, comments or tests say; each is a finding in
`PROJECT.json` with the quoted line.

| Run | The code |
|---|---|
| `DispatchDeletesCompleted` | A failing notification dispatch after completion deletes the machine |
| `RetryDeletesKeptVm` | A post-install retry that fails early deletes the machine it was to reuse |
| `LeftOff` | A guest that is late going down for the media change is left powered off |
| `ReconnectUnregisters` | The clean-up of an agent's old connection unregisters its new one |
| `CaptureLeft` | A capture launched while the console session stops is ended by nothing |

More follows from the same models by changing the constants of a run; it
explains which incidents the passing runs leave out:

* With the sweep, `SnapshotCurrent` and `LifecycleSpec` fail: a job whose copy
  still says `creating_vm` commits its next state over the `failed` the sweep
  has saved (`deployment_service.py:36` tests the copy).
* With `redeliver`, two deliveries of `wait_for_callback` both find
  `installing_os` (`provision.py:870`), because the state moves on only after
  the whole WinRM wait, and both run post-install.
* `CompletedVmSurvives` also fails with the sweep: `cleanup_deployment`
  (`provision.py:1505`) does not look at the state, so a clean-up queued while
  the row was overdue deletes the machine of a deployment completed meanwhile.
* `FailedVmAnswered` fails with the sweep: `_fail` of a clean-up that loaded
  the row before `vm_moref` was committed deletes nothing, and `run_deployment`
  goes on to boot a machine that a failed row then names.
* `NoSecretsAtRest` speaks of the time before the first incident.  After a crash
  between `UploadFloppy` and `RecordFloppy` it would fail: nothing refers to the image, so nothing deletes it.
* `MediaDuringSetup`, as an invariant of `Attempts`, fails: WinRM answers in the
  specialize pass, so the fallback of `wait_for_callback` (`provision.py:819`) may
  end the wait and eject the media while Setup is going on.  The comment at
  `provision.py:839` says Setup is over by then.  For the same reason the machine
  that a failed row keeps (`FailedVmAnswered`) may still be in Setup.
* So does `OnlyRetryAbandonsVm`.  A machine whose `create_vm` raised after vSphere
  had made it (`lost`, `esxi.py:167-194`) is known to nobody.
* `OneAgent`, as an invariant of `Assets`, fails: two designations or seeds that
  overlap leave two agents.
* A full retry of a deployment whose machine was kept forgets the machine
  (`deployment_service.py:87`); `OnlyRetryAbandonsVm` names it as the only step
  that does.
* A session whose browser is gone at the replay of guacd's `ready`
  (`managed_hosts.py:636`) ends before the try block that closes its listener
  and its guacd connection.
* In `RemoteSessions` an agent's connection ends only because the agent dropped
  it or because a forwarded frame raised (`MayRaise`): a browser or guacd
  connection that has just closed takes the agent's control channel with it,
  and so every other session of the host.
* A failing audit commit, or an agent whose connection ends between
  `get_agent` and `session_start`, leaves the session in `_SESSIONS` for good
  (`managed_hosts.py:464-473` is outside the try block).
* `OneWriter` of `ShadowSession` fails: a resize and a desktop report may both be
  past `StopCapture` when they launch, so that two processes write one capture
  file, which the comment at `ShadowSession.cs:698` wants to exclude.
* An ISO upload that the datastore answers with an error, or that breaks off,
  counts as done, because nothing looks at the response of `httpx.put`
  (`esxi.py:636`); and what it leaves is taken for the ISO by every later deployment,
  whose GET finds a file of that name (`esxi.py:629`).  As an invariant of the run
  `Host`, `PathNamesImage` fails with the one incident `put`.
Every property of a passing run comes with a mutant, a plausible slip in a
definition (the operators named `...Fault`), under which the same run refutes it.

## Proofs

`ProvisioningProofs` proves, for every value of the constants that satisfies
`ProvisioningAssumption`:

* `TypeCorrect`: `Spec => []TypeOK`.  `TypeOK` alone is not inductive:
  `CommitRetry` increments `retry_count` in a copy loaded earlier, and
  `RecordVm` stores a local variable.  `TypeInv` adds that a request which has
  loaded the row still has a retry left (`RetriesLeft`) and that a
  `run_deployment` past `create_vm` holds a machine (`HoldsVm`).
* `CallbackKept`: `Spec => CallbackNotLost`, from the column-wise `Flush` and
  the fact that no worker step assigns to `callback_token_used`.
* `SoleDriverHolds` and `SnapshotCurrentHolds`, assuming `SerialEnvironment`
  (no second delivery, no sweep, no overlapping requests).  The inductive
  invariant adds `DriverOwnsRow`: while a job is at work the row is not failed,
  because `_fail` saves `failed` in the last commit of its job; so a retry
  request, which needs a failed row, finds every slot idle.  The copy stays
  current because the only driver's commits are the only writes of those
  columns.  `SlotInv` is the per-slot form, proved once per action.

`LifecycleProofs` builds on the last of these.  It assumes `CalmEnvironment`:
`SerialEnvironment`, and that the dispatch of the completion notice does not
raise (the run `DispatchDeletesCompleted` shows what happens if it does).
Crashes, cancelled jobs, failing deletions and full or post-install retries
stay in.

* `PipelineImplementsLifecycle`: `Spec => LifecycleSpec`.  A current copy makes
  each commit a change of known columns of the row; whether that change is an
  operation of `DeploymentLifecycle` depends on where the slot is, which is
  `LifeInv`: a deployment past `creating_vm` names a machine (`RowSound`), an
  admitted retry meets a failed row (`RetrySound`), a machine is recorded while
  the row is `creating_vm` and names none (`CreationSound`), and the driver of
  a completed deployment has only its notices left (`CompletedSound`), so that
  no `_fail` runs over it.

`MachineProofs` carries this on to the hypervisor and the datastore:

* `FailedVmAnsweredHolds`, `MediaUntilAnswerHolds` and
  `CompletedGuestIsConfiguredHolds`, assuming `CalmEnvironment` and
  `UniqueNames`.  With unique names the row's machine is the only one while
  the row names one, and a slot at work on a machine is at work on that one
  (`MachineInv`).  Whatever lets the wait end, a counted callback or
  an answer over WinRM, means that this machine has come to the specialize pass
  (`WindowsInv`), not that Setup is over; the copy's
  token flag is part of it, because it is not among the columns that stay
  current.  The third assumes that the call that closes WinRM
  does not fail (no `winrm` incident): its failure is swallowed.
* `NoSecretsAtRestHolds` and `OnlyRetryAbandonsVmHolds`, assuming
  `CalmEnvironment`, both from `CleanInv`, which speaks of the time before the
  first incident (a lost answer of `create_vm` is one): the image is where the row or the slot that uploads it says
  (`FloppyKnown`), it is gone once the row is failed or completed
  (`FloppyGone`), the token is void by then (`TokenVoided`), and a failure
  commits after the machine is deleted (`MachineDeleted`).
* `NoOrphanVmHolds`, assuming `SweepEnvironment`: no requests, redelivery,
  crash, cancellation, failing deletion or lost answer of `create_vm`, but any number of the sweep's
  clean-ups, and names that need not be unique.  Copies are not current here.
  One job may create a machine (`OneCreator`), every session that ever holds a
  machine holds that one (`OneName`), and a session that is to clear the name
  has deleted it first (`DeletedFirst`).

`RemoteSessionsProofs` proves, for any number of connections, sessions and
dial-backs, every set of incidents and unbounded queues to the agent:

* `TypeCorrect`, and `WriterIsPumpedHolds`, inductive with the types.
* `RegisteredAgentLiveHolds` and `HostedSessionEndsHolds`, parts of the
  inductive invariant `ChannelInv`.  That a session which is over is still
  hosted only while its end is on its way is not inductive: a start received
  late hosts a session anew.  `ChannelInv` adds where frames can be and in
  which order.  Only the agent's one socket carries frames
  (`OnlyHeldIsUsed`); they belong to sessions whose handler has come past its
  `session_start` and which looked up that connection (`FramesStarted`,
  `HostedStarted`, `LookedUpConnected`); and the start of a session that is
  over is followed by its end, unless the connection's handler has returned
  (`StartIsEnded`).  `ReceivesChannel` and `SendsChannel` are the two steps
  where this matters, `HandlerMoves` covers the handler's other steps.

`PostInstallProofs` proves, for any templates, addresses, number of retries and
number and kind of incidents:

* `TypeCorrect`, `CompletedIsDoneHolds`, `NoTaskLeftHolds`,
  `AgentDoneBeforeRestartHolds` and `ClosedIsDoneHolds`, all from the
  inductive invariant `Inv`.  `CompletedIsDone` speaks of the end only; `Inv`
  says what each stage presupposes: from `rdp` on the features are there
  (`FeaturesDone`), after the join the guest is in the domain (`JoinDone`), and
  within the applications each one is still to do, being installed or
  installed (`AppsLeft`), which becomes `AppsInstalled` when none is left to do.
  `Installed` ties results and enrolment to the guest, `Places` says where in
  which stage an execution can be.  Steps are reduced to three moves
  (`FailMove`, `ProceedMove`, `WithinMove`), each shown to preserve `Inv` once.
  `NextStageFacts` is what the proofs need of the order of the stages.  `DoneStays` says that what is done stays done, so that a
  guest that is closed needs nothing in any later attempt either.

`AssetsProofs` proves, for any number of assets and of requests at a time, uploads
of any length and every set of incidents (`AssetsAssumption` adds that no asset's
identity, a UUID, is empty or the name of the agent's file):

* `TypeCorrect`, `CompleteIsWholeHolds`, `RowNamesFileHolds` and
  `DownloadWholeHolds`, from the inductive invariant `Inv`.  The properties speak
  of rows and files, `Inv` of who can still write them.  An upload is over
  (`Done`) when its tab has finished or given up and no handler has a request of
  it; until then the row and every copy of it are as the row was created
  (`Fresh`), so a deletion or a seed that knows a path cannot meet a chunk or a
  `finalize()` of the same asset.  One request of an upload is handled at a time
  (`ActiveInv`), and what the part file holds is what the tab was told has
  arrived (`ChunkInv`, `FinalizeInv`).  A row that has left its own file, because it
  was deleted or seeded anew (`Moved`), never names it again, so a late `unlink`
  is safe.  `HandlerStep` says once what a step of one handler must leave to the
  others, `CommitStep` what a commit may make of a row.

`EsxiHostProofs` proves, for any number of deployments, machines, names, retries and
incidents:

* `TypeOKHolds`, `FilesKeptHolds`, `SetupKeepsMediaHolds` and
  `CallsAcceptedHolds`, from the inductive invariant `Inv`.  The properties speak
  of rows and machines; what makes them inductive is what every thread, the
  abandoned ones included, holds in its hands.  `Places` says which thread may be
  at which point of which call.  `Ownership` says that what a thread works on was
  created for its deployment, and when an abandoned thread can share the job's
  machine (`Apart`): only while the job is failing, or when the machine was kept,
  and then the late call is none of those that build one.  So nothing late reaches
  the machine of the next attempt.  `MediaInv` says
  for each call what is in the drives of its machine by then: both media from
  `attach_floppy` to the end of the wait for Setup, nothing removed before the guest
  answers.  `Folders` adds that no two machines have one name (`NamesUnique`) and that,
  with no cancelled job, a deployment whose folder is being deleted has no machine
  (`FolderAlone`).  `CalmInv` speaks of the time
  before anything but failing calls and late waits has happened: machines are off
  before `power_on`, names are free before `create_vm`; only `CallsAccepted`
  needs it.
* `ContractHolds`: `Spec => ContractSpec`, with no assumption on incidents.  A step
  is first reduced to what it does to one machine; that the contract allows it
  (media go in before the guest answers and out after it) is `MediaInv`
  for the call that does it.

Every safety property of the passing runs is proved.  Only model-checked: the
liveness properties `EventuallyTerminal`, `PostInstallEnds`, `SessionEnds` and
`TunnelUnregistered` (liveness under fairness is out of the prover's reach).

## Not modelled

* The event stream, the updater, login sessions and webhook delivery: small
  parts of their own, whose known races are listed as hazards in
  `PROJECT.json`.
* Settings resolution, template rendering, edition detection: functions of
  their input.  Backup and migrations: one external command each.  CRUD of users,
  organizations, templates, layouts and hosts: one request, one commit, under
  database constraints.
* The devices inside a vSphere configuration, the PowerShell text inside the WinRM
  client, H.264 and input injection inside the Windows agent: what they do is in
  the models, how they do it is not.
* The agent's helper process: its relaunches, which overlap because nobody awaits them
  (`ShadowSession.cs:433`), the desktop it follows, and the resolution it alters and
  puts back, which a helper killed after two seconds does not.  These are hazards in
  `PROJECT.json` without a property.
* The frontend, except the browser tab of an upload; proxy, coturn and set-up
  scripts.

## Plan

1. The helper half of `ShadowSession`: overlapping relaunches and killed helpers
   against the console's resolution.
2. The event stream: cursors against commits that become visible out of order,
   composed with `Provisioning` through the transition history.
3. Login sessions (creation against revocation), the updater's request flags,
   webhook delivery.
