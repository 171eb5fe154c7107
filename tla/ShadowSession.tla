---------------------------- MODULE ShadowSession ----------------------------
(***************************************************************************)
(* The capture of one Shadow session of the Windows agent: ffmpeg writes   *)
(* the session's one capture file, and a loop in the agent reads it.       *)
(* Three kinds of thread start and stop captures, without a lock: the      *)
(* control channel's (start and end of the session), the data channel's    *)
(* callback (resize), and the read loops of the helpers' pipes, of which   *)
(* a helper that is being replaced may still have one (desktop reports).   *)
(* A step is the code of one thread between two calls that wait for a      *)
(* process.                                                                *)
(***************************************************************************)
EXTENDS Integers, FiniteSets

CONSTANTS
    Captures,       \* launches of ffmpeg
    Desktops,       \* desktops of the console session
    Readers,        \* read loops of helper pipes
    None,           \* a field that is null
    MaxEvents       \* bound on desktop reports and resize messages

VARIABLES
    session,        \* the session's phase
    connected,      \* the browser has answered
    field,          \* fields of the ShadowSession object
    capture,        \* of each launch: its process and the loop that reads the file
    thread,         \* what each thread is doing
    events          \* reports and resize messages so far

vars == <<session, connected, field, capture, thread, events>>

Threads == {"control", "channel"} \cup Readers

(* ff, cts: the launches whose process and token the fields hold.          *)
Fields0 == [ff |-> None, cts |-> None, input |-> None]

Unused == [ffmpeg |-> "none", tail |-> "none"]

Quiet == [at |-> "idle", job |-> "none", id |-> None]

At(t, at) == thread[t].at = at

(* StartCapture, or for the job "end" StopCapture alone, begins.           *)
Begin(t, job) == thread' = [thread EXCEPT ![t] = [at |-> "stop", job |-> job, id |-> None]]

(* StartAsync, its offer sent. *)
Init ==
    /\ session = "starting" /\ connected = FALSE /\ field = Fields0 /\ events = 0
    /\ capture = [c \in Captures |-> Unused]
    /\ thread = [t \in Threads |-> IF t = "control"
                    THEN [at |-> "stop", job |-> "start", id |-> None] ELSE Quiet]

-----------------------------------------------------------------------------
(* The token the field holds is cancelled, the process it names is killed  *)
(* and waited for.                                                         *)
StopCapture(t) ==
    /\ At(t, "stop")
    /\ capture' = [c \in Captures |->
          [ffmpeg |-> IF c = field.ff THEN "killed" ELSE capture[c].ffmpeg,
           tail |-> IF c = field.cts THEN "cancelled" ELSE capture[c].tail]]
    /\ field' = [field EXCEPT !.cts = None]
    /\ thread' = [thread EXCEPT ![t].at = "killed", ![t].id = field.ff]
    /\ UNCHANGED <<session, connected, events>>

(* Nothing is forgotten when there was no process to kill. *)
Killed(t) ==
    /\ At(t, "killed")
    /\ field' = [field EXCEPT !.ff = IF thread[t].id = None THEN @ ELSE None]
    /\ IF thread[t].job = "end"
       THEN session' = "over" /\ thread' = [thread EXCEPT ![t] = Quiet]
       ELSE UNCHANGED session /\ thread' = [thread EXCEPT ![t].at = "launch"]
    /\ UNCHANGED <<connected, capture, events>>

(* A launch that Windows refuses is logged. *)
StartCapture(t) ==
    /\ At(t, "launch")
    /\ \/ \E c \in Captures :
             /\ capture[c] = Unused
             /\ capture' = [capture EXCEPT ![c] = [ffmpeg |-> "running", tail |-> "reading"]]
             /\ field' = [field EXCEPT !.ff = c, !.cts = c]
       \/ UNCHANGED <<capture, field>>
    /\ thread' = [thread EXCEPT ![t] = Quiet]
    /\ session' = IF thread[t].job = "start" THEN "offered" ELSE session
    /\ UNCHANGED <<connected, events>>

HandleSignal ==
    /\ session = "offered" /\ connected' = TRUE
    /\ UNCHANGED <<session, field, capture, thread, events>>

(* session_end, or the control channel is lost. *)
Stop ==
    /\ session = "offered"
    /\ session' = "stopping" /\ Begin("control", "end")
    /\ UNCHANGED <<connected, field, capture, events>>

(* The peer connection is closed at the very end of Stop. *)
HandleResize ==
    /\ connected /\ session # "over" /\ thread["channel"] = Quiet
    /\ events < MaxEvents /\ events' = events + 1
    /\ Begin("channel", "resize")
    /\ UNCHANGED <<session, connected, field, capture>>

(* A helper reports the desktop that receives input; Stop cancels the read *)
(* loops first of all.                                                     *)
ReadDesktop(g, name) ==
    /\ session = "offered" /\ thread[g] = Quiet
    /\ name # field.input
    /\ events < MaxEvents /\ events' = events + 1
    /\ field' = [field EXCEPT !.input = name]
    /\ Begin(g, "desktop")
    /\ UNCHANGED <<session, connected, capture>>

Next ==
    \/ \E t \in Threads : StopCapture(t) \/ Killed(t) \/ StartCapture(t)
    \/ HandleSignal \/ Stop \/ HandleResize
    \/ \E g \in Readers, name \in Desktops : ReadDesktop(g, name)

Spec == Init /\ [][Next]_vars

-----------------------------------------------------------------------------
(* "tear them down locally rather than leaking them": when Stop has        *)
(* returned and no thread is at work any more, no ffmpeg runs and nothing  *)
(* reads its file.                                                         *)
NoCaptureLeft ==
    session = "over" /\ (\A t \in Threads : thread[t] = Quiet) =>
        \A c \in Captures : capture[c].ffmpeg # "running" /\ capture[c].tail # "reading"

(* All captures of a session write the same file, so that one has to have  *)
(* ended before the next is launched.  The code does not keep this either, *)
(* when a resize and a report meet.                                        *)
OneWriter == Cardinality({c \in Captures : capture[c].ffmpeg = "running"}) <= 1
================================================================================
