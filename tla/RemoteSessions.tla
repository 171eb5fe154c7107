---------------------------- MODULE RemoteSessions ----------------------------
(***************************************************************************)
(* Remote management of one host: the agent's control connections, the     *)
(* operators' sessions, and the tunnels between guacd and the agent.  The  *)
(* server side is one asyncio process (remote_session.py, remote_agent.py, *)
(* managed_hosts.py): a step is the code between two awaits.  The agent    *)
(* (ControlChannelClient.cs, ConnectTunnel.cs) holds one socket at a time. *)
(*                                                                         *)
(* A connection and a session have identities of their own, used once.     *)
(* Everything is keyed by host or by session, so one host suffices.  Left  *)
(* out: authentication (a refused caller changes nothing), heartbeats,     *)
(* what flows through a WebRTC or RDP session, and frames to the agent     *)
(* that it only passes on.                                                 *)
(***************************************************************************)
EXTENDS Naturals, Sequences

CONSTANTS
    Conns,      \* control connections the agent may open
    Sessions,   \* sessions operators may open
    Dials,      \* connections guacd may open to a session's listener
    NoConn,     \* get_agent(): None
    NoDial,     \* get_tunnel_writer(): None
    Modes,      \* the modes of sessions
    Incidents,  \* what may go wrong
    MaxQueue    \* bound: frames from the agent the server has not read

ASSUME RemoteAssumption ==
    /\ NoConn \notin Conns /\ NoDial \notin Dials
    /\ Modes \subseteq {"shadow", "connect"}
    /\ Incidents \subseteq {"half_open", "audit", "redial"}
    /\ MaxQueue \in Nat

VARIABLES
    agents,     \* _AGENTS[host_id]
    conn,       \* agent_control's loop for each connection
    held,       \* the agent's socket
    hosted,     \* _shadowSessions and _connectTunnels of the agent
    toAgent,    \* frames under way to the agent, per connection
    toServer,   \* frames under way to the server, per connection
    sessions,   \* _SESSIONS
    pc,         \* where managed_host_session_ws is for each session
    mode,       \* SessionConnection.mode
    agentOf,    \* the AgentConnection each session has looked up
    browser,    \* the operator's WebSocket of each session
    listener,   \* sessions whose ephemeral listener accepts connections
    guacd,      \* each session's connection to guacd
    bridge,     \* _bridge_listener_to_agent for each dial-back
    sock,       \* guacd's end of each dial-back is open
    writer      \* _TUNNEL_WRITERS

agentSide == <<held, hosted, toAgent, toServer>>
control   == <<agents, conn, agentSide>>
handlers  == <<sessions, pc, mode, agentOf, browser>>
tunnel    == <<listener, guacd, bridge, sock, writer>>
vars      == <<control, handlers, tunnel>>

Frames == [type : {"start", "end", "signal", "bytes"}, session : Sessions]

(* Definitions named ...Fault are wrong on purpose, as in Provisioning.    *)
FrameFault(type, s) == [type |-> s, session |-> type]

Frame(type, s) == [type |-> type, session |-> s]

Pcs == {"none", "audit", "start", "relay", "listen", "handshake", "replay",
        "dialback", "pump", "ending", "done"}

Init ==
    /\ agents = NoConn /\ held = NoConn
    /\ conn = [c \in Conns |-> "none"]
    /\ hosted = {} /\ sessions = {} /\ listener = {}
    /\ toAgent = [c \in Conns |-> <<>>]
    /\ toServer = [c \in Conns |-> <<>>]
    /\ pc = [s \in Sessions |-> "none"]
    /\ mode \in [Sessions -> Modes]
    /\ agentOf = [s \in Sessions |-> NoConn]
    /\ browser = [s \in Sessions |-> "none"]
    /\ guacd = [s \in Sessions |-> "none"]
    /\ bridge = [s \in Sessions |-> [d \in Dials |-> "none"]]
    /\ sock = [s \in Sessions |-> [d \in Dials |-> FALSE]]
    /\ writer = [s \in Sessions |-> NoDial]

-----------------------------------------------------------------------------
(* The control channel. *)

(* An agent whose connection broke without the server noticing reconnects  *)
(* while the old handler still waits in receive(): "half_open".            *)
AgentConnects(c) ==
    /\ held = NoConn /\ conn[c] = "none"
    /\ "half_open" \in Incidents \/ \A b \in Conns : conn[b] # "open"
    /\ held' = c
    /\ conn' = [conn EXCEPT ![c] = "open"]
    /\ agents' = c
    /\ UNCHANGED <<hosted, toAgent, toServer, handlers, tunnel>>

(* The network, the service or the machine goes down, or the server has    *)
(* closed the socket; the agent ends all its sessions.                     *)
AgentDrops ==
    /\ held # NoConn
    /\ held' = NoConn
    /\ hosted' = {}
    /\ toAgent' = [toAgent EXCEPT ![held] = <<>>]
    /\ UNCHANGED <<agents, conn, toServer, handlers, tunnel>>

UnregisteredFault == agents

(* unregister_agent pops whatever is registered for the host. *)
Unregistered == NoConn

(* agent_control's finally. *)
EndControl(c) ==
    /\ conn' = [conn EXCEPT ![c] = "ended"]
    /\ agents' = Unregistered
    /\ toServer' = [toServer EXCEPT ![c] = <<>>]

(* receive() reports the disconnect, frames before it read or lost. *)
ControlDisconnect(c) ==
    /\ conn[c] = "open" /\ held # c
    /\ EndControl(c)
    /\ UNCHANGED <<held, hosted, toAgent, handlers, tunnel>>

(* A frame whose forwarding may raise: the browser's WebSocket is closed   *)
(* but its session still registered, or guacd's socket is closed but its   *)
(* writer still registered.  Nothing in the loop catches that.             *)
MayRaise(m) ==
    \/ /\ m.type = "signal"
       /\ m.session \in sessions /\ browser[m.session] # "open"
    \/ /\ m.type = "bytes"
       /\ writer[m.session] # NoDial /\ ~sock[m.session][writer[m.session]]

(* A registered writer need not have noticed yet that its peer is gone. *)
MustRaise(m) == m.type = "signal" /\ MayRaise(m)

ReceiveFrame(c) ==
    /\ conn[c] = "open" /\ toServer[c] # <<>>
    /\ LET m == Head(toServer[c])
       IN  \/ /\ MayRaise(m)
              /\ EndControl(c)
              /\ UNCHANGED browser
           \/ /\ ~MustRaise(m)
              /\ toServer' = [toServer EXCEPT ![c] = Tail(@)]
              /\ browser' = IF m.type = "end" /\ m.session \in sessions
                            THEN [browser EXCEPT ![m.session] = "closed"]
                            ELSE browser
              /\ UNCHANGED <<agents, conn>>
    /\ UNCHANGED <<held, hosted, toAgent, sessions, pc, mode, agentOf, tunnel>>

-----------------------------------------------------------------------------
(* The agent. *)

Reply(m) == toServer' = [toServer EXCEPT ![held] = Append(@, m)]

(* A tunnel that cannot reach the machine's RDP service is reported ended  *)
(* and stays in _connectTunnels until the server's session_end.            *)
AgentReceives ==
    /\ held # NoConn /\ toAgent[held] # <<>>
    /\ LET m == Head(toAgent[held])
       IN  \/ /\ m.type = "start"
              /\ hosted' = hosted \cup {m.session}
              /\ \/ UNCHANGED toServer
                 \/ mode[m.session] = "connect" /\ Reply(Frame("end", m.session))
           \/ /\ m.type = "end"
              /\ hosted' = hosted \ {m.session}
              /\ UNCHANGED toServer
    /\ toAgent' = [toAgent EXCEPT ![held] = Tail(@)]
    /\ UNCHANGED <<agents, conn, held, handlers, tunnel>>

AgentSends(s) ==
    /\ s \in hosted /\ conn[held] = "open"
    /\ Len(toServer[held]) < MaxQueue
    /\ Reply(Frame(IF mode[s] = "shadow" THEN "signal" ELSE "bytes", s))
    /\ UNCHANGED <<agents, conn, held, hosted, toAgent, handlers, tunnel>>

(* PumpSocketToAgentAsync after its loop. *)
LocalRdpCloses(s) ==
    /\ s \in hosted /\ mode[s] = "connect"
    /\ Reply(Frame("end", s))
    /\ hosted' = hosted \ {s}
    /\ UNCHANGED <<agents, conn, held, toAgent, handlers, tunnel>>

-----------------------------------------------------------------------------
(* A session, up to the choice of its mode. *)

Goto(s, p) == pc' = [pc EXCEPT ![s] = p]

HangupFault(s) == browser[s] = "left"

Hangup(s) == browser[s] \in {"left", "closed"}

(* The operator's browser disconnects, and the server knows. *)
BrowserLeaves(s) ==
    /\ browser[s] = "open"
    /\ browser' = [browser EXCEPT ![s] = "left"]
    /\ UNCHANGED <<control, sessions, pc, mode, agentOf, tunnel>>

CloseBrowser(s) == browser' = [browser EXCEPT ![s] = "closed"]

OpenSession(s) ==
    /\ pc[s] = "none"
    /\ IF agents = NoConn
       THEN /\ Goto(s, "done")
            /\ CloseBrowser(s)
            /\ UNCHANGED <<sessions, agentOf>>
       ELSE /\ Goto(s, "audit")
            /\ browser' = [browser EXCEPT ![s] = "open"]
            /\ sessions' = sessions \cup {s}
            /\ agentOf' = [agentOf EXCEPT ![s] = agents]
    /\ UNCHANGED <<control, mode, tunnel>>

(* The handler is left outside its try block: no finally. *)
Abort(s) == Goto(s, "done") /\ CloseBrowser(s)

CommitAudit(s) ==
    /\ pc[s] = "audit"
    /\ \/ Goto(s, "start") /\ UNCHANGED browser
       \/ "audit" \in Incidents /\ Abort(s)
    /\ UNCHANGED <<control, sessions, mode, agentOf, tunnel>>

SessionAgentFault(s) == agents

SessionAgent(s) == agentOf[s]

(* Sending raises once agent_control has returned; a frame on a connection *)
(* the agent has given up is lost.                                         *)
CanSend(c) == c # NoConn /\ conn[c] = "open"

SendToAgent(c, m) ==
    toAgent' = IF CanSend(c) /\ held = c
               THEN [toAgent EXCEPT ![c] = Append(@, m)] ELSE toAgent

StartSession(s) ==
    /\ pc[s] = "start"
    /\ SendToAgent(agentOf[s], Frame("start", s))
    /\ IF CanSend(agentOf[s])
       THEN /\ Goto(s, IF mode[s] = "shadow" THEN "relay" ELSE "listen")
            /\ UNCHANGED browser
       ELSE Abort(s)
    /\ UNCHANGED <<agents, conn, held, hosted, toServer, sessions, mode, agentOf, tunnel>>

(* The finally of managed_host_session_ws; then the socket is closed. *)
EndSession(s) ==
    /\ pc[s] = "ending"
    /\ sessions' = sessions \ {s}
    /\ SendToAgent(SessionAgent(s), Frame("end", s))
    /\ Goto(s, "done")
    /\ CloseBrowser(s)
    /\ UNCHANGED <<agents, conn, held, hosted, toServer, mode, agentOf, tunnel>>

-----------------------------------------------------------------------------
(* Shadow: _pump_shadow_signaling *)

RelayEnds(s) ==
    /\ pc[s] = "relay" /\ Hangup(s)
    /\ Goto(s, "ending")
    /\ UNCHANGED <<control, sessions, mode, agentOf, browser, tunnel>>

(* The browser's next signal finds the agent's connection ended. *)
RelayFails(s) ==
    /\ pc[s] = "relay" /\ browser[s] = "open" /\ ~CanSend(agentOf[s])
    /\ Goto(s, "ending")
    /\ UNCHANGED <<control, sessions, mode, agentOf, browser, tunnel>>

-----------------------------------------------------------------------------
(* Connect: _pump_connect_tunnel and its tasks *)

(* Without saved credentials the browser is told and nothing is opened.    *)
Listen(s) ==
    /\ pc[s] = "listen"
    /\ \/ /\ Goto(s, "handshake")
          /\ listener' = listener \cup {s}
          /\ UNCHANGED browser
       \/ /\ Goto(s, "ending")
          /\ CloseBrowser(s)
          /\ UNCHANGED listener
    /\ UNCHANGED <<control, sessions, mode, agentOf, guacd, bridge, sock, writer>>

(* A connection whose handshake fails counts as never opened. *)
OpenGuacdConnection(s) ==
    /\ pc[s] = "handshake"
    /\ \/ /\ Goto(s, "replay")
          /\ guacd' = [guacd EXCEPT ![s] = "open"]
          /\ UNCHANGED <<listener, browser>>
       \/ /\ Goto(s, "ending")
          /\ listener' = listener \ {s}
          /\ CloseBrowser(s)
          /\ UNCHANGED guacd
    /\ UNCHANGED <<control, sessions, mode, agentOf, bridge, sock, writer>>

(* send_text raises when the browser is gone, before the try block whose   *)
(* finally closes the listener and the connection to guacd.                *)
ReplayReady(s) ==
    /\ pc[s] = "replay"
    /\ Goto(s, IF Hangup(s) THEN "ending" ELSE "dialback")
    /\ UNCHANGED <<control, sessions, mode, agentOf, browser, tunnel>>

CloseTunnel(s) ==
    /\ listener' = listener \ {s}
    /\ guacd' = [guacd EXCEPT ![s] = "closed"]

DialedBack(s) == \E d \in Dials : bridge[s][d] # "none"

AwaitDialBack(s) ==
    /\ pc[s] = "dialback"
    /\ \/ /\ DialedBack(s)
          /\ Goto(s, "pump")
          /\ UNCHANGED <<browser, listener, guacd>>
       \/ /\ ~DialedBack(s)
          /\ Goto(s, "ending")
          /\ CloseTunnel(s)
          /\ CloseBrowser(s)
    /\ UNCHANGED <<control, sessions, mode, agentOf, bridge, sock, writer>>

PumpEnds(s) ==
    /\ pc[s] = "pump" /\ Hangup(s)
    /\ Goto(s, "ending")
    /\ CloseTunnel(s)
    /\ UNCHANGED <<control, sessions, mode, agentOf, browser, bridge, sock, writer>>

(* What the operator types next cannot be written to guacd.  The client's  *)
(* keepalive pings are answered by the server itself.                      *)
PumpFails(s) ==
    /\ pc[s] = "pump" /\ browser[s] = "open" /\ guacd[s] = "gone"
    /\ Goto(s, "ending")
    /\ CloseTunnel(s)
    /\ UNCHANGED <<control, sessions, mode, agentOf, browser, bridge, sock, writer>>

(* guacd dials; _handle_client only creates the task. *)
GuacdDials(s, d) ==
    /\ guacd[s] = "open" /\ s \in listener
    /\ bridge[s][d] = "none" /\ \A b \in Dials : ~sock[s][b]
    /\ bridge' = [bridge EXCEPT ![s][d] = "accepted"]
    /\ sock' = [sock EXCEPT ![s][d] = TRUE]
    /\ UNCHANGED <<control, handlers, listener, guacd, writer>>

(* FreeRDP gives up a connection to dial again with another protocol. *)
GuacdRedials(s, d) ==
    /\ "redial" \in Incidents
    /\ guacd[s] = "open" /\ sock[s][d]
    /\ sock' = [sock EXCEPT ![s][d] = FALSE]
    /\ UNCHANGED <<control, handlers, listener, guacd, bridge, writer>>

GuacdEnds(s) ==
    /\ guacd[s] = "open"
    /\ guacd' = [guacd EXCEPT ![s] = "gone"]
    /\ UNCHANGED <<control, handlers, listener, bridge, sock, writer>>

(* Without its user guacd closes the RDP connection as well. *)
GuacdHangsUp(s) ==
    /\ guacd[s] \in {"gone", "closed"}
    /\ \E d \in Dials : sock[s][d]
    /\ sock' = [sock EXCEPT ![s] = [d \in Dials |-> FALSE]]
    /\ UNCHANGED <<control, handlers, listener, guacd, bridge, writer>>

BridgeStarts(s, d) ==
    /\ bridge[s][d] = "accepted"
    /\ bridge' = [bridge EXCEPT ![s][d] = "pumping"]
    /\ writer' = [writer EXCEPT ![s] = d]
    /\ UNCHANGED <<control, handlers, listener, guacd, sock>>

WithoutWriterFault(s) == writer

(* unregister_tunnel_writer pops whatever is registered for the session. *)
WithoutWriter(s) == [writer EXCEPT ![s] = NoDial]

EndBridge(s, d) ==
    /\ bridge' = [bridge EXCEPT ![s][d] = "ended"]
    /\ sock' = [sock EXCEPT ![s][d] = FALSE]
    /\ writer' = WithoutWriter(s)
    /\ UNCHANGED <<control, handlers, listener, guacd>>

BridgeEof(s, d) ==
    /\ bridge[s][d] = "pumping" /\ ~sock[s][d]
    /\ EndBridge(s, d)

(* guacd's next bytes find the agent's connection ended. *)
BridgeFails(s, d) ==
    /\ bridge[s][d] = "pumping" /\ ~CanSend(agentOf[s])
    /\ EndBridge(s, d)

-----------------------------------------------------------------------------
(* Specification *)

AgentStep ==
    \/ \E c \in Conns : AgentConnects(c)
    \/ AgentDrops \/ AgentReceives
    \/ \E s \in Sessions : AgentSends(s) \/ LocalRdpCloses(s)

ControlStep == \E c \in Conns : ControlDisconnect(c) \/ ReceiveFrame(c)

(* What a session's handler does on its own. *)
SessionStep(s) ==
    \/ CommitAudit(s) \/ StartSession(s) \/ EndSession(s) \/ RelayEnds(s)
    \/ Listen(s) \/ OpenGuacdConnection(s) \/ ReplayReady(s)
    \/ AwaitDialBack(s) \/ PumpEnds(s)

BrowserStep(s) ==
    OpenSession(s) \/ BrowserLeaves(s) \/ RelayFails(s) \/ PumpFails(s)

BridgeStep(s, d) == BridgeStarts(s, d) \/ BridgeEof(s, d)

GuacdStep(s) ==
    \/ GuacdEnds(s) \/ GuacdHangsUp(s)
    \/ \E d \in Dials : GuacdDials(s, d) \/ GuacdRedials(s, d) \/ BridgeFails(s, d)

Next ==
    \/ AgentStep
    \/ ControlStep
    \/ \E s \in Sessions :
          \/ SessionStep(s) \/ BrowserStep(s) \/ GuacdStep(s)
          \/ \E d \in Dials : BridgeStep(s, d)

Spec == Init /\ [][Next]_vars

(* Tasks of the event loop run, the handshake and the dial-back have       *)
(* time-outs, and guacd gives up the RDP connection of a user that left.   *)
Fairness ==
    \A s \in Sessions :
        /\ WF_vars(SessionStep(s))
        /\ WF_vars(GuacdHangsUp(s))
        /\ \A d \in Dials : WF_vars(BridgeStep(s, d))

FairSpec == Spec /\ Fairness

-----------------------------------------------------------------------------
(* Properties *)

(* Every variable has its type: registries, handlers, frames, tunnels.     *)
TypeOK ==
    /\ agents \in Conns \cup {NoConn} /\ held \in Conns \cup {NoConn}
    /\ conn \in [Conns -> {"none", "open", "ended"}]
    /\ hosted \subseteq Sessions
    /\ toAgent \in [Conns -> Seq(Frames)] /\ toServer \in [Conns -> Seq(Frames)]
    /\ sessions \subseteq Sessions
    /\ pc \in [Sessions -> Pcs]
    /\ mode \in [Sessions -> Modes]
    /\ agentOf \in [Sessions -> Conns \cup {NoConn}]
    /\ browser \in [Sessions -> {"none", "open", "left", "closed"}]
    /\ listener \subseteq Sessions
    /\ guacd \in [Sessions -> {"none", "open", "gone", "closed"}]
    /\ bridge \in [Sessions -> [Dials -> {"none", "accepted", "pumping", "ended"}]]
    /\ sock \in [Sessions -> [Dials -> BOOLEAN]]
    /\ writer \in [Sessions -> Dials \cup {NoDial}]

(* get_agent never returns a connection whose handler has ended, whatever  *)
(* order reconnects and clean-ups come in.                                 *)
RegisteredAgentLive == agents # NoConn => conn[agents] = "open"

(* get_tunnel_writer never returns the writer of a bridge that has ended,  *)
(* even if guacd dials twice and the clean-ups overlap.                    *)
WriterIsPumped ==
    \A s \in Sessions : writer[s] # NoDial => bridge[s][writer[s]] = "pumping"

(* An agent that goes on hosting a session whose handler is over is about  *)
(* to hear so: the session_end is under way to it, or its connection has   *)
(* been closed.  No session stays captured or tunnelled for nobody.        *)
HostedSessionEnds ==
    \A s \in hosted :
        pc[s] = "done" =>
            \/ conn[held] = "ended"
            \/ \E i \in 1 .. Len(toAgent[held]) : toAgent[held][i] = Frame("end", s)

(* A session whose browser is gone, by itself or because the agent ended   *)
(* the session, comes to its end at whatever stage it is.                  *)
SessionEnds ==
    \A s \in Sessions : Hangup(s) ~> pc[s] = "done"

(* Once guacd or its user connection is gone, the session's tunnel does    *)
(* not stay registered, and no dial-back accepted late comes back.         *)
TunnelUnregistered ==
    \A s \in Sessions : guacd[s] \in {"gone", "closed"} ~> [](writer[s] = NoDial)

(* ControlChannelClient.cs: an agent that lost its connection reconnects   *)
(* and is reachable again.                                                 *)
AgentReachable == held # NoConn /\ conn[held] = "open" => agents = held

===============================================================================
