------------------------- MODULE RemoteSessionsProofs -------------------------
(***************************************************************************)
(* Theorems about RemoteSessions, for any number of connections, sessions  *)
(* and dial-backs, both modes and every incident.                          *)
(***************************************************************************)
EXTENDS RemoteSessions, SequenceTheorems, TLAPS

-----------------------------------------------------------------------------
(* Types *)

LEMMA FrameType ==
    ASSUME NEW type \in {"start", "end", "signal", "bytes"}, NEW s \in Sessions
    PROVE  Frame(type, s) \in Frames
BY DEF Frame, Frames

LEMMA AppendType ==
    ASSUME NEW queues \in [Conns -> Seq(Frames)], NEW c, NEW m \in Frames
    PROVE  [queues EXCEPT ![c] = Append(@, m)] \in [Conns -> Seq(Frames)]
<1>1. CASE c \in Conns
  <2>1. Append(queues[c], m) \in Seq(Frames)
    BY <1>1, AppendProperties
  <2>. QED  BY <2>1
<1>2. CASE c \notin Conns
  BY <1>2
<1>. QED  BY <1>1, <1>2

LEMMA TailType ==
    ASSUME NEW queues \in [Conns -> Seq(Frames)], NEW c \in Conns, queues[c] # <<>>
    PROVE  [queues EXCEPT ![c] = Tail(@)] \in [Conns -> Seq(Frames)]
<1>1. Tail(queues[c]) \in Seq(Frames)
  BY HeadTailProperties
<1>. QED  BY <1>1

LEMMA ClearType ==
    ASSUME NEW queues \in [Conns -> Seq(Frames)], NEW c
    PROVE  [queues EXCEPT ![c] = <<>>] \in [Conns -> Seq(Frames)]
<1>1. <<>> \in Seq(Frames)
  BY EmptySeq
<1>. QED  BY <1>1

LEMMA InitType == Init => TypeOK
<1>. SUFFICES ASSUME Init PROVE TypeOK
  OBVIOUS
<1>1. <<>> \in Seq(Frames)
  BY EmptySeq
<1>. QED  BY <1>1 DEF Init, TypeOK, Pcs

LEMMA AgentType == TypeOK /\ AgentStep => TypeOK'
<1>. SUFFICES ASSUME TypeOK, AgentStep PROVE TypeOK'
  OBVIOUS
<1>. USE DEF TypeOK, handlers, tunnel
<1>1. ASSUME NEW c \in Conns, AgentConnects(c) PROVE TypeOK'
  BY <1>1 DEF AgentConnects
<1>2. CASE AgentDrops
  <2>1. toAgent' \in [Conns -> Seq(Frames)]
    BY <1>2, ClearType DEF AgentDrops
  <2>. QED  BY <1>2, <2>1 DEF AgentDrops
<1>3. CASE AgentReceives
  <2>. DEFINE m == Head(toAgent[held])
  <2>1. held \in Conns /\ toAgent[held] # <<>>
    BY <1>3 DEF AgentReceives
  <2>2. m \in Frames
    BY <2>1, HeadTailProperties
  <2>3. m.session \in Sessions
    BY <2>2 DEF Frames
  <2>4. toAgent' \in [Conns -> Seq(Frames)]
    BY <1>3, <2>1, TailType DEF AgentReceives
  <2>5. hosted' \subseteq Sessions
    BY <1>3, <2>3 DEF AgentReceives
  <2>6. toServer' \in [Conns -> Seq(Frames)]
    <3>1. ASSUME Reply(Frame("end", m.session)) PROVE toServer' \in [Conns -> Seq(Frames)]
      BY <2>3, <3>1, FrameType, AppendType DEF Reply
    <3>. QED  BY <1>3, <3>1 DEF AgentReceives
  <2>. QED  BY <1>3, <2>4, <2>5, <2>6 DEF AgentReceives
<1>4. ASSUME NEW s \in Sessions, AgentSends(s) PROVE TypeOK'
  <2>1. toServer' \in [Conns -> Seq(Frames)]
    BY <1>4, FrameType, AppendType DEF AgentSends, Reply
  <2>. QED  BY <1>4, <2>1 DEF AgentSends
<1>5. ASSUME NEW s \in Sessions, LocalRdpCloses(s) PROVE TypeOK'
  <2>1. toServer' \in [Conns -> Seq(Frames)]
    BY <1>5, FrameType, AppendType DEF LocalRdpCloses, Reply
  <2>. QED  BY <1>5, <2>1 DEF LocalRdpCloses
<1>. QED  BY <1>1, <1>2, <1>3, <1>4, <1>5 DEF AgentStep

LEMMA EndControlType ==
    ASSUME TypeOK, NEW c \in Conns, EndControl(c)
    PROVE  /\ agents' \in Conns \cup {NoConn}
           /\ conn' \in [Conns -> {"none", "open", "ended"}]
           /\ toServer' \in [Conns -> Seq(Frames)]
<1>1. toServer' \in [Conns -> Seq(Frames)]
  BY ClearType DEF TypeOK, EndControl
<1>. QED  BY <1>1 DEF TypeOK, EndControl, Unregistered

LEMMA ControlType == TypeOK /\ ControlStep => TypeOK'
<1>. SUFFICES ASSUME TypeOK, NEW c \in Conns, ControlDisconnect(c) \/ ReceiveFrame(c)
              PROVE  TypeOK'
  BY DEF ControlStep
<1>1. CASE ControlDisconnect(c)
  BY <1>1, EndControlType DEF ControlDisconnect, TypeOK, handlers, tunnel
<1>2. CASE ReceiveFrame(c)
  <2>1. /\ agents' \in Conns \cup {NoConn}
        /\ conn' \in [Conns -> {"none", "open", "ended"}]
        /\ toServer' \in [Conns -> Seq(Frames)]
    <3>1. toServer[c] # <<>> /\ toServer \in [Conns -> Seq(Frames)]
      BY <1>2 DEF ReceiveFrame, TypeOK
    <3>2. CASE EndControl(c)
      BY <3>2, EndControlType
    <3>3. CASE UNCHANGED <<agents, conn>> /\ toServer' = [toServer EXCEPT ![c] = Tail(@)]
      BY <3>1, <3>3, TailType DEF TypeOK
    <3>. QED  BY <1>2, <3>2, <3>3 DEF ReceiveFrame
  <2>2. browser' \in [Sessions -> {"none", "open", "left", "closed"}]
    BY <1>2 DEF ReceiveFrame, TypeOK
  <2>. QED  BY <1>2, <2>1, <2>2 DEF ReceiveFrame, TypeOK, tunnel
<1>. QED  BY <1>1, <1>2

LEMMA SendType ==
    ASSUME TypeOK, NEW c, NEW m \in Frames, SendToAgent(c, m)
    PROVE  toAgent' \in [Conns -> Seq(Frames)]
BY AppendType DEF TypeOK, SendToAgent

LEMMA SessionType ==
    ASSUME TypeOK, NEW s \in Sessions, SessionStep(s) \/ BrowserStep(s)
    PROVE  TypeOK'
<1>. USE DEF TypeOK, Goto, CloseBrowser, Abort, CloseTunnel, Pcs,
             control, agentSide, tunnel
<1>1. CASE OpenSession(s)
  <2>1. CASE agents = NoConn  BY <1>1, <2>1 DEF OpenSession
  <2>2. CASE agents # NoConn
    <3>1. agentOf' \in [Sessions -> Conns \cup {NoConn}]
      BY <1>1, <2>2 DEF OpenSession
    <3>2. /\ pc' \in [Sessions -> Pcs]
          /\ browser' \in [Sessions -> {"none", "open", "left", "closed"}]
      BY <1>1, <2>2 DEF OpenSession
    <3>3. sessions' \subseteq Sessions
      BY <1>1, <2>2 DEF OpenSession
    <3>. QED  BY <1>1, <3>1, <3>2, <3>3 DEF OpenSession
  <2>. QED  BY <2>1, <2>2
<1>2. CASE CommitAudit(s)     BY <1>2 DEF CommitAudit
<1>3. CASE StartSession(s)
  <2>1. toAgent' \in [Conns -> Seq(Frames)]
    BY <1>3, FrameType, SendType DEF StartSession
  <2>2. pc' \in [Sessions -> Pcs] /\ browser' \in [Sessions -> {"none", "open", "left", "closed"}]
    BY <1>3 DEF StartSession
  <2>. QED  BY <1>3, <2>1, <2>2 DEF StartSession
<1>4. CASE EndSession(s)
  <2>1. toAgent' \in [Conns -> Seq(Frames)]
    BY <1>4, FrameType, SendType DEF EndSession
  <2>. QED  BY <1>4, <2>1 DEF EndSession
<1>5. CASE RelayEnds(s)       BY <1>5 DEF RelayEnds
<1>6. CASE Listen(s)          BY <1>6 DEF Listen
<1>7. CASE OpenGuacdConnection(s)
  BY <1>7 DEF OpenGuacdConnection
<1>8. CASE ReplayReady(s)     BY <1>8 DEF ReplayReady
<1>9. CASE AwaitDialBack(s)   BY <1>9 DEF AwaitDialBack
<1>10. CASE PumpEnds(s)       BY <1>10 DEF PumpEnds
<1>11. CASE BrowserLeaves(s)  BY <1>11 DEF BrowserLeaves
<1>12. CASE RelayFails(s)     BY <1>12 DEF RelayFails
<1>13. CASE PumpFails(s)      BY <1>13 DEF PumpFails
<1>. QED
  BY <1>1, <1>2, <1>3, <1>4, <1>5, <1>6, <1>7, <1>8, <1>9, <1>10, <1>11,
     <1>12, <1>13 DEF SessionStep, BrowserStep

LEMMA TunnelType ==
    ASSUME TypeOK, NEW s \in Sessions,
           GuacdStep(s) \/ \E d \in Dials : BridgeStep(s, d)
    PROVE  TypeOK'
<1>. USE DEF TypeOK, control, agentSide, handlers
<1>1. CASE GuacdEnds(s)     BY <1>1 DEF GuacdEnds
<1>2. CASE GuacdHangsUp(s)  BY <1>2 DEF GuacdHangsUp
<1>3. ASSUME NEW d \in Dials, GuacdDials(s, d) PROVE TypeOK'
  BY <1>3 DEF GuacdDials
<1>4. ASSUME NEW d \in Dials, GuacdRedials(s, d) PROVE TypeOK'
  BY <1>4 DEF GuacdRedials
<1>5. ASSUME NEW d \in Dials, BridgeStarts(s, d) PROVE TypeOK'
  BY <1>5 DEF BridgeStarts
<1>6. ASSUME NEW d \in Dials, BridgeEof(s, d) \/ BridgeFails(s, d) PROVE TypeOK'
  <2>1. EndBridge(s, d)
    BY <1>6 DEF BridgeEof, BridgeFails
  <2>2. writer' \in [Sessions -> Dials \cup {NoDial}]
    BY <2>1 DEF EndBridge, WithoutWriter
  <2>3. /\ bridge' \in [Sessions -> [Dials -> {"none", "accepted", "pumping", "ended"}]]
        /\ sock' \in [Sessions -> [Dials -> BOOLEAN]]
    BY <2>1 DEF EndBridge
  <2>. QED  BY <2>1, <2>2, <2>3 DEF EndBridge
<1>. QED  BY <1>1, <1>2, <1>3, <1>4, <1>5, <1>6 DEF GuacdStep, BridgeStep

LEMMA NextType == TypeOK /\ [Next]_vars => TypeOK'
<1>1. TypeOK /\ UNCHANGED vars => TypeOK'
  BY DEF TypeOK, vars, control, agentSide, handlers, tunnel
<1>. QED  BY <1>1, AgentType, ControlType, SessionType, TunnelType DEF Next

(* Every variable keeps its type through every step of server, agent,      *)
(* browser and guacd.                                                      *)
THEOREM TypeCorrect == Spec => []TypeOK
BY InitType, NextType, PTL DEF Spec

-----------------------------------------------------------------------------
(* The tunnel registry *)

LEMMA WriterStep ==
    ASSUME TypeOK, WriterIsPumped, [Next]_vars
    PROVE  WriterIsPumped'
<1>1. CASE UNCHANGED <<bridge, writer>>
  BY <1>1 DEF WriterIsPumped
<1>2. ASSUME NEW s \in Sessions, NEW d \in Dials, GuacdDials(s, d)
      PROVE  WriterIsPumped'
  BY <1>2 DEF TypeOK, WriterIsPumped, GuacdDials
<1>3. ASSUME NEW s \in Sessions, NEW d \in Dials, BridgeStarts(s, d)
      PROVE  WriterIsPumped'
  BY <1>3 DEF TypeOK, WriterIsPumped, BridgeStarts
<1>4. ASSUME NEW s \in Sessions, NEW d \in Dials, EndBridge(s, d)
      PROVE  WriterIsPumped'
  BY <1>4 DEF TypeOK, WriterIsPumped, EndBridge, WithoutWriter
<1>5. AgentStep => UNCHANGED <<bridge, writer>>
  BY DEF AgentStep, AgentConnects, AgentDrops, AgentReceives, AgentSends,
         LocalRdpCloses, tunnel
<1>6. ControlStep => UNCHANGED <<bridge, writer>>
  BY DEF ControlStep, ControlDisconnect, ReceiveFrame, tunnel
<1>7. \A s \in Sessions :
         SessionStep(s) \/ BrowserStep(s) => UNCHANGED <<bridge, writer>>
  BY DEF SessionStep, CommitAudit, StartSession, EndSession, RelayEnds, Listen,
         OpenGuacdConnection, ReplayReady, AwaitDialBack, PumpEnds,
         BrowserStep, OpenSession, BrowserLeaves, RelayFails, PumpFails, tunnel
<1>8. ASSUME NEW s \in Sessions, GuacdStep(s)
      PROVE  WriterIsPumped'
  BY <1>1, <1>2, <1>4, <1>8
     DEF GuacdStep, GuacdEnds, GuacdHangsUp, GuacdRedials, BridgeFails
<1>9. ASSUME NEW s \in Sessions, NEW d \in Dials, BridgeStep(s, d)
      PROVE  WriterIsPumped'
  BY <1>3, <1>4, <1>9 DEF BridgeStep, BridgeEof
<1>10. UNCHANGED vars => UNCHANGED <<bridge, writer>>
  BY DEF vars, tunnel
<1>. QED  BY <1>1, <1>5, <1>6, <1>7, <1>8, <1>9, <1>10 DEF Next

(* A registered tunnel writer is one whose bridge still pumps, in whatever *)
(* order dial-backs start, overlap and end.                                *)
THEOREM WriterIsPumpedHolds == Spec => []WriterIsPumped
<1>1. Init => WriterIsPumped
  BY DEF Init, WriterIsPumped
<1>. QED  BY <1>1, WriterStep, TypeCorrect, PTL DEF Spec

-----------------------------------------------------------------------------
(* The control channel.  The frames under way to the agent are all on its  *)
(* one socket and of sessions that looked up that connection, in the order *)
(* the server sent them; so the start of a session that is over is         *)
(* followed by its end, unless the connection's handler has returned.      *)

(* The handler of s has come past its session_start. *)
Started(s) == pc[s] \notin {"none", "audit", "start"}

EndAfter(c, i, s) ==
    \E j \in (i + 1) .. Len(toAgent[c]) : toAgent[c][j] = Frame("end", s)

OnlyHeldIsUsed ==
    /\ held # NoConn => conn[held] # "none"
    /\ held = NoConn => hosted = {}
    /\ \A c \in Conns : c # held => toAgent[c] = <<>>

LookedUpConnected ==
    \A s \in Sessions :
        /\ agentOf[s] # NoConn => conn[agentOf[s]] # "none"
        /\ pc[s] \notin {"none", "done"} => agentOf[s] # NoConn

HostedStarted == \A s \in hosted : Started(s) /\ agentOf[s] = held

FramesStarted ==
    \A c \in Conns : \A i \in 1 .. Len(toAgent[c]) :
        /\ Started(toAgent[c][i].session)
        /\ agentOf[toAgent[c][i].session] = c

StartIsEnded ==
    \A c \in Conns : \A i \in 1 .. Len(toAgent[c]) :
        toAgent[c][i].type = "start" /\ pc[toAgent[c][i].session] = "done" =>
            conn[c] = "ended" \/ EndAfter(c, i, toAgent[c][i].session)

ChannelInv ==
    /\ RegisteredAgentLive
    /\ OnlyHeldIsUsed /\ LookedUpConnected /\ HostedStarted /\ FramesStarted
    /\ StartIsEnded /\ HostedSessionEnds

LEMMA InitChannel == Init => ChannelInv
<1>. SUFFICES ASSUME Init PROVE ChannelInv
  OBVIOUS
<1>1. \A c \in Conns : Len(toAgent[c]) = 0
  BY EmptySeq DEF Init
<1>. QED
  BY <1>1 DEF Init, ChannelInv, RegisteredAgentLive, OnlyHeldIsUsed,
     LookedUpConnected, HostedStarted, FramesStarted, StartIsEnded,
     HostedSessionEnds

LEMMA FramesHaveSessions ==
    ASSUME TypeOK, NEW c \in Conns, NEW i \in 1 .. Len(toAgent[c])
    PROVE  toAgent[c][i].session \in Sessions
<1>1. toAgent[c] \in Seq(Frames)
  BY DEF TypeOK
<1>2. toAgent[c][i] \in Frames
  BY <1>1, ElementOfSeq
<1>. QED  BY <1>2 DEF Frames

(* A handler's step that neither leaves the handler nor sends.  A handler  *)
(* that is left before its session_start has nothing under way.            *)
LEMMA HandlerMoves ==
    ASSUME TypeOK, ChannelInv, NEW s \in Sessions, NEW p \in Pcs,
           UNCHANGED <<agents, conn, held, hosted, toAgent, agentOf>>,
           pc' = [pc EXCEPT ![s] = p],
           p = "done" => ~Started(s),
           p # "done" => agentOf[s] # NoConn,
           Started(s) => p \notin {"none", "audit", "start"}
    PROVE  ChannelInv'
<1>. USE DEF TypeOK, Started
<1>1. \A t \in Sessions : Started(t) => Started(t)'
  OBVIOUS
<1>2. \A t \in Sessions : Started(t) /\ pc'[t] = "done" => pc[t] = "done"
  OBVIOUS
<1>3. \A c \in Conns : \A i \in 1 .. Len(toAgent[c]) :
         toAgent[c][i].session \in Sessions
  BY FramesHaveSessions
<1>4. RegisteredAgentLive' /\ OnlyHeldIsUsed'
  BY DEF ChannelInv, RegisteredAgentLive, OnlyHeldIsUsed
<1>5. LookedUpConnected'
  BY DEF ChannelInv, LookedUpConnected
<1>6. HostedStarted' /\ FramesStarted'
  BY <1>1, <1>3 DEF ChannelInv, HostedStarted, FramesStarted
<1>7. StartIsEnded'
  BY <1>2, <1>3 DEF ChannelInv, FramesStarted, StartIsEnded, EndAfter
<1>8. HostedSessionEnds'
  BY <1>2 DEF ChannelInv, HostedStarted, HostedSessionEnds
<1>. QED  BY <1>4, <1>5, <1>6, <1>7, <1>8 DEF ChannelInv

(* Steps that touch neither the control channel nor a handler's place. *)
LEMMA ChannelStutters ==
    ASSUME ChannelInv,
           UNCHANGED <<agents, conn, held, hosted, toAgent, agentOf, pc>>
    PROVE  ChannelInv'
BY DEF ChannelInv, RegisteredAgentLive, OnlyHeldIsUsed, LookedUpConnected,
       HostedStarted, Started, FramesStarted, StartIsEnded, EndAfter,
       HostedSessionEnds

(* The agent's new socket starts with nothing under way.                   *)
LEMMA ConnectsChannel ==
    ASSUME TypeOK, ChannelInv, NEW c \in Conns, AgentConnects(c)
    PROVE  ChannelInv'
<1>. USE DEF TypeOK, AgentConnects
<1>1. hosted' = {} /\ \A b \in Conns : toAgent'[b] = <<>>
  BY RemoteAssumption DEF ChannelInv, OnlyHeldIsUsed
<1>2. \A b \in Conns : Len(toAgent'[b]) = 0
  BY <1>1, EmptySeq
<1>3. RegisteredAgentLive' /\ OnlyHeldIsUsed'
  BY <1>1, RemoteAssumption DEF RegisteredAgentLive, OnlyHeldIsUsed
<1>4. LookedUpConnected'
  BY DEF ChannelInv, LookedUpConnected, handlers
<1>5. HostedStarted' /\ HostedSessionEnds'
  BY <1>1 DEF HostedStarted, HostedSessionEnds
<1>6. FramesStarted' /\ StartIsEnded'
  BY <1>2 DEF FramesStarted, StartIsEnded
<1>. QED  BY <1>3, <1>4, <1>5, <1>6 DEF ChannelInv

LEMMA DropsChannel ==
    ASSUME TypeOK, ChannelInv, AgentDrops
    PROVE  ChannelInv'
<1>. USE DEF TypeOK, AgentDrops
<1>1. hosted' = {} /\ \A b \in Conns : toAgent'[b] = <<>>
  BY DEF ChannelInv, OnlyHeldIsUsed
<1>2. \A b \in Conns : Len(toAgent'[b]) = 0
  BY <1>1, EmptySeq
<1>3. RegisteredAgentLive' /\ OnlyHeldIsUsed'
  BY <1>1 DEF ChannelInv, RegisteredAgentLive, OnlyHeldIsUsed
<1>4. LookedUpConnected'
  BY DEF ChannelInv, LookedUpConnected, handlers
<1>5. HostedStarted' /\ HostedSessionEnds'
  BY <1>1 DEF HostedStarted, HostedSessionEnds
<1>6. FramesStarted' /\ StartIsEnded'
  BY <1>2 DEF FramesStarted, StartIsEnded
<1>. QED  BY <1>3, <1>4, <1>5, <1>6 DEF ChannelInv

(* When a control handler returns the host has no registered agent.        *)
LEMMA EndControlChannel ==
    ASSUME TypeOK, ChannelInv, NEW c \in Conns, EndControl(c),
           UNCHANGED <<held, hosted, toAgent, agentOf, pc>>
    PROVE  ChannelInv'
<1>. USE DEF TypeOK, EndControl, ChannelInv
<1>1. RegisteredAgentLive'
  BY DEF RegisteredAgentLive, Unregistered
<1>2. OnlyHeldIsUsed' /\ LookedUpConnected'
  BY DEF OnlyHeldIsUsed, LookedUpConnected
<1>3. HostedStarted' /\ FramesStarted'
  BY DEF HostedStarted, FramesStarted, Started
<1>4. StartIsEnded'
  BY DEF StartIsEnded, EndAfter
<1>5. HostedSessionEnds'
  BY DEF HostedSessionEnds, OnlyHeldIsUsed
<1>. QED  BY <1>1, <1>2, <1>3, <1>4, <1>5

LEMMA ClosesChannel ==
    ASSUME TypeOK, ChannelInv, NEW s \in Sessions, LocalRdpCloses(s)
    PROVE  ChannelInv'
<1>. USE DEF TypeOK, LocalRdpCloses, handlers
<1>1. RegisteredAgentLive' /\ OnlyHeldIsUsed' /\ LookedUpConnected'
  BY DEF ChannelInv, RegisteredAgentLive, OnlyHeldIsUsed, LookedUpConnected
<1>2. HostedStarted' /\ FramesStarted' /\ StartIsEnded'
  BY DEF ChannelInv, HostedStarted, FramesStarted, StartIsEnded, EndAfter, Started
<1>3. HostedSessionEnds'
  BY DEF ChannelInv, HostedSessionEnds
<1>. QED  BY <1>1, <1>2, <1>3 DEF ChannelInv

(* The agent starts to host a session that is over only with its end still *)
(* to come.                                                                *)
LEMMA ReceivesChannel ==
    ASSUME TypeOK, ChannelInv, AgentReceives
    PROVE  ChannelInv'
<1>. DEFINE q == toAgent[held]
            m == Head(q)
            s == m.session
<1>1. /\ held \in Conns /\ q # <<>>
      /\ UNCHANGED <<agents, conn, held, agentOf, pc>>
      /\ toAgent' = [toAgent EXCEPT ![held] = Tail(@)]
      /\ \/ m.type = "start" /\ hosted' = hosted \cup {s}
         \/ m.type = "end" /\ hosted' = hosted \ {s}
  BY DEF AgentReceives, TypeOK, handlers
<1>2. q \in Seq(Frames) /\ toAgent'[held] = Tail(q)
  BY <1>1 DEF TypeOK
<1>3. /\ Len(q) \in Nat /\ Len(q) >= 1
      /\ Len(Tail(q)) = Len(q) - 1
      /\ \A i \in 1 .. Len(Tail(q)) : Tail(q)[i] = q[i + 1]
  BY <1>1, <1>2, HeadTailProperties, EmptySeq
<1>4. m = q[1]
  BY <1>1, <1>2
<1>5. s \in Sessions /\ Started(s) /\ agentOf[s] = held
  BY <1>1, <1>3, <1>4, FramesHaveSessions DEF ChannelInv, FramesStarted
<1>6. \A c \in Conns : c # held => toAgent'[c] = toAgent[c]
  BY <1>1 DEF TypeOK
<1>7. RegisteredAgentLive' /\ LookedUpConnected'
  BY <1>1 DEF ChannelInv, RegisteredAgentLive, LookedUpConnected
<1>8. OnlyHeldIsUsed'
  BY <1>1, <1>6, RemoteAssumption DEF ChannelInv, OnlyHeldIsUsed
<1>9. HostedStarted'
  BY <1>1, <1>5 DEF ChannelInv, HostedStarted, Started
<1>10. FramesStarted'
  <2>1. ASSUME NEW c \in Conns, NEW i \in 1 .. Len(toAgent'[c])
        PROVE  \E j \in 1 .. Len(toAgent[c]) : toAgent'[c][i] = toAgent[c][j]
    <3>1. CASE c = held
      <4>1. toAgent'[c] = Tail(q) /\ i \in 1 .. Len(Tail(q))
        BY <1>2, <3>1
      <4>2. i + 1 \in 1 .. Len(q) /\ Tail(q)[i] = q[i + 1]
        BY <1>3, <4>1
      <4>. QED  BY <3>1, <4>1, <4>2
    <3>2. CASE c # held
      BY <1>6, <3>2
    <3>. QED  BY <3>1, <3>2
  <2>. QED  BY <1>1, <2>1 DEF ChannelInv, FramesStarted, Started
<1>11. ASSUME NEW i \in 1 .. Len(q), NEW t \in Sessions, EndAfter(held, i, t)
       PROVE  \E j \in i .. Len(Tail(q)) : Tail(q)[j] = Frame("end", t)
  <2>1. PICK j \in (i + 1) .. Len(q) : q[j] = Frame("end", t)
    BY <1>11 DEF EndAfter
  <2>2. j - 1 \in i .. Len(Tail(q)) /\ Tail(q)[j - 1] = q[j]
    BY <1>3, <2>1
  <2>. QED  BY <2>1, <2>2
<1>12. StartIsEnded'
  <2>. SUFFICES ASSUME NEW c \in Conns, NEW i \in 1 .. Len(toAgent'[c]),
                       toAgent'[c][i].type = "start",
                       pc[toAgent'[c][i].session] = "done",
                       conn[c] # "ended"
                PROVE  EndAfter(c, i, toAgent[c][i].session)'
    BY <1>1 DEF StartIsEnded
  <2>1. CASE c = held
    <3>. DEFINE t == q[i + 1].session
    <3>1. toAgent'[c] = Tail(q) /\ i \in 1 .. Len(Tail(q))
      BY <1>2, <2>1
    <3>2. i + 1 \in 1 .. Len(q) /\ toAgent'[c][i] = q[i + 1]
      BY <1>3, <3>1
    <3>3. EndAfter(held, i + 1, t)
      BY <1>1, <2>1, <3>2 DEF ChannelInv, StartIsEnded
    <3>4. t \in Sessions
      BY <1>1, <3>2, FramesHaveSessions
    <3>5. \E j \in (i + 1) .. Len(Tail(q)) : Tail(q)[j] = Frame("end", t)
      BY <1>11, <3>2, <3>3, <3>4
    <3>. QED  BY <3>1, <3>2, <3>5 DEF EndAfter
  <2>2. CASE c # held
    <3>1. EndAfter(c, i, toAgent[c][i].session)
      BY <1>1, <1>6, <2>2 DEF ChannelInv, StartIsEnded
    <3>. QED  BY <1>6, <2>2, <3>1 DEF EndAfter
  <2>. QED  BY <2>1, <2>2
<1>13. HostedSessionEnds'
  <2>. SUFFICES ASSUME NEW t \in hosted', pc[t] = "done", conn[held] # "ended"
                PROVE  \E j \in 1 .. Len(Tail(q)) : Tail(q)[j] = Frame("end", t)
    BY <1>1, <1>2 DEF HostedSessionEnds
  <2>1. CASE t \in hosted /\ ~(m.type = "end" /\ t = s)
    <3>1. PICK j \in 1 .. Len(q) : q[j] = Frame("end", t)
      BY <2>1 DEF ChannelInv, HostedSessionEnds
    <3>2. j # 1
      BY <1>4, <2>1, <3>1 DEF Frame
    <3>3. j - 1 \in 1 .. Len(Tail(q)) /\ Tail(q)[j - 1] = q[j]
      BY <1>3, <3>1, <3>2
    <3>. QED  BY <3>1, <3>3
  <2>2. CASE m.type = "start" /\ t = s
    <3>1. EndAfter(held, 1, s)
      BY <1>1, <1>3, <1>4, <2>2 DEF ChannelInv, StartIsEnded
    <3>. QED  BY <1>3, <1>5, <1>11, <2>2, <3>1
  <2>. QED  BY <1>1, <2>1, <2>2
<1>. QED
  BY <1>7, <1>8, <1>9, <1>10, <1>12, <1>13 DEF ChannelInv

(* A session is given the agent registered for the host.                   *)
LEMMA OpensChannel ==
    ASSUME TypeOK, ChannelInv, NEW s \in Sessions, OpenSession(s)
    PROVE  ChannelInv'
<1>. USE DEF Goto, control, agentSide
<1>1. CASE agents = NoConn
  <2>1. /\ UNCHANGED <<agents, conn, held, hosted, toAgent, agentOf>>
        /\ pc' = [pc EXCEPT ![s] = "done"] /\ ~Started(s)
    BY <1>1 DEF OpenSession, Started
  <2>. QED  BY <2>1, HandlerMoves DEF Pcs
<1>2. CASE agents # NoConn
  <2>1. /\ UNCHANGED <<agents, conn, held, hosted, toAgent>>
        /\ pc' = [pc EXCEPT ![s] = "audit"]
        /\ agentOf' = [agentOf EXCEPT ![s] = agents]
        /\ ~Started(s)
    BY <1>2 DEF OpenSession, Started
  <2>2. \A t \in Sessions :
           Started(t) => t # s /\ pc'[t] = pc[t] /\ agentOf'[t] = agentOf[t]
    BY <2>1 DEF TypeOK
  <2>3. \A c \in Conns : \A i \in 1 .. Len(toAgent[c]) :
           toAgent[c][i].session \in Sessions
    BY FramesHaveSessions
  <2>4. RegisteredAgentLive' /\ OnlyHeldIsUsed'
    BY <2>1 DEF ChannelInv, RegisteredAgentLive, OnlyHeldIsUsed
  <2>5. LookedUpConnected'
    BY <1>2, <2>1 DEF TypeOK, ChannelInv, RegisteredAgentLive, LookedUpConnected
  <2>6. HostedStarted'
    BY <2>1, <2>2 DEF TypeOK, ChannelInv, HostedStarted, Started
  <2>7. FramesStarted'
    BY <2>1, <2>2, <2>3 DEF ChannelInv, FramesStarted, Started
  <2>8. StartIsEnded'
    BY <2>1, <2>2, <2>3 DEF ChannelInv, FramesStarted, StartIsEnded, EndAfter
  <2>9. HostedSessionEnds'
    BY <2>1, <2>2 DEF TypeOK, ChannelInv, HostedStarted, HostedSessionEnds
  <2>. QED  BY <2>4, <2>5, <2>6, <2>7, <2>8, <2>9 DEF ChannelInv
<1>. QED  BY <1>1, <1>2

(* A frame joins the end of the queue to the agent's socket, or is lost.   *)
LEMMA SendsChannel ==
    ASSUME TypeOK, ChannelInv, NEW s \in Sessions, NEW p \in Pcs,
           NEW type \in {"start", "end"},
           UNCHANGED <<agents, conn, held, hosted, agentOf>>,
           pc[s] \notin {"none", "done"},
           CanSend(agentOf[s]), held = agentOf[s],
           toAgent' = [toAgent EXCEPT ![held] = Append(@, Frame(type, s))],
           pc' = [pc EXCEPT ![s] = p],
           p \notin {"none", "audit", "start"},
           p = "done" <=> type = "end"
    PROVE  ChannelInv'
<1>. DEFINE q == toAgent[held]
            m == Frame(type, s)
<1>1. held \in Conns /\ q \in Seq(Frames) /\ m \in Frames
  BY FrameType DEF TypeOK, CanSend
<1>2. /\ toAgent'[held] = Append(q, m)
      /\ \A c \in Conns : c # held => toAgent'[c] = toAgent[c]
  BY <1>1 DEF TypeOK
<1>3. /\ Len(q) \in Nat
      /\ Len(Append(q, m)) = Len(q) + 1
      /\ \A i \in 1 .. Len(q) : Append(q, m)[i] = q[i]
      /\ Append(q, m)[Len(q) + 1] = m
  BY <1>1, AppendProperties, LenProperties
<1>4. \A t \in Sessions : pc'[t] = IF t = s THEN p ELSE pc[t]
  BY DEF TypeOK
<1>5. /\ \A t \in Sessions : Started(t) => Started(t)'
      /\ Started(s)'
  BY <1>4 DEF Started
<1>6. RegisteredAgentLive' /\ LookedUpConnected'
  BY <1>4 DEF ChannelInv, RegisteredAgentLive, LookedUpConnected, TypeOK
<1>7. OnlyHeldIsUsed'
  BY <1>1, <1>2, RemoteAssumption DEF ChannelInv, OnlyHeldIsUsed
<1>8. HostedStarted'
  BY <1>5 DEF TypeOK, ChannelInv, HostedStarted
<1>9. ASSUME NEW c \in Conns, NEW i \in 1 .. Len(toAgent'[c])
      PROVE  \/ i \in 1 .. Len(toAgent[c]) /\ toAgent'[c][i] = toAgent[c][i]
             \/ c = held /\ i = Len(q) + 1 /\ toAgent'[c][i] = m
  <2>1. CASE c = held
    <3>1. i \in 1 .. Len(q) + 1
      BY <1>2, <1>3, <2>1
    <3>. QED  BY <1>2, <1>3, <2>1, <3>1
  <2>2. CASE c # held
    BY <1>2, <2>2
  <2>. QED  BY <2>1, <2>2
<1>10. FramesStarted'
  <2>. SUFFICES ASSUME NEW c \in Conns, NEW i \in 1 .. Len(toAgent'[c])
                PROVE  /\ Started(toAgent[c][i].session)'
                       /\ agentOf[toAgent'[c][i].session] = c
    BY DEF FramesStarted
  <2>1. CASE i \in 1 .. Len(toAgent[c]) /\ toAgent'[c][i] = toAgent[c][i]
    BY <1>5, <2>1, FramesHaveSessions DEF ChannelInv, FramesStarted, Started
  <2>2. CASE c = held /\ i = Len(q) + 1 /\ toAgent'[c][i] = m
    BY <1>5, <2>2 DEF Frame, Started
  <2>. QED  BY <1>9, <2>1, <2>2
<1>11. ASSUME NEW c \in Conns, NEW i \in Nat, NEW t, EndAfter(c, i, t)
       PROVE  EndAfter(c, i, t)'
  <2>1. PICK j \in (i + 1) .. Len(toAgent[c]) : toAgent[c][j] = Frame("end", t)
    BY <1>11 DEF EndAfter
  <2>2. j \in (i + 1) .. Len(toAgent'[c]) /\ toAgent'[c][j] = toAgent[c][j]
    <3>1. CASE c = held
      BY <1>2, <1>3, <2>1, <3>1
    <3>2. CASE c # held
      BY <1>2, <2>1, <3>2
    <3>. QED  BY <3>1, <3>2
  <2>. QED  BY <2>1, <2>2 DEF EndAfter
<1>12. ASSUME type = "end"
       PROVE  \A i \in 1 .. Len(q) : EndAfter(held, i, s)'
  <2>1. Len(toAgent'[held]) = Len(q) + 1 /\ toAgent'[held][Len(q) + 1] = Frame("end", s)
    BY <1>2, <1>3, <1>12
  <2>. QED  BY <1>3, <2>1 DEF EndAfter
<1>13. StartIsEnded'
  <2>. SUFFICES ASSUME NEW c \in Conns, NEW i \in 1 .. Len(toAgent'[c]),
                       toAgent'[c][i].type = "start",
                       pc'[toAgent'[c][i].session] = "done",
                       conn[c] # "ended"
                PROVE  EndAfter(c, i, toAgent[c][i].session)'
    BY DEF StartIsEnded
  <2>1. CASE i \in 1 .. Len(toAgent[c]) /\ toAgent'[c][i] = toAgent[c][i]
    <3>. DEFINE t == toAgent[c][i].session
    <3>1. t \in Sessions
      BY <2>1, FramesHaveSessions
    <3>2. CASE t = s
      <4>1. type = "end" /\ c = held
        BY <1>4, <2>1, <3>2 DEF ChannelInv, FramesStarted
      <4>. QED  BY <1>12, <2>1, <3>2, <4>1 DEF EndAfter
    <3>3. CASE t # s
      <4>1. EndAfter(c, i, t)
        BY <1>4, <2>1, <3>1, <3>3 DEF ChannelInv, StartIsEnded
      <4>. QED  BY <1>11, <2>1, <4>1 DEF EndAfter
    <3>. QED  BY <3>2, <3>3
  <2>2. CASE c = held /\ i = Len(q) + 1 /\ toAgent'[c][i] = m
    BY <1>4, <2>2 DEF Frame
  <2>. QED  BY <1>9, <2>1, <2>2
<1>14. HostedSessionEnds'
  <2>. SUFFICES ASSUME NEW t \in hosted, pc'[t] = "done", conn[held] # "ended"
                PROVE  \E j \in 1 .. Len(toAgent'[held]) :
                          toAgent'[held][j] = Frame("end", t)
    BY DEF HostedSessionEnds
  <2>1. CASE t = s
    <3>1. type = "end"
      BY <1>4, <2>1
    <3>. QED  BY <1>2, <1>3, <2>1, <3>1
  <2>2. CASE t # s
    <3>1. EndAfter(held, 0, t)
      BY <1>4, <2>2 DEF TypeOK, ChannelInv, HostedSessionEnds, EndAfter
    <3>2. EndAfter(held, 0, t)'
      BY <1>1, <1>11, <3>1
    <3>. QED  BY <3>2 DEF EndAfter
  <2>. QED  BY <2>1, <2>2
<1>. QED
  BY <1>6, <1>7, <1>8, <1>10, <1>13, <1>14 DEF ChannelInv

LEMMA StartsChannel ==
    ASSUME TypeOK, ChannelInv, NEW s \in Sessions, StartSession(s)
    PROVE  ChannelInv'
<1>1. /\ pc[s] = "start" /\ agentOf[s] # NoConn
      /\ UNCHANGED <<agents, conn, held, hosted, agentOf>>
      /\ SendToAgent(agentOf[s], Frame("start", s))
  BY DEF StartSession, ChannelInv, LookedUpConnected
<1>2. CASE ~CanSend(agentOf[s])
  <2>1. toAgent' = toAgent /\ pc' = [pc EXCEPT ![s] = "done"] /\ ~Started(s)
    BY <1>1, <1>2 DEF StartSession, SendToAgent, Abort, Goto, Started
  <2>. QED  BY <1>1, <2>1, HandlerMoves DEF Pcs
<1>3. CASE CanSend(agentOf[s])
  <2>1. PICK p \in {"relay", "listen"} : pc' = [pc EXCEPT ![s] = p]
    BY <1>3 DEF StartSession, Goto
  <2>2. CASE held # agentOf[s]
    <3>1. toAgent' = toAgent
      BY <1>1, <2>2 DEF SendToAgent
    <3>. QED  BY <1>1, <2>1, <3>1, HandlerMoves DEF Pcs
  <2>3. CASE held = agentOf[s]
    <3>1. toAgent' = [toAgent EXCEPT ![held] = Append(@, Frame("start", s))]
      BY <1>1, <1>3, <2>3 DEF SendToAgent
    <3>. QED  BY <1>1, <1>3, <2>1, <2>3, <3>1, SendsChannel DEF Pcs
  <2>. QED  BY <2>2, <2>3
<1>. QED  BY <1>2, <1>3

(* An end that cannot be sent is of a session the agent does not host, or  *)
(* of a connection the agent will drop.                                    *)
LEMMA EndsChannel ==
    ASSUME TypeOK, ChannelInv, NEW s \in Sessions, EndSession(s)
    PROVE  ChannelInv'
<1>1. /\ pc[s] = "ending" /\ agentOf[s] # NoConn
      /\ UNCHANGED <<agents, conn, held, hosted, agentOf>>
      /\ SendToAgent(agentOf[s], Frame("end", s))
      /\ pc' = [pc EXCEPT ![s] = "done"]
  BY DEF EndSession, SessionAgent, Goto, ChannelInv, LookedUpConnected
<1>2. CASE CanSend(agentOf[s]) /\ held = agentOf[s]
  <2>1. toAgent' = [toAgent EXCEPT ![held] = Append(@, Frame("end", s))]
    BY <1>1, <1>2 DEF SendToAgent
  <2>. QED  BY <1>1, <1>2, <2>1, SendsChannel DEF Pcs
<1>3. CASE ~(CanSend(agentOf[s]) /\ held = agentOf[s])
  <2>1. toAgent' = toAgent
    BY <1>1, <1>3 DEF SendToAgent
  <2>2. \A t \in Sessions : pc'[t] = IF t = s THEN "done" ELSE pc[t]
    BY <1>1 DEF TypeOK
  <2>3. \A t \in Sessions : Started(t) => Started(t)'
    BY <2>2 DEF Started
  <2>4. \A c \in Conns : \A i \in 1 .. Len(toAgent[c]) :
           toAgent[c][i].session \in Sessions
    BY FramesHaveSessions
  <2>5. held = agentOf[s] => conn[held] = "ended"
    BY <1>1, <1>3 DEF TypeOK, CanSend, ChannelInv, LookedUpConnected
  <2>6. \A c \in Conns : \A i \in 1 .. Len(toAgent[c]) : c = held
    BY EmptySeq DEF ChannelInv, OnlyHeldIsUsed
  <2>7. RegisteredAgentLive' /\ OnlyHeldIsUsed' /\ LookedUpConnected'
    BY <1>1, <2>1, <2>2
       DEF ChannelInv, RegisteredAgentLive, OnlyHeldIsUsed, LookedUpConnected
  <2>8. HostedStarted' /\ FramesStarted'
    BY <1>1, <2>1, <2>3, <2>4 DEF TypeOK, ChannelInv, HostedStarted, FramesStarted
  <2>9. StartIsEnded'
    BY <1>1, <2>1, <2>2, <2>4, <2>5, <2>6
       DEF ChannelInv, FramesStarted, StartIsEnded, EndAfter
  <2>10. HostedSessionEnds'
    BY <1>1, <2>1, <2>2, <2>5
       DEF TypeOK, ChannelInv, HostedStarted, HostedSessionEnds
  <2>. QED  BY <2>7, <2>8, <2>9, <2>10 DEF ChannelInv
<1>. QED  BY <1>2, <1>3

(* The steps of a handler between its session_start and its clean-up, and  *)
(* the ones that abort it before.                                          *)
LEMMA SessionChannel ==
    ASSUME TypeOK, ChannelInv, NEW s \in Sessions,
           SessionStep(s) \/ BrowserStep(s)
    PROVE  ChannelInv'
<1>1. CASE OpenSession(s)   BY <1>1, OpensChannel
<1>2. CASE StartSession(s)  BY <1>2, StartsChannel
<1>3. CASE EndSession(s)    BY <1>3, EndsChannel
<1>4. CASE BrowserLeaves(s)
  BY <1>4, ChannelStutters DEF BrowserLeaves, control, agentSide
<1>5. CASE CommitAudit(s)
  <2>1. /\ UNCHANGED <<agents, conn, held, hosted, toAgent, agentOf>>
        /\ pc[s] = "audit"
        /\ pc' = [pc EXCEPT ![s] = "start"] \/ pc' = [pc EXCEPT ![s] = "done"]
    BY <1>5 DEF CommitAudit, Abort, Goto, control, agentSide
  <2>2. ~Started(s) /\ agentOf[s] # NoConn
    BY <2>1 DEF Started, ChannelInv, LookedUpConnected
  <2>. QED  BY <2>1, <2>2, HandlerMoves DEF Pcs
<1>6. CASE \/ RelayEnds(s) \/ RelayFails(s) \/ Listen(s) \/ OpenGuacdConnection(s)
           \/ ReplayReady(s) \/ AwaitDialBack(s) \/ PumpEnds(s) \/ PumpFails(s)
  <2>1. /\ UNCHANGED <<agents, conn, held, hosted, toAgent, agentOf>>
        /\ pc[s] \notin {"none", "done"}
        /\ \E p \in {"handshake", "replay", "dialback", "pump", "ending"} :
              pc' = [pc EXCEPT ![s] = p]
    BY <1>6 DEF RelayEnds, RelayFails, Listen, OpenGuacdConnection, ReplayReady,
       AwaitDialBack, PumpEnds, PumpFails, Goto, control, agentSide
  <2>2. agentOf[s] # NoConn
    BY <2>1 DEF ChannelInv, LookedUpConnected
  <2>. QED  BY <2>1, <2>2, HandlerMoves DEF Pcs
<1>. QED
  BY <1>1, <1>2, <1>3, <1>4, <1>5, <1>6 DEF SessionStep, BrowserStep

LEMMA NextChannel == TypeOK /\ ChannelInv /\ [Next]_vars => ChannelInv'
<1>. SUFFICES ASSUME TypeOK, ChannelInv, [Next]_vars PROVE ChannelInv'
  OBVIOUS
<1>1. CASE AgentStep
  <2>1. ASSUME NEW s \in Sessions, AgentSends(s) PROVE ChannelInv'
    BY <2>1, ChannelStutters DEF AgentSends, handlers
  <2>. QED
    BY <1>1, <2>1, ConnectsChannel, DropsChannel, ReceivesChannel, ClosesChannel
       DEF AgentStep
<1>2. CASE ControlStep
  <2>1. PICK c \in Conns : ControlDisconnect(c) \/ ReceiveFrame(c)
    BY <1>2 DEF ControlStep
  <2>2. UNCHANGED <<held, hosted, toAgent, agentOf, pc>>
    BY <2>1 DEF ControlDisconnect, ReceiveFrame, handlers
  <2>3. EndControl(c) \/ UNCHANGED <<agents, conn>>
    BY <2>1 DEF ControlDisconnect, ReceiveFrame
  <2>. QED  BY <2>2, <2>3, EndControlChannel, ChannelStutters
<1>3. ASSUME NEW s \in Sessions, SessionStep(s) \/ BrowserStep(s)
      PROVE  ChannelInv'
  BY <1>3, SessionChannel
<1>4. ASSUME NEW s \in Sessions, GuacdStep(s) \/ \E d \in Dials : BridgeStep(s, d)
      PROVE  ChannelInv'
  <2>1. UNCHANGED <<agents, conn, held, hosted, toAgent, agentOf, pc>>
    BY <1>4 DEF GuacdStep, GuacdEnds, GuacdHangsUp, GuacdDials, GuacdRedials,
       BridgeStep, BridgeStarts, BridgeEof, BridgeFails, EndBridge,
       control, agentSide, handlers
  <2>. QED  BY <2>1, ChannelStutters
<1>5. CASE UNCHANGED vars
  BY <1>5, ChannelStutters DEF vars, control, agentSide, handlers
<1>. QED  BY <1>1, <1>2, <1>3, <1>4, <1>5 DEF Next

LEMMA ChannelHolds == Spec => []ChannelInv
BY InitChannel, NextChannel, TypeCorrect, PTL DEF Spec

(* A caller never gets a control connection whose handler has returned.    *)
THEOREM RegisteredAgentLiveHolds == Spec => []RegisteredAgentLive
<1>1. ChannelInv => RegisteredAgentLive
  BY DEF ChannelInv
<1>. QED  BY <1>1, ChannelHolds, PTL

(* No agent goes on hosting a session whose handler is over, unless it is  *)
(* about to be told or its connection has been closed.                     *)
THEOREM HostedSessionEndsHolds == Spec => []HostedSessionEnds
<1>1. ChannelInv => HostedSessionEnds
  BY DEF ChannelInv
<1>. QED  BY <1>1, ChannelHolds, PTL

===============================================================================
