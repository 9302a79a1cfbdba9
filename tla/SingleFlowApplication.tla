---------------------- MODULE SingleFlowApplication -----------------------
(***************************************************************************)
(* The applications that send one flow each                                *)
(* (src/single-flow-application/model/single-flow-application.cc), with    *)
(* what they need of the TCP socket: a local port while it is open, an     *)
(* answer to Connect, and a Send that takes a whole packet or none of it.  *)
(***************************************************************************)
EXTENDS Integers, FiniteSets

CONSTANTS
    Apps,       \* identities of the applications that can be created
    PktSize     \* m_pktSize

ASSUME PktAssumption == PktSize \in Nat \ {0}

VARIABLES
    app,        \* of each application: see App
    failure     \* "none", or the NS_FATAL_ERROR that ended the process

appVars == <<app, failure>>

(* step is the event pending: "installed" StartApplication, "connecting"   *)
(* the answer to Connect, "starting" StartSending, "sending" SendPacket.   *)
Steps == {"absent", "installed", "connecting", "starting", "sending", "closed"}

App == [step : Steps, host : Int, port : Int, size : Nat,
        created : Nat,      \* packets made so far
        totBytes : Nat,     \* m_totBytes
        unsent : BOOLEAN,   \* m_unsentPacket is set
        bound : BOOLEAN]    \* the socket holds its port

NoApp == [step |-> "absent", host |-> -1, port |-> -1, size |-> 0,
          created |-> 0, totBytes |-> 0, unsent |-> FALSE, bound |-> FALSE]

AppInit == app = [a \in Apps |-> NoApp] /\ failure = "none"

(* The endpoint (host, port) is in use.                                    *)
PortBusy(host, port) ==
    \E a \in Apps : app[a].bound /\ app[a].host = host /\ app[a].port = port

---------------------------------------------------------------------------
(* StartApplication: Bind, then Connect.                                   *)
StartApplication(a, portTaken) ==
    /\ failure = "none" /\ app[a].step = "installed"
    /\ IF portTaken
       THEN failure' = "bind" /\ UNCHANGED app
       ELSE /\ app' = [app EXCEPT ![a].step = "connecting", ![a].bound = TRUE]
            /\ UNCHANGED failure

(* ScheduleStartEvent is an event of this same instant.                    *)
ConnectionSucceeded(a) ==
    /\ failure = "none" /\ app[a].step = "connecting"
    /\ app' = [app EXCEPT ![a].step = "starting"]
    /\ UNCHANGED failure

ConnectionFailed(a) ==
    /\ failure = "none" /\ app[a].step = "connecting"
    /\ failure' = "connect"
    /\ UNCHANGED app

(* Mutant: stops one packet early when the flow is not a whole number of   *)
(* packets.                                                                *)
NextTxFloor(r) ==
    IF r.size = 0 \/ r.totBytes + PktSize <= r.size
    THEN [r EXCEPT !.step = "sending"]
    ELSE [r EXCEPT !.step = "closed", !.unsent = FALSE]

(* ScheduleNextTx, with StopApplication when all is sent: the events are   *)
(* cancelled, the socket closed, and the application disposed of.          *)
NextTx(r) ==
    IF r.size = 0 \/ r.totBytes < r.size
    THEN [r EXCEPT !.step = "sending"]
    ELSE [r EXCEPT !.step = "closed", !.unsent = FALSE]

StartSending(a) ==
    /\ failure = "none" /\ app[a].step = "starting"
    /\ app' = [app EXCEPT ![a] = NextTx(@)]
    /\ UNCHANGED failure

(* Mutant: a new packet for every attempt, as if none was kept.            *)
OnePacketAlwaysNew(r) == [r EXCEPT !.created = @ + 1]

(* The packet to send: the one refused before, or a new one.               *)
OnePacket(r) == IF r.unsent THEN r ELSE [r EXCEPT !.created = @ + 1]

(* Send took the packet, or refused it for want of room in the buffer.     *)
SendPacket(a, taken) ==
    LET r == OnePacket(app[a]) IN
    /\ failure = "none" /\ app[a].step = "sending"
    /\ app' = [app EXCEPT ![a] =
            IF taken THEN NextTx([r EXCEPT !.totBytes = @ + PktSize, !.unsent = FALSE])
                     ELSE NextTx([r EXCEPT !.unsent = TRUE])]
    /\ UNCHANGED failure

(* TCP has shut the connection down and lets go of the port.               *)
SocketReleased(a) ==
    /\ failure = "none" /\ app[a].step = "closed" /\ app[a].bound
    /\ app' = [app EXCEPT ![a].bound = FALSE]
    /\ UNCHANGED failure

---------------------------------------------------------------------------
(* Properties.                                                             *)

(* A flow is closed when the last packet that holds one of its bytes has   *)
(* been taken by TCP: neither short of its size, nor a packet longer.      *)
ClosedWhenSent ==
    \A a \in Apps :
        /\ app[a].step = "closed" => app[a].totBytes >= app[a].size
        /\ app[a].size > 0 => app[a].totBytes < app[a].size + PktSize

(* Every packet made is taken by TCP once, or is the one kept for a later  *)
(* attempt: a refusal neither loses a packet nor doubles it.               *)
PacketsConserved ==
    \A a \in Apps :
        app[a].created * PktSize = app[a].totBytes + (IF app[a].unsent THEN PktSize ELSE 0)

===========================================================================
