---------------------------- MODULE MqttClientRun ----------------------------
(***************************************************************************)
(* The connection of mqtt_client: run(), stop() and the connect and        *)
(* disconnect callbacks, over the part of libmosquitto they depend on.     *)
(*                                                                         *)
(* run() is called once, by the main thread; stop() may be called at any   *)
(* time after the client exists, by a signal handler on any thread.  The   *)
(* library is external: what it may do is what the code has to live with.  *)
(***************************************************************************)
EXTENDS Naturals, Sequences

VARIABLES
  run,        \* where run() is
  phase,      \* what loop_forever is doing: serving, waiting, reconnecting
  socket,     \* the client's socket: none, opening (no CONNACK), open, refused
  stopping,   \* the library was asked to disconnect (its request flag)
  outgoing,   \* packets that wait to be written, in order
  subscribed, \* the broker has the subscriptions of this connection
  connected,  \* m_is_connected
  stopCalled  \* history: stop() has been called

library == <<phase, socket, stopping, outgoing, subscribed>>
runVars == <<run, library, connected, stopCalled>>

RunPoints == {"new", "connecting", "loop", "disconnect", "wait", "done"}
Phases == {"serving", "waiting", "reconnecting"}
Sockets == {"none", "opening", "open", "refused"}

RunTypeOK ==
  /\ run \in RunPoints
  /\ phase \in Phases
  /\ socket \in Sockets
  /\ stopping \in BOOLEAN
  /\ outgoing \in Seq({"subscribe", "disconnect"})
  /\ subscribed \in BOOLEAN
  /\ connected \in BOOLEAN
  /\ stopCalled \in BOOLEAN

RunInit ==
  /\ run = "new"
  /\ phase = "serving"
  /\ socket = "none"
  /\ stopping = FALSE
  /\ outgoing = <<>>
  /\ subscribed = FALSE
  /\ connected = FALSE
  /\ stopCalled = FALSE

-----------------------------------------------------------------------------
(***************************************************************************)
(* The callbacks.  on_connect does not look at the reason code: a client   *)
(* that was refused is connected, until the library closes its socket.  It *)
(* subscribes anew on every connection, with one packet for all filters.   *)
(* on_subscribe, when the broker answers, changes nothing.                 *)
(***************************************************************************)
\* A mutant: the broker is taken to remember the subscriptions.
OnConnectOnce ==
  /\ connected' = TRUE
  /\ UNCHANGED outgoing

OnConnect ==
  /\ connected' = TRUE
  /\ outgoing' = Append(outgoing, "subscribe")

\* A mutant: on_disconnect forgets to say so.
OnDisconnectSilent == connected' = connected

OnDisconnect == connected' = FALSE

(***************************************************************************)
(* The socket is closed: the library drops what it had to write, the       *)
(* session and its subscriptions are over, and on_disconnect is called.    *)
(***************************************************************************)
Close ==
  /\ socket # "none"
  /\ socket' = "none"
  /\ outgoing' = <<>>
  /\ subscribed' = FALSE
  /\ OnDisconnect

(***************************************************************************)
(* mosquitto_disconnect, called by stop() and by run(): the request is     *)
(* noted, and if there is a socket the DISCONNECT is written at once,      *)
(* which closes it, or is left to the network loop.                        *)
(***************************************************************************)
Disconnect ==
  /\ stopping' = TRUE
  /\ \/ Close
     \/ /\ socket # "none"
        /\ outgoing' = Append(outgoing, "disconnect")
        /\ UNCHANGED <<socket, subscribed, connected>>
     \/ /\ socket = "none"
        /\ UNCHANGED <<socket, outgoing, subscribed, connected>>

-----------------------------------------------------------------------------
\* mqtt_client::stop.
Stop ==
  /\ Disconnect
  /\ stopCalled' = TRUE
  /\ UNCHANGED <<run, phase>>

\* run() up to connect(): a disconnect asked for by now finds no socket.
StartRun ==
  /\ run = "new"
  /\ run' = "connecting"
  /\ UNCHANGED <<library, connected, stopCalled>>

(***************************************************************************)
(* connect(): it may fail, which run() does not look at, and the library   *)
(* may forget a disconnect that was asked for before.                      *)
(***************************************************************************)
Connect ==
  /\ run = "connecting"
  /\ run' = "loop"
  /\ phase' = "serving"
  /\ socket' \in {"none", "opening"}
  /\ stopping' \in {stopping, FALSE}
  /\ UNCHANGED <<outgoing, subscribed, connected, stopCalled>>

(***************************************************************************)
(* loop_forever.  While there is a socket it serves it: CONNACKs come in,  *)
(* what is queued is written, the connection is lost.                      *)
(***************************************************************************)
Connack(accepted) ==
  /\ run = "loop"
  /\ socket = "opening"
  /\ socket' = IF accepted THEN "open" ELSE "refused"
  /\ OnConnect
  /\ UNCHANGED <<run, phase, stopping, subscribed, stopCalled>>

WritePacket ==
  /\ run = "loop"
  /\ outgoing # <<>>
  /\ \/ Head(outgoing) = "disconnect" /\ Close
     \/ /\ Head(outgoing) = "subscribe"
        /\ outgoing' = Tail(outgoing)
        /\ subscribed' = (socket = "open")
        /\ UNCHANGED <<socket, connected>>
  /\ UNCHANGED <<run, phase, stopping, stopCalled>>

LoseConnection ==
  /\ run = "loop"
  /\ Close
  /\ UNCHANGED <<run, phase, stopping, stopCalled>>

(***************************************************************************)
(* Without a socket it returns if a disconnect was asked for, and else     *)
(* waits for the reconnect delay and looks again before it reconnects.     *)
(* Nothing looks at a request made while it does.                          *)
(***************************************************************************)
LoopReturns ==
  /\ run = "loop"
  /\ socket = "none"
  /\ phase # "reconnecting"
  /\ stopping
  /\ run' = "disconnect"
  /\ UNCHANGED <<library, connected, stopCalled>>

AwaitReconnect ==
  /\ run = "loop"
  /\ socket = "none"
  /\ phase = "serving"
  /\ ~ stopping
  /\ phase' = "waiting"
  /\ UNCHANGED <<run, socket, stopping, outgoing, subscribed, connected,
                 stopCalled>>

StartReconnect ==
  /\ run = "loop"
  /\ phase = "waiting"
  /\ ~ stopping
  /\ phase' = "reconnecting"
  /\ UNCHANGED <<run, socket, stopping, outgoing, subscribed, connected,
                 stopCalled>>

Reconnect ==
  /\ run = "loop"
  /\ phase = "reconnecting"
  /\ \/ socket' = "opening" /\ phase' = "serving"
     \/ socket' = "none" /\ phase' = "waiting"
  /\ UNCHANGED <<run, stopping, outgoing, subscribed, connected, stopCalled>>

(***************************************************************************)
(* A fatal error closes the connection and ends the loop; so does an       *)
(* exception thrown by a callback, which nothing closes the socket after.  *)
(***************************************************************************)
FatalError ==
  /\ run = "loop"
  /\ Close
  /\ run' = "disconnect"
  /\ UNCHANGED <<phase, stopping, stopCalled>>

CallbackThrows ==
  /\ run = "loop"
  /\ socket \in {"open", "refused"}
  /\ run' = "disconnect"
  /\ UNCHANGED <<library, connected, stopCalled>>

\* run() after the loop: it disconnects, and waits for on_disconnect.
RunDisconnect ==
  /\ run = "disconnect"
  /\ Disconnect
  /\ run' = "wait"
  /\ UNCHANGED <<phase, stopCalled>>

\* A mutant: run() does not wait.
WaitDisconnectedNot ==
  /\ run = "wait"
  /\ run' = "done"
  /\ UNCHANGED <<library, connected, stopCalled>>

\* A mutant: run() waits for the connection, not for its end.
WaitConnected ==
  /\ run = "wait"
  /\ connected
  /\ run' = "done"
  /\ UNCHANGED <<library, connected, stopCalled>>

WaitDisconnected ==
  /\ run = "wait"
  /\ ~ connected
  /\ run' = "done"
  /\ UNCHANGED <<library, connected, stopCalled>>

-----------------------------------------------------------------------------
\* What the thread that runs the client must get on with.
Progress ==
  \/ StartRun \/ Connect \/ WritePacket \/ LoopReturns
  \/ AwaitReconnect \/ StartReconnect \/ Reconnect
  \/ RunDisconnect \/ WaitDisconnected

\* What the broker, the network and the callbacks may bring.
Happens ==
  \/ \E accepted \in BOOLEAN : Connack(accepted)
  \/ LoseConnection \/ FatalError \/ CallbackThrows

RunStep == Progress \/ Happens

-----------------------------------------------------------------------------
(***************************************************************************)
(* m_is_connected is only true of a socket, and once run() has left the    *)
(* loop it is true of every socket: so run() returns with none, whatever   *)
(* ended the loop (mqtt_client.cpp:162-167).                               *)
(***************************************************************************)
DoneIsClosed == run = "done" => socket = "none" /\ ~ connected

(***************************************************************************)
(* A stop that the loop is bound to hear: it came while the loop served a  *)
(* socket or waited to reconnect.  One that comes during connect() or a    *)
(* reconnect may be forgotten, or be heard only when the connection it     *)
(* could not prevent is lost.                                              *)
(***************************************************************************)
StopHeard ==
  /\ run = "loop" /\ stopping
  /\ \/ \E i \in DOMAIN outgoing : outgoing[i] = "disconnect"
     \/ socket = "none" /\ phase # "reconnecting"
=============================================================================
