------------------------------ MODULE KeepAlive ------------------------------
(***************************************************************************)
(* The keepalive timer of a session and the clock it reads: startKeepalive *)
(* in src/wire.ts and the places that set lastActivity, open or close the  *)
(* connection.  MqttWire lets the timer find its timeout elapsed at any    *)
(* time; this module says when.  What the session does between opening and *)
(* closing is left out: here it reads something, or it sends something.    *)
(*                                                                         *)
(* A step of the clock is half a second, so that a keep alive of k seconds *)
(* has an interval of k steps (half of it) and a timeout of                *)
(* DoubledMultiplier * k steps.                                            *)
(***************************************************************************)
EXTENDS Integers

CONSTANTS KeepAlives,          \* what a CONNECT may ask for, in seconds; 0 is no keep alive
          DoubledMultiplier,   \* twice options.keepAliveMultiplier: 3
          Lateness,            \* how late, at most, the event loop runs a callback
          Horizon,             \* bound: longer times are not told apart
          MaxPending           \* bound: calls of one kind that are pending at once

ASSUME KeepAliveAssumption ==
    /\ KeepAlives \subseteq Nat
    /\ DoubledMultiplier \in Nat \ {0} /\ Lateness \in Nat /\ MaxPending \in Nat \ {0}
    /\ \A k \in KeepAlives : (DoubledMultiplier + 1) * k + Lateness < Horizon
    /\ Horizon \in Nat

VARIABLES state,             \* "awaiting-connect", "connected" or "disconnected"
          protocolVersion,
          clientKeepAlive,
          elapsed,           \* time since lastActivity
          silence,           \* time since the client sent anything
          keepAliveTimer,    \* "none" or "interval"
          due,               \* until the next callback of the interval, < 0 when that is late
          accepting,         \* CONNECTs whose onConnect or CONNACK is pending
          closing,           \* calls of disconnect() whose DISCONNECT is pending
          reporting          \* error handlers whose disconnect() is pending in onDisconnect

session == <<state, protocolVersion, clientKeepAlive>>
clocks  == <<elapsed, silence>>
timer   == <<keepAliveTimer, due>>
pending == <<accepting, closing, reporting>>
vars == <<session, clocks, timer, pending>>

Running == keepAliveTimer = "interval"

Interval == clientKeepAlive
Timeout  == DoubledMultiplier * clientKeepAlive

TypeOK == /\ state \in {"awaiting-connect", "connected", "disconnected"}
          /\ protocolVersion \in {"3.1.1", "5.0"}
          /\ clientKeepAlive \in KeepAlives \cup {0}
          /\ elapsed \in 0..Horizon /\ silence \in 0..Horizon
          /\ keepAliveTimer \in {"none", "interval"} /\ due \in -Lateness..Interval
          /\ accepting \in 0..MaxPending /\ closing \in 0..MaxPending
          /\ reporting \in 0..MaxPending

Init == /\ state = "awaiting-connect" /\ protocolVersion = "5.0" /\ clientKeepAlive = 0
        /\ elapsed = 0 /\ silence = 0
        /\ keepAliveTimer = "none" /\ due = 0
        /\ accepting = 0 /\ closing = 0 /\ reporting = 0

-----------------------------------------------------------------------------
(* What the handlers are made of. *)

StopKeepalive == keepAliveTimer' = "none" /\ due' = 0

StartKeepaliveWhole ==   \* mutated: the first callback comes after the whole keep alive
    /\ keepAliveTimer' = IF clientKeepAlive = 0 THEN "none" ELSE "interval"
    /\ due' = 2 * Interval
    /\ elapsed' = IF clientKeepAlive = 0 THEN elapsed ELSE 0

StartKeepaliveStale ==   \* mutated: lastActivity is that of CONNECT
    /\ keepAliveTimer' = IF clientKeepAlive = 0 THEN "none" ELSE "interval"
    /\ due' = Interval
    /\ UNCHANGED elapsed

\* startKeepalive(), which also counts as activity.
StartKeepalive == /\ keepAliveTimer' = IF clientKeepAlive = 0 THEN "none" ELSE "interval"
                  /\ due' = Interval
                  /\ elapsed' = IF clientKeepAlive = 0 THEN elapsed ELSE 0

Cleanup == state' = "disconnected" /\ StopKeepalive

ReceiveUncounted ==   \* mutated: only what the server sends is activity
    silence' = 0 /\ UNCHANGED elapsed

\* receive() sets lastActivity before it reads a frame.
Receive == elapsed' = 0 /\ silence' = 0

\* disconnect(), which handleProtocolError() calls as well, up to its await: under MQTT 5.0
\* the session stays open and its timer running until the DISCONNECT is sent, and sending
\* is activity.  Otherwise the time since the last activity and until the callback is given.
Close(activity, next) ==
    \/ /\ state = "connected" /\ protocolVersion = "5.0"
       /\ closing < MaxPending
       /\ closing' = closing + 1
       /\ elapsed' = 0 /\ due' = next
       /\ UNCHANGED <<state, keepAliveTimer>>
    \/ /\ ~(state = "connected" /\ protocolVersion = "5.0")
       /\ Cleanup
       /\ elapsed' = activity
       /\ UNCHANGED closing

-----------------------------------------------------------------------------
(* Actions. *)

\* Time passes; a callback that is due is put off by no more than the lateness.
Tick == /\ Running => due > -Lateness
        /\ elapsed' = IF elapsed < Horizon THEN elapsed + 1 ELSE elapsed
        /\ silence' = IF silence < Horizon THEN silence + 1 ELSE silence
        /\ due' = IF Running THEN due - 1 ELSE due
        /\ UNCHANGED <<session, keepAliveTimer, pending>>

\* A CONNECT before the session is open: handleConnect() up to the await of onConnect.
ReadConnect(version, keepAlive) ==
    /\ state = "awaiting-connect" /\ accepting < MaxPending
    /\ Receive
    /\ protocolVersion' = version /\ clientKeepAlive' = keepAlive
    /\ accepting' = accepting + 1
    /\ UNCHANGED <<state, timer, closing, reporting>>

\* handleConnect() behind its awaits: it opens the session whatever became of it meanwhile.
Accept == /\ accepting > 0
          /\ accepting' = accepting - 1
          /\ state' = "connected" /\ StartKeepalive
          /\ UNCHANGED <<protocolVersion, clientKeepAlive, silence, closing, reporting>>

\* onConnect rejected, or the CONNACK refuses the connection.
Refuse == /\ accepting > 0
          /\ accepting' = accepting - 1
          /\ Cleanup
          /\ UNCHANGED <<protocolVersion, clientKeepAlive, clocks, closing, reporting>>

\* Bytes that need no more than an answer, or are no whole packet yet.
Read == Receive /\ UNCHANGED <<session, timer, pending>>

\* Bytes that are an error: the close counts from their arrival.
ReadError == /\ silence' = 0 /\ Close(0, due)
             /\ UNCHANGED <<protocolVersion, clientKeepAlive, accepting, reporting>>

\* handleDisconnect()
ReadDisconnect == /\ Receive /\ Cleanup
                  /\ UNCHANGED <<protocolVersion, clientKeepAlive, pending>>

\* sendPacket(), of publish() or of a handler.
Send == elapsed' = 0 /\ UNCHANGED <<session, silence, timer, pending>>

\* disconnect() called by the application.
Disconnect == /\ Close(elapsed, due)
              /\ UNCHANGED <<protocolVersion, clientKeepAlive, silence, accepting, reporting>>

CheckActivityOnce ==   \* mutated: setTimeout() for setInterval()
    /\ Running /\ due <= 0 /\ elapsed < Timeout
    /\ StopKeepalive
    /\ UNCHANGED <<session, clocks, pending>>

\* The callback of the interval finds that there was activity.
CheckActivity == /\ Running /\ due <= 0 /\ elapsed < Timeout
                 /\ due' = Interval
                 /\ UNCHANGED <<session, clocks, keepAliveTimer, pending>>

\* The callback of the interval finds that there was none: handleProtocolError(), which an
\* onError that throws would leave at once.
KeepAliveTimeout ==
    /\ Running /\ due <= 0 /\ elapsed >= Timeout
    /\ Close(elapsed, Interval)
    /\ UNCHANGED <<protocolVersion, clientKeepAlive, silence, accepting, reporting>>

\* disconnect() behind its await, whatever became of the session meanwhile; if there is a
\* hook onDisconnect and an error handler that called, the latter goes on when the hook returns.
FinishClosing == /\ closing > 0
                 /\ closing' = closing - 1
                 /\ Cleanup
                 /\ \/ UNCHANGED reporting
                    \/ reporting < MaxPending /\ reporting' = reporting + 1
                 /\ UNCHANGED <<protocolVersion, clientKeepAlive, clocks, accepting>>

\* handleProtocolError() behind its await.
FinishProtocolError == /\ reporting > 0
                       /\ reporting' = reporting - 1
                       /\ Cleanup
                       /\ UNCHANGED <<protocolVersion, clientKeepAlive, clocks,
                                      accepting, closing>>

\* reset(): for another connection.
Reset == /\ state' = "awaiting-connect" /\ StopKeepalive
         /\ clientKeepAlive' = 0
         /\ UNCHANGED <<protocolVersion, clocks, pending>>

Activity == \/ \E version \in {"3.1.1", "5.0"}, keepAlive \in KeepAlives :
                  ReadConnect(version, keepAlive)
            \/ Read \/ Send

Next == \/ Activity \/ Tick \/ Accept \/ Refuse
        \/ ReadError \/ ReadDisconnect \/ Disconnect \/ Reset
        \/ CheckActivity \/ KeepAliveTimeout \/ FinishClosing \/ FinishProtocolError

\* Time goes on, the event loop runs the callbacks of timers, and a send that hangs is not
\* the rule: the hook onSend settles.
Fairness == /\ WF_vars(Tick) /\ WF_vars(CheckActivity) /\ WF_vars(KeepAliveTimeout)
            /\ WF_vars(FinishClosing)

Spec == Init /\ [][Next]_vars /\ Fairness

-----------------------------------------------------------------------------
(* Properties. *)

\* A client that sent anything within the timeout is never closed for its silence, whatever
\* the server sends, however late the callbacks are, and over a reopened session too.
NoEarlyTimeout == [][KeepAliveTimeout => silence >= Timeout]_vars

\* While a session with a keep alive is open, an interval that began in time bounds how long
\* nothing was sent or received: no timeout is noticed later than by an interval and the
\* lateness of a callback.
NoticedInTime ==
    state = "connected" /\ clientKeepAlive # 0 =>
        Running /\ elapsed < Timeout + Interval + Lateness

\* A session with a keep alive on which nothing is sent or received any more is closed.
DeadClientIsClosed ==
    []<><<Activity>>_vars \/ (state = "connected" /\ clientKeepAlive # 0 ~> state # "connected")
=============================================================================
