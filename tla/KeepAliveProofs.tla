--------------------------- MODULE KeepAliveProofs ---------------------------
(***************************************************************************)
(* The keepalive timer is neither early nor late, whatever clients ask for *)
(* and whatever the lateness of the event loop.  The invariant behind it:  *)
(* the time since the last activity and the time until the callback make   *)
(* less than a timeout and an interval together, since a callback that     *)
(* finds less than the timeout begins an interval anew; and there was      *)
(* activity whenever the client sent something.                            *)
(***************************************************************************)
EXTENDS KeepAlive, TLAPS

\* The interval runs exactly while a session with a keep alive is open.
TimerRuns == /\ Running <=> (state = "connected" /\ clientKeepAlive # 0)
             /\ Running \/ due = 0

\* What is left until the callback bounds what has passed since the last activity.
InTime == Running => elapsed + due < Timeout + Interval

\* Nothing of the client goes unnoticed.
HeardIsActivity == elapsed <= silence

IInv == TypeOK /\ TimerRuns /\ InTime /\ HeardIsActivity

-----------------------------------------------------------------------------

\* A keep alive has a timeout.
LEMMA TimeoutPositive ==
    ASSUME TypeOK
    PROVE  /\ Timeout \in Nat /\ Interval \in Nat
           /\ clientKeepAlive # 0 => Timeout > 0 /\ Interval > 0
<1>1. DoubledMultiplier \in Nat \ {0} /\ clientKeepAlive \in Nat
  BY KeepAliveAssumption DEF KeepAliveAssumption, TypeOK
<1>2. \A a, b \in Nat : a * b \in Nat /\ (a > 0 /\ b > 0 => a * b > 0)
  BY SMT
<1> QED
  BY <1>1, <1>2 DEF Timeout, Interval

\* The ranges of the constants, without what binds them.
LEMMA Ranges == /\ KeepAlives \subseteq Nat /\ Horizon \in Nat
                /\ Lateness \in Nat /\ MaxPending \in Nat \ {0}
  BY KeepAliveAssumption DEF KeepAliveAssumption

LEMMA InitIInv == Init => IInv
  BY Ranges
     DEF Init, IInv, TypeOK, TimerRuns, InTime, HeardIsActivity, Interval, Running

\* A close that begins with DISCONNECT is activity; any other stops the timer.
LEMMA CloseIInv ==
    ASSUME IInv,
           NEW activity, NEW next,
           activity \in 0..Horizon, next \in -Lateness..Interval, Running \/ next = 0,
           silence' \in 0..Horizon,
           activity <= silence',
           Close(activity, next),
           UNCHANGED <<protocolVersion, clientKeepAlive, accepting, reporting>>
    PROVE  IInv'
<1> USE Ranges
<1>0. /\ Timeout \in Nat /\ (clientKeepAlive # 0 => Timeout > 0)
      /\ Timeout' = Timeout
  BY TimeoutPositive DEF Timeout, IInv
<1> USE <1>0
<1>1. CASE /\ state = "connected" /\ protocolVersion = "5.0" /\ closing < MaxPending
           /\ closing' = closing + 1 /\ elapsed' = 0 /\ due' = next
           /\ UNCHANGED <<state, keepAliveTimer>>
  BY <1>1 DEF IInv, TypeOK, TimerRuns, InTime, HeardIsActivity, Interval, Running
<1>2. CASE Cleanup /\ elapsed' = activity /\ UNCHANGED closing
  BY <1>2 DEF IInv, TypeOK, TimerRuns, InTime, HeardIsActivity, Interval, Running,
              Cleanup, StopKeepalive
<1> QED
  BY <1>1, <1>2 DEF Close

\* No step of any action breaks the invariant.
LEMMA NextIInv ==
    ASSUME IInv, [Next]_vars
    PROVE  IInv'
<1> USE Ranges
<1> USE DEF IInv, TypeOK, TimerRuns, InTime, HeardIsActivity, Interval, Running
<1>0. /\ Timeout \in Nat /\ (clientKeepAlive # 0 => Timeout > 0)
      /\ clientKeepAlive' = clientKeepAlive => Timeout' = Timeout
  BY TimeoutPositive DEF Timeout
<1> USE <1>0
<1>1. ASSUME NEW version \in {"3.1.1", "5.0"}, NEW keepAlive \in KeepAlives,
             ReadConnect(version, keepAlive)
      PROVE  IInv'
  BY <1>1 DEF ReadConnect, Receive, timer
<1>2. CASE Read
  BY <1>2 DEF Read, Receive, session, timer, pending
<1>3. CASE Send
  BY <1>3 DEF Send, session, timer, pending
<1>4. CASE Tick
  BY <1>4 DEF Tick, session, pending
<1>5. CASE Accept
  BY <1>5 DEF Accept, StartKeepalive
<1>6. CASE Refuse
  BY <1>6 DEF Refuse, Cleanup, StopKeepalive, clocks
<1>7. CASE ReadError
  <2>1. /\ silence' = 0 /\ Close(0, due)
        /\ UNCHANGED <<protocolVersion, clientKeepAlive, accepting, reporting>>
    BY <1>7 DEF ReadError
  <2> QED
    BY <2>1, CloseIInv
<1>8. CASE ReadDisconnect
  BY <1>8 DEF ReadDisconnect, Receive, Cleanup, StopKeepalive, pending
<1>9. CASE Disconnect
  BY <1>9, CloseIInv DEF Disconnect
<1>10. CASE Reset
  BY <1>10 DEF Reset, StopKeepalive, clocks, pending
<1>11. CASE CheckActivity
  BY <1>11 DEF CheckActivity, session, clocks, pending
<1>12. CASE KeepAliveTimeout
  BY <1>12, CloseIInv DEF KeepAliveTimeout
<1>13. CASE FinishClosing
  BY <1>13 DEF FinishClosing, Cleanup, StopKeepalive, clocks
<1>14. CASE FinishProtocolError
  BY <1>14 DEF FinishProtocolError, Cleanup, StopKeepalive, clocks
<1>15. CASE UNCHANGED vars
  BY <1>15 DEF vars, session, clocks, timer, pending
<1> QED
  BY <1>1, <1>2, <1>3, <1>4, <1>5, <1>6, <1>7, <1>8, <1>9, <1>10, <1>11, <1>12, <1>13,
     <1>14, <1>15 DEF Next, Activity

\* The invariant holds throughout.
LEMMA InvariantIInv == Spec => []IInv
<1>1. Init => IInv
  BY InitIInv
<1>2. IInv /\ [Next]_vars => IInv'
  BY NextIInv
<1> QED
  BY <1>1, <1>2, PTL DEF Spec

-----------------------------------------------------------------------------

\* The clocks, the timer and the pending calls stay in range; the time until the callback is
\* never more than an interval and never later than the event loop may be.
THEOREM KeepAliveTypeCorrect == Spec => []TypeOK
<1>1. IInv => TypeOK
  BY DEF IInv
<1> QED
  BY <1>1, InvariantIInv, PTL

\* For every keep alive, multiplier and lateness, a session on which nothing moves is noticed
\* within a timeout, an interval and the lateness of a callback.
THEOREM SilenceIsNoticedInTime == Spec => []NoticedInTime
<1>1. IInv => NoticedInTime
  <2> SUFFICES ASSUME IInv, state = "connected", clientKeepAlive # 0
               PROVE  Running /\ elapsed < Timeout + Interval + Lateness
    BY DEF NoticedInTime
  <2>1. /\ Running /\ elapsed + due < Timeout + Interval
        /\ due \in Int /\ due >= -Lateness /\ elapsed \in Int /\ Lateness \in Nat
    BY Ranges DEF IInv, TypeOK, TimerRuns, InTime, Interval
  <2>2. Timeout \in Nat /\ Interval \in Nat
    BY TimeoutPositive DEF IInv
  <2> QED
    BY <2>1, <2>2
<1> QED
  BY <1>1, InvariantIInv, PTL

\* A keepalive timeout is never declared on a client that sent something within the timeout.
THEOREM NoTimeoutIsEarly == Spec => NoEarlyTimeout
<1>1. IInv /\ [Next]_vars => [KeepAliveTimeout => silence >= Timeout]_vars
  <2> SUFFICES ASSUME IInv, KeepAliveTimeout
               PROVE  silence >= Timeout
    OBVIOUS
  <2>1. elapsed >= Timeout /\ elapsed <= silence /\ elapsed \in Int /\ silence \in Int
    BY DEF KeepAliveTimeout, IInv, HeardIsActivity, TypeOK
  <2>2. Timeout \in Nat
    BY TimeoutPositive DEF IInv
  <2> QED
    BY <2>1, <2>2
<1> QED
  BY <1>1, InvariantIInv, PTL DEF Spec, NoEarlyTimeout
=============================================================================
