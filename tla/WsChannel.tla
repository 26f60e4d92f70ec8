----------------------------- MODULE WsChannel -----------------------------
(***************************************************************************)
(* The agent's push channel (apps/agent/src/cp/ws.rs): a task that keeps a *)
(* WebSocket session to the control plane, and decides from its failures   *)
(* whether the control loop may rely on pushes (ws mode) or must poll.     *)
(*                                                                         *)
(* Timers are counted down by the clock of module AgentLink.  A connection *)
(* attempt may take any time.  `wsFailures` holds the ages of recorded     *)
(* failures: two are never recorded at one instant, since every failure is *)
(* followed by a sleep of at least one unit.                               *)
(***************************************************************************)
EXTENDS Integers, Sequences, FiniteSets

CONSTANTS
    Window,         \* FAILURE_WINDOW
    Threshold,      \* FAILURE_THRESHOLD
    BackoffMin,     \* BACKOFF_MIN
    BackoffMax,     \* BACKOFF_MAX
    Heartbeat,      \* the heartbeat interval; the watchdog is twice that
    ProbeInterval,  \* attempts while demoted
    QueueBound      \* bound on the events waiting for the control loop

ASSUME WsAssumption ==
    /\ Window \in Nat \ {0} /\ Threshold \in Nat \ {0}
    /\ BackoffMin \in Nat \ {0} /\ BackoffMax \in Nat /\ BackoffMin <= BackoffMax
    /\ Heartbeat \in Nat \ {0} /\ ProbeInterval \in Nat \ {0}
    /\ QueueBound \in Nat /\ QueueBound >= 2

VARIABLES
    wsMode,     \* ws_mode : TRUE in ws mode
    phase,      \* what the task does: "connecting", "session", "sleeping"
    pause,      \* sleeping: time to the next attempt
    wsFailures, \* failures : ages of those in the window
    retry,      \* backoff of the next attempt in ws mode
    beat,       \* session: time to the next heartbeat
    watchdog,   \* session: time to the watchdog
    peer,       \* session: the other end still holds the socket
    queue       \* events for the control loop

wsVars == <<wsMode, phase, pause, wsFailures, retry, beat, watchdog, peer, queue>>

Event == {"connected", "config_changed", "mode_changed", "restart_service"}

Lesser(a, b) == IF a < b THEN a ELSE b

WsInit ==
    /\ wsMode = TRUE
    /\ phase = "connecting"
    /\ pause = 0
    /\ wsFailures = {}
    /\ retry = BackoffMin
    /\ beat = 0
    /\ watchdog = 0
    /\ peer = FALSE
    /\ queue = <<>>

Demoted(fs) == Cardinality(fs) >= Threshold

\* An event waits for room in the queue.
HasRoom(n) == Len(queue) + n <= QueueBound

\* A mode change that is not announced.
AnnounceNothing(mode) == <<>>

\* A change of mode is announced to the control loop.
Announce(mode) == IF mode # wsMode THEN <<"mode_changed">> ELSE <<>>

\* A failure is recorded, the mode follows from the window, and the task
\* sleeps: the fixed probe interval while demoted, else the doubling backoff.
RecordFailure ==
    LET fs   == wsFailures \cup {0}
        mode == ~Demoted(fs)
    IN  /\ HasRoom(1)
        /\ wsFailures' = fs
        /\ wsMode' = mode
        /\ queue' = queue \o Announce(mode)
        /\ phase' = "sleeping"
        /\ pause' = IF mode THEN retry ELSE ProbeInterval
        /\ retry' = IF mode THEN Lesser(2 * retry, BackoffMax) ELSE retry
        /\ beat' = 0 /\ watchdog' = 0 /\ peer' = FALSE

\* The handshake succeeds, and nobody is told.
ConnectSilently ==
    /\ phase = "connecting" /\ HasRoom(2)
    /\ wsFailures' = {}
    /\ wsMode' = TRUE
    /\ queue' = queue \o Announce(TRUE)
    /\ phase' = "session"
    /\ beat' = 0 /\ watchdog' = 2 * Heartbeat /\ peer' = TRUE
    /\ UNCHANGED <<pause, retry>>

\* The handshake succeeds: failures are cleared, the channel is promoted at
\* once, and the control loop is told to poll.
Connect ==
    /\ phase = "connecting" /\ HasRoom(2)
    /\ wsFailures' = {}
    /\ wsMode' = TRUE
    /\ queue' = queue \o Announce(TRUE) \o <<"connected">>
    /\ phase' = "session"
    /\ beat' = 0 /\ watchdog' = 2 * Heartbeat /\ peer' = TRUE
    /\ UNCHANGED <<pause, retry>>

ConnectRefused ==
    /\ phase = "connecting"
    /\ RecordFailure

\* Time for the next attempt.
Reconnect ==
    /\ phase = "sleeping" /\ pause = 0
    /\ phase' = "connecting"
    /\ UNCHANGED <<wsMode, pause, wsFailures, retry, beat, watchdog, peer, queue>>

\* The heartbeat goes out; the watchdog's sleep is created anew with every
\* turn of the loop, this one included.
Beat ==
    /\ phase = "session" /\ beat = 0
    /\ beat' = Heartbeat
    /\ watchdog' = 2 * Heartbeat
    /\ UNCHANGED <<wsMode, phase, pause, wsFailures, retry, peer, queue>>

\* A pong, or any frame that carries no event.
IdleFrame ==
    /\ phase = "session" /\ peer
    /\ watchdog' = 2 * Heartbeat
    /\ UNCHANGED <<wsMode, phase, pause, wsFailures, retry, beat, peer, queue>>

\* A restart directive.
RestartFrame ==
    /\ phase = "session" /\ peer /\ HasRoom(1)
    /\ queue' = Append(queue, "restart_service")
    /\ watchdog' = 2 * Heartbeat
    /\ UNCHANGED <<wsMode, phase, pause, wsFailures, retry, beat, peer>>

\* A config_changed broadcast arrives.
ConfigFrame ==
    /\ phase = "session" /\ peer /\ HasRoom(1)
    /\ queue' = Append(queue, "config_changed")
    /\ watchdog' = 2 * Heartbeat
    /\ UNCHANGED <<wsMode, phase, pause, wsFailures, retry, beat, peer>>

\* The other end is gone without a close frame reaching the agent.
PeerVanishes ==
    /\ phase = "session" /\ peer
    /\ peer' = FALSE
    /\ UNCHANGED <<wsMode, phase, pause, wsFailures, retry, beat, watchdog, queue>>

\* A close frame, or the end of the stream.
SessionCloses ==
    /\ phase = "session" /\ peer
    /\ RecordFailure

\* The transport of a dead socket reports an error, or the watchdog trips.
SessionFails ==
    /\ phase = "session"
    /\ ~peer \/ watchdog = 0
    /\ RecordFailure

\* Failures age, and leave the window.  An age of exactly Window is outside:
\* an attempt takes some time on top of the sleeps between two failures.
AgedForever(fs) == {a + 1 : a \in fs}

Aged(fs) == {a + 1 : a \in {x \in fs : x + 1 < Window}}

CountDown(t) == IF t = 0 THEN 0 ELSE t - 1

\* Nothing of the channel is due now.
WsIdle ==
    /\ phase = "sleeping" => pause > 0
    /\ phase = "session" => beat > 0 /\ watchdog > 0

WsTick ==
    /\ pause' = CountDown(pause)
    /\ beat' = CountDown(beat)
    /\ watchdog' = CountDown(watchdog)
    /\ wsFailures' = Aged(wsFailures)
    /\ UNCHANGED <<wsMode, phase, retry, peer, queue>>

WsTypeOK ==
    /\ wsMode \in BOOLEAN
    /\ phase \in {"connecting", "session", "sleeping"}
    /\ pause \in 0 .. (BackoffMax + ProbeInterval)
    /\ wsFailures \in SUBSET (0 .. Window - 1)
    /\ retry \in BackoffMin .. BackoffMax
    /\ beat \in 0 .. Heartbeat
    /\ watchdog \in 0 .. 2 * Heartbeat
    /\ peer \in BOOLEAN
    /\ queue \in Seq(Event) /\ Len(queue) <= QueueBound
=============================================================================
