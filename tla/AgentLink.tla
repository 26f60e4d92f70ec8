----------------------------- MODULE AgentLink -----------------------------
(***************************************************************************)
(* The agent's control loop next to its push channel: when the agent asks  *)
(* the control plane for its configuration (apps/agent/src/control.rs,     *)
(* Control::run, with cp/ws.rs in module WsChannel).                       *)
(*                                                                         *)
(* The loop waits for three things at once: its poll timer, the heartbeat  *)
(* tick, and an event of the channel.  The timer is created anew at every  *)
(* turn, whatever ended the last one.  Requests take any time; `unseen`    *)
(* says that the configuration has changed since the last one the agent    *)
(* was sent.                                                               *)
(*                                                                         *)
(* The server stores a change first and pushes it later, in a call to the  *)
(* node's NodePushDO that nobody retries (services/notify.ts): `calls` are *)
(* still to be made, `broadcasts` are under way on the socket.  A call     *)
(* that fails, or a send that throws, is swallowed.                        *)
(***************************************************************************)
EXTENDS WsChannel

CONSTANTS
    PollInterval,   \* cfg.poll_interval
    SafetyNet,      \* SAFETY_NET_INTERVAL
    MaxBackoff,     \* MAX_BACKOFF
    MaxPushes       \* bound on pushes under way

ASSUME LoopAssumption ==
    /\ PollInterval \in Nat \ {0} /\ SafetyNet \in Nat \ {0} /\ MaxBackoff \in Nat \ {0}
    /\ MaxPushes \in Nat

VARIABLES
    loop,       \* "waiting", "fetching", "applying", "beating"
    wait,       \* waiting: time to the next poll
    tick,       \* time to the next heartbeat tick of the loop
    backoff,    \* 0, or the backoff after failed polls
    unseen,     \* the agent has not been sent the newest configuration
    calls,      \* changes that are stored and not yet pushed
    broadcasts, \* config_changed on its way through the session
    dropped,    \* history: the push of an unseen change is lost, and none has been sent since
    idle        \* history: time spent waiting since the last poll

pushVars == <<calls, broadcasts, dropped>>
loopVars == <<loop, wait, tick, backoff, unseen, idle>>
linkVars == <<wsVars, loopVars, pushVars>>

\* jittered: a fifth more or less.
Jittered(b) == {w \in 1 .. 2 * b : 8 * b <= 10 * w /\ 10 * w <= 12 * b}

Greater(a, b) == IF a < b THEN b ELSE a

\* The poll interval comes from the environment and may exceed the others.
LongestBackoff == Greater(PollInterval, MaxBackoff)
LongestWait == (12 * Greater(SafetyNet, LongestBackoff)) \div 10

\* What the loop may wait before it polls, given its backoff.
Waits(b) ==
    IF b > 0 THEN Jittered(b) ELSE {IF wsMode THEN SafetyNet ELSE PollInterval}

Rearm(b) == loop' = "waiting" /\ wait' \in Waits(b)

StartPoll == loop' = "fetching" /\ wait' = 0 /\ idle' = 0

Grown(b) == IF b = 0 THEN PollInterval ELSE Lesser(2 * b, MaxBackoff)

LinkInit ==
    /\ WsInit
    /\ loop = "waiting"
    /\ wait = SafetyNet
    /\ tick = Heartbeat
    /\ backoff = 0
    /\ unseen \in BOOLEAN
    /\ calls = 0 /\ broadcasts = 0 /\ dropped = FALSE
    /\ idle = 0

\* The poll timer elapses.
TimerElapses ==
    /\ loop = "waiting" /\ wait = 0
    /\ StartPoll
    /\ UNCHANGED <<wsVars, tick, backoff, unseen, pushVars>>

\* The heartbeat tick: a request in poll mode, nothing in ws mode.  Either
\* way the loop turns and its timer starts again.
HeartbeatTick ==
    /\ loop = "waiting" /\ tick = 0
    /\ tick' = Heartbeat
    /\ IF wsMode THEN Rearm(backoff) ELSE loop' = "beating" /\ wait' = 0
    /\ UNCHANGED <<wsVars, backoff, unseen, pushVars, idle>>

HeartbeatSent ==
    /\ loop = "beating"
    /\ Rearm(backoff)
    /\ UNCHANGED <<wsVars, tick, backoff, unseen, pushVars, idle>>

TakeEvent == loop = "waiting" /\ queue # <<>> /\ queue' = Tail(queue)

\* Connected and config_changed: poll at once.
WakeToPoll ==
    /\ TakeEvent
    /\ Head(queue) \in {"connected", "config_changed"}
    /\ StartPoll
    /\ UNCHANGED <<wsMode, phase, pause, wsFailures, retry, beat, watchdog, peer>>
    /\ UNCHANGED <<tick, backoff, unseen, pushVars>>

\* A mode change, or a restart directive passed to the supervisor: the wait
\* is chosen anew.
WakeToRearm ==
    /\ TakeEvent
    /\ Head(queue) \in {"mode_changed", "restart_service"}
    /\ Rearm(backoff)
    /\ UNCHANGED <<wsMode, phase, pause, wsFailures, retry, beat, watchdog, peer>>
    /\ UNCHANGED <<tick, backoff, unseen, pushVars, idle>>

\* GET /config is answered: 304, or the newest configuration.
FetchAnswered ==
    /\ loop = "fetching"
    /\ unseen' = FALSE /\ dropped' = FALSE
    /\ loop' = "applying"
    /\ UNCHANGED <<wsVars, wait, tick, backoff, calls, broadcasts, idle>>

\* It fails, or its answer is lost: the backoff grows.
FetchFails ==
    /\ loop = "fetching"
    /\ backoff' = Grown(backoff)
    /\ Rearm(backoff')
    /\ UNCHANGED <<wsVars, tick, unseen, pushVars, idle>>

\* Applied, refused or unchanged: the backoff is reset.
PollEnds ==
    /\ loop = "applying"
    /\ backoff' = 0
    /\ Rearm(0)
    /\ UNCHANGED <<wsVars, tick, unseen, pushVars, idle>>

-----------------------------------------------------------------------------
\* The socket of a session that both ends hold.
Live == phase = "session" /\ peer

\* A recomputation stores a changed configuration of the node and goes on to notify.
ConfigChanges ==
    /\ calls + broadcasts < MaxPushes
    /\ unseen' = TRUE
    /\ calls' = calls + 1
    /\ UNCHANGED <<wsVars, loop, wait, tick, backoff, broadcasts, dropped, idle>>

\* The call reaches the node's object, which sends on its live socket, if any.
PushSent ==
    /\ calls > 0 /\ calls' = calls - 1
    /\ broadcasts' = broadcasts + (IF Live THEN 1 ELSE 0)
    /\ dropped' = (dropped /\ ~Live)
    /\ UNCHANGED <<wsVars, loopVars>>

\* The worker stops before the call, the call fails, or the send throws: nobody hears of it.
PushFails ==
    /\ calls > 0 /\ calls' = calls - 1
    /\ dropped' = (dropped \/ (unseen /\ Live))
    /\ UNCHANGED <<wsVars, loopVars, broadcasts>>

Notifies == PushSent \/ PushFails

\* A broadcast arrives.
Deliver ==
    /\ broadcasts > 0
    /\ ConfigFrame
    /\ broadcasts' = broadcasts - 1
    /\ UNCHANGED <<loopVars, calls, dropped>>

\* The channel's own steps.  A session that ends, or a socket that dies,
\* takes the broadcasts with it.
OnItsOwn ==
    /\ broadcasts' = IF peer' THEN broadcasts ELSE 0
    /\ UNCHANGED <<loopVars, calls, dropped>>

ConnectEnds == (Connect \/ ConnectRefused) /\ OnItsOwn
Due == (Reconnect \/ Beat) /\ OnItsOwn
SocketDies == SessionFails /\ OnItsOwn
Remote == (IdleFrame \/ RestartFrame \/ PeerVanishes \/ SessionCloses) /\ OnItsOwn

\* Time passes when nothing is due; requests may take any time.
Tick ==
    /\ WsIdle
    /\ loop = "waiting" => wait > 0 /\ tick > 0 /\ queue = <<>>
    /\ WsTick
    /\ wait' = CountDown(wait)
    /\ tick' = CountDown(tick)
    /\ idle' = IF loop = "waiting" THEN Lesser(idle + 1, LongestWait + 1) ELSE idle
    /\ UNCHANGED <<loop, backoff, unseen, pushVars>>

Loop ==
    \/ TimerElapses
    \/ HeartbeatTick
    \/ HeartbeatSent
    \/ WakeToPoll
    \/ WakeToRearm
    \/ FetchAnswered
    \/ FetchFails
    \/ PollEnds

LinkNext ==
    \/ Loop
    \/ ConnectEnds
    \/ Due
    \/ SocketDies
    \/ Remote
    \/ ConfigChanges
    \/ PushSent
    \/ PushFails
    \/ Deliver
    \/ Tick

\* The runtime keeps every task going and its clock running; what a worker still
\* has to call is called, or the worker has died; an attempt to
\* connect ends, a dead socket reports an error in the end (retransmissions
\* give up), and a socket delivers what was sent on it, in order.
Fairness ==
    /\ WF_linkVars(Loop)
    /\ WF_linkVars(Tick)
    /\ WF_linkVars(ConnectEnds)
    /\ WF_linkVars(Due)
    /\ WF_linkVars(SocketDies)
    /\ WF_linkVars(Notifies)
    /\ SF_linkVars(Deliver)

LinkSpec == LinkInit /\ [][LinkNext]_linkVars
FairSpec == LinkSpec /\ Fairness

-----------------------------------------------------------------------------
LinkTypeOK ==
    /\ WsTypeOK
    /\ loop \in {"waiting", "fetching", "applying", "beating"}
    /\ wait \in 0 .. LongestWait
    /\ tick \in 0 .. Heartbeat
    /\ backoff \in 0 .. LongestBackoff
    /\ unseen \in BOOLEAN
    /\ calls \in Nat /\ broadcasts \in Nat /\ calls + broadcasts <= MaxPushes
    /\ dropped \in BOOLEAN
    /\ idle \in 0 .. LongestWait + 1

Queued(e) == \E i \in 1 .. Len(queue) : queue[i] = e

\* A demoted channel has the loop poll at the short interval: once the
\* announcement of the mode is taken, a loop without backoff never waits
\* longer than that.
DemotedPollsOften ==
    loop = "waiting" /\ ~wsMode /\ backoff = 0 /\ ~Queued("mode_changed") =>
        wait <= PollInterval

\* A change the agent has not been sent has something that will make it ask: a
\* push to come or under way, an event or a poll to come, or a channel that is
\* not connected and will announce its next session.  The broadcasts of a
\* disconnected window are lost, and this is why every session starts with a
\* poll (ws.rs, comment on Connected).  The one gap is a push that was dropped
\* while the session was up (notify.ts, nodePush.ts): until the next one is sent
\* or the session breaks, only the safety net is left.
UnseenIsCovered ==
    unseen =>
       \/ calls > 0 \/ broadcasts > 0
       \/ Queued("connected") \/ Queued("config_changed")
       \/ loop = "fetching"
       \/ backoff > 0
       \/ ~Live
       \/ dropped

\* While no poll fails and the channel keeps coming back, however often its
\* sessions break, the agent is sent every change in the end, unless a push is
\* dropped and none is ever sent after it.
ChangesAreSeen == [](backoff = 0) /\ []<>(phase = "session") /\ []<>(~dropped) => []<>(~unseen)

\* The poll is a safety net (control.rs:3-4): the loop never waits longer than
\* its longest interval without asking.
SafetyNetHolds == idle <= LongestWait
=============================================================================
