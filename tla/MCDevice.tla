------------------------------ MODULE MCDevice ------------------------------
(* TLC instance of Device: symmetry, and a budget of disturbances. *)
EXTENDS Device, TLC

CONSTANTS
    Disturbances,   \* how often the world may interfere in a run
    Registered,     \* does the device have an identity at power-on? (a set)
    KeyHeld         \* is the key held at power-on? (a set)

VARIABLE budget

Symmetry == Permutations(Conns)

Calm ==
    \/ LedTick \/ GasTick \/ Smartconfig \/ StationUp
    \/ DnsFound \/ HttpConnected \/ HttpResultOk
    \/ \E c \in Conns : WsConnected(c) \/ WsUpgraded(c)
    \/ \E c \in Conns : conn[c] = "closing" /\ WsDisconnected(c)
    \/ \E f \in Acks : WsFrame(f)

Disturbance ==
    \/ LongPress \/ ShortPresses \/ StationDown \/ DnsFailed \/ HttpGone
    \/ \E c \in Conns : conn[c] # "closing" /\ WsDisconnected(c)
    \/ \E c \in Conns : WsError(c)
    \/ \E f \in AppCommands : WsFrame(f)

MCInit == /\ Init
          /\ registered \in Registered
          /\ (SensorMode = "Test1") \in KeyHeld
          /\ budget = Disturbances
MCNext == \/ Calm /\ UNCHANGED budget
          \/ budget > 0 /\ Disturbance /\ budget' = budget - 1
MCSpec == MCInit /\ [][MCNext]_<<vars, budget>>

\* Only the device's own timers are fair.
MCFairSpec == MCSpec /\ Timers

\* Once undisturbed, the network and the server answer, and so does the
\* SmartConfig library.
MCGoodNetworkSpec ==
    /\ MCFairSpec
    /\ WF_vars(StationUp) /\ WF_vars(DnsFound) /\ WF_vars(ScLinkOver)
    /\ \A c \in Conns : /\ WF_vars(WsConnected(c)) /\ WF_vars(WsUpgraded(c))
                        /\ WF_vars(conn[c] = "closing" /\ WsDisconnected(c))
    /\ \A f \in Acks : WF_vars(WsFrame(f))

\* A device that was provisioned since power-on and is not being provisioned
\* again gets its session back once nothing disturbs it any more.
EventuallyOnline ==
    budget = 0 /\ "BIT_HASNET" \in Status /\ station # "off" /\ Mode # "Config"
      ~> WebSocketOK /\ SomeUpgraded

-----------------------------------------------------------------------------
(* What comments of the code say and the code does not do.                  *)

\* networking.c, line 132, of BIT_HASNET: "if the network has ever been
\* connected, reconnect".  A device whose server has been looked up has been
\* on the network, however it got its credentials.
ReconnectsIfEverConnected ==
    Mode = "Nomal" /\ ~WebSocketOK /\ tcp_server_ip ~> Mode # "Nomal" \/ WebSocketOK

=============================================================================
