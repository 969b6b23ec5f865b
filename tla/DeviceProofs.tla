---------------------------- MODULE DeviceProofs ----------------------------
(***************************************************************************)
(* Theorems about Device, for every value of its constants: type            *)
(* correctness and the safety properties the runs check on small instances, *)
(* each from an inductive invariant: the property itself where it is        *)
(* inductive, a strengthening of it where it is not.                        *)
(***************************************************************************)
EXTENDS Device, TLAPS

USE CountersAssumption, EnvironmentAssumption

-----------------------------------------------------------------------------
(* Type correctness, one part of TypeOK at a time.                          *)

LEMMA TypeInit == Init => TypeOK
<1>. SUFFICES ASSUME Init PROVE TypeOK
  OBVIOUS
<1>1. ModeTypeOK
  BY DEF Init, ModeTypeOK, Modes, SubModes, SensorModes
<1>2. FlagTypeOK
  BY DEF Init, FlagTypeOK
<1>3. TimeTypeOK
  BY DEF Init, TimeTypeOK
<1>4. SessionTypeOK
  BY DEF Init, SessionTypeOK, Commands
<1>5. NetworkTypeOK
  BY DEF Init, NetworkTypeOK, ConnStates
<1>. QED BY <1>1, <1>2, <1>3, <1>4, <1>5 DEF TypeOK

LEMMA ModeType == TypeOK /\ [Next]_vars => ModeTypeOK'
<1>. SUFFICES ASSUME TypeOK, [Next]_vars PROVE ModeTypeOK'
  OBVIOUS
<1>. USE DEF TypeOK, ModeTypeOK, Modes, SubModes, SensorModes, ctl
<1>1. CASE LedTick
  <2>1. CASE LedTimeout
    BY <2>1 DEF LedTimeout, LedUnchanged, CountTime
  <2>2. CASE LedDispatch
    BY <2>2 DEF LedDispatch, LedQuiet, CanLed, Lagged, LedUnchanged
  <2>3. CASE LedTest1Join
    BY <2>3 DEF LedTest1Join, LedQuiet, CanLed, Lagged, LedUnchanged
  <2>4. CASE LedTest1Lookup
    BY <2>4 DEF LedTest1Lookup, LedQuiet, CanLed, Lagged, LedUnchanged
  <2>5. CASE LedTest1Verdict
    BY <2>5 DEF LedTest1Verdict, LedQuiet, CanLed, Lagged, LedUnchanged
  <2>. QED BY <1>1, <2>1, <2>2, <2>3, <2>4, <2>5 DEF LedTick
<1>2. CASE GasTick
  <2>1. CASE GasInit
    BY <2>1 DEF GasInit, GasUnchanged
  <2>2. CASE GasBias
    BY <2>2 DEF GasBias, GasUnchanged
  <2>3. CASE GasCreateSession
    BY <2>3 DEF GasCreateSession, GasUnchanged
  <2>4. CASE GasConfig
    BY <2>4 DEF GasConfig, GasUnchanged
  <2>5. CASE GasHangUp
    BY <2>5 DEF GasHangUp, GasUnchanged, HangUp
  <2>6. CASE GasLoggedIn
    BY <2>6 DEF GasLoggedIn, GasUnchanged, MonitorRuns
  <2>7. CASE GasLoggingIn
    BY <2>7 DEF GasLoggingIn, GasUnchanged, MonitorRuns, HangUp
  <2>8. CASE GasOffline
    BY <2>8 DEF GasOffline, GasUnchanged
  <2>. QED BY <1>2, <2>1, <2>2, <2>3, <2>4, <2>5, <2>6, <2>7, <2>8 DEF GasTick
<1>3. CASE Smartconfig
  <2>1. CASE ScGettingSsid
    BY <2>1 DEF ScGettingSsid, ScUnchanged
  <2>2. CASE ScLink
    BY <2>2 DEF ScLink, ScUnchanged
  <2>3. CASE ScLinkOver
    BY <2>3 DEF ScLinkOver, ScUnchanged
  <2>. QED BY <1>3, <2>1, <2>2, <2>3 DEF Smartconfig
<1>4. CASE Callback
  <2>1. CASE DnsFound
    BY <2>1 DEF DnsFound, NoControl, CbUnchanged
  <2>2. CASE DnsFailed
    BY <2>2 DEF DnsFailed, NoControl, CbUnchanged
  <2>3. CASE HttpConnected
    BY <2>3 DEF HttpConnected, NoControl, CbUnchanged
  <2>4. CASE HttpResultOk
    BY <2>4 DEF HttpResultOk, NoControl, CbUnchanged
  <2>5. CASE HttpGone
    BY <2>5 DEF HttpGone, NoControl, CbUnchanged
  <2>6. ASSUME NEW c \in Conns, WsConnected(c) PROVE ModeTypeOK'
    BY <2>6 DEF WsConnected, NoControl, CbUnchanged
  <2>7. ASSUME NEW c \in Conns, WsUpgraded(c) PROVE ModeTypeOK'
    BY <2>7 DEF WsUpgraded, NoControl, CbUnchanged
  <2>8. ASSUME NEW c \in Conns, WsDisconnected(c) PROVE ModeTypeOK'
    BY <2>8 DEF WsDisconnected, NoControl, CbUnchanged
  <2>9. ASSUME NEW c \in Conns, WsError(c) PROVE ModeTypeOK'
    BY <2>9 DEF WsError, NoControl, CbUnchanged
  <2>10. ASSUME NEW f \in Acks \cup AppCommands, WsFrame(f) PROVE ModeTypeOK'
    BY <2>10 DEF WsFrame, NoControl, CbUnchanged
  <2>. QED BY <1>4, <2>1, <2>2, <2>3, <2>4, <2>5, <2>6, <2>7, <2>8, <2>9, <2>10 DEF Callback
<1>5. CASE World
  <2>1. CASE LongPress
    BY <2>1 DEF LongPress, CbUnchanged
  <2>2. CASE ShortPresses
    BY <2>2 DEF ShortPresses, CbUnchanged
  <2>3. CASE StationUp
    BY <2>3 DEF StationUp, CbUnchanged
  <2>4. CASE StationDown
    BY <2>4 DEF StationDown, CbUnchanged
  <2>. QED BY <1>5, <2>1, <2>2, <2>3, <2>4 DEF World
<1>6. CASE UNCHANGED vars
  BY <1>6 DEF vars
<1>. QED BY <1>1, <1>2, <1>3, <1>4, <1>5, <1>6 DEF Next

LEMMA FlagType == TypeOK /\ [Next]_vars => FlagTypeOK'
<1>. SUFFICES ASSUME TypeOK, [Next]_vars PROVE FlagTypeOK'
  OBVIOUS
<1>. USE DEF TypeOK, FlagTypeOK, ctl, slot, tcp
<1>1. CASE LedTick
  <2>1. CASE LedTimeout
    BY <2>1 DEF LedTimeout, LedUnchanged, CountTime, RearmGasMain
  <2>2. CASE LedDispatch
    BY <2>2 DEF LedDispatch, LedQuiet, CanLed, Lagged, LedUnchanged
  <2>3. CASE LedTest1Join
    BY <2>3 DEF LedTest1Join, LedQuiet, CanLed, Lagged, LedUnchanged
  <2>4. CASE LedTest1Lookup
    BY <2>4 DEF LedTest1Lookup, LedQuiet, CanLed, Lagged, LedUnchanged, CheckIpStart
  <2>5. CASE LedTest1Verdict
    BY <2>5 DEF LedTest1Verdict, LedQuiet, CanLed, Lagged, LedUnchanged
  <2>. QED BY <1>1, <2>1, <2>2, <2>3, <2>4, <2>5 DEF LedTick
<1>2. CASE GasTick
  <2>1. CASE GasInit
    BY <2>1 DEF GasInit, GasUnchanged
  <2>2. CASE GasBias
    BY <2>2 DEF GasBias, GasUnchanged
  <2>3. CASE GasCreateSession
    BY <2>3 DEF GasCreateSession, GasUnchanged, CheckIpStart
  <2>4. CASE GasConfig
    BY <2>4 DEF GasConfig, GasUnchanged
  <2>5. CASE GasHangUp
    BY <2>5 DEF GasHangUp, GasUnchanged, HangUp
  <2>6. CASE GasLoggedIn
    BY <2>6 DEF GasLoggedIn, GasUnchanged, MonitorRuns, MonitorEffect, Registers
  <2>7. CASE GasLoggingIn
    BY <2>7 DEF GasLoggingIn, GasUnchanged, MonitorRuns, MonitorEffect, Registers, HangUp
  <2>8. CASE GasOffline
    BY <2>8 DEF GasOffline, GasUnchanged
  <2>. QED BY <1>2, <2>1, <2>2, <2>3, <2>4, <2>5, <2>6, <2>7, <2>8 DEF GasTick
<1>3. CASE Smartconfig
  <2>1. CASE ScGettingSsid
    BY <2>1 DEF ScGettingSsid, ScUnchanged
  <2>2. CASE ScLink
    BY <2>2 DEF ScLink, ScUnchanged, RearmGasMain
  <2>3. CASE ScLinkOver
    BY <2>3 DEF ScLinkOver, ScUnchanged
  <2>. QED BY <1>3, <2>1, <2>2, <2>3 DEF Smartconfig
<1>4. CASE Callback
  <2>1. CASE DnsFound
    BY <2>1 DEF DnsFound, NoControl, CbUnchanged
  <2>2. CASE DnsFailed
    BY <2>2 DEF DnsFailed, NoControl, CbUnchanged
  <2>3. CASE HttpConnected
    BY <2>3 DEF HttpConnected, NoControl, CbUnchanged
  <2>4. CASE HttpResultOk
    BY <2>4 DEF HttpResultOk, NoControl, CbUnchanged
  <2>5. CASE HttpGone
    BY <2>5 DEF HttpGone, NoControl, CbUnchanged
  <2>6. ASSUME NEW c \in Conns, WsConnected(c) PROVE FlagTypeOK'
    BY <2>6 DEF WsConnected, NoControl, CbUnchanged
  <2>7. ASSUME NEW c \in Conns, WsUpgraded(c) PROVE FlagTypeOK'
    BY <2>7 DEF WsUpgraded, NoControl, CbUnchanged
  <2>8. ASSUME NEW c \in Conns, WsDisconnected(c) PROVE FlagTypeOK'
    BY <2>8 DEF WsDisconnected, NoControl, CbUnchanged
  <2>9. ASSUME NEW c \in Conns, WsError(c) PROVE FlagTypeOK'
    BY <2>9 DEF WsError, NoControl, CbUnchanged
  <2>10. ASSUME NEW f \in Acks \cup AppCommands, WsFrame(f) PROVE FlagTypeOK'
    BY <2>10 DEF WsFrame, NoControl, CbUnchanged, Latches
  <2>. QED BY <1>4, <2>1, <2>2, <2>3, <2>4, <2>5, <2>6, <2>7, <2>8, <2>9, <2>10 DEF Callback
<1>5. CASE World
  <2>1. CASE LongPress
    BY <2>1 DEF LongPress, CbUnchanged
  <2>2. CASE ShortPresses
    BY <2>2 DEF ShortPresses, CbUnchanged
  <2>3. CASE StationUp
    BY <2>3 DEF StationUp, CbUnchanged
  <2>4. CASE StationDown
    BY <2>4 DEF StationDown, CbUnchanged
  <2>. QED BY <1>5, <2>1, <2>2, <2>3, <2>4 DEF World
<1>6. CASE UNCHANGED vars
  BY <1>6 DEF vars
<1>. QED BY <1>1, <1>2, <1>3, <1>4, <1>5, <1>6 DEF Next

\* The counters of time_calcu_cb stay below their limits.
LEMMA CountTimeTypes ==
  ASSUME TimeTypeOK, CountTime
  PROVE  /\ Cnt_second' \in 0..(UINT8 - 1)
         /\ Cnt_10second' \in 0..1
         /\ Cnt_Minite' \in 0..(CNT_MINITE - 1)
         /\ Cnt_Hour' \in 0..(CNT_HOUR - 1)
<1>1. (Cnt_second + 1) % UINT8 \in 0..(UINT8 - 1)
  BY DEF TimeTypeOK
<1>2. Cnt_second' \in 0..(UINT8 - 1)
  BY <1>1 DEF CountTime, TimeTypeOK
<1>3. Cnt_10second' \in 0..1
  BY DEF TimeTypeOK, CountTime, Fire30s
<1>4. Cnt_Minite' \in 0..(CNT_MINITE - 1) /\ Cnt_Hour' \in 0..(CNT_HOUR - 1)
  BY DEF TimeTypeOK, CountTime, MinuteOver, HourOver
<1>. QED BY <1>2, <1>3, <1>4

\* What one call of the monitor leaves in the watchdog.
LEMMA MonitorWatchdog ==
  ASSUME TimeTypeOK, ~WatchdogExpired
  PROVE  MonitorEffect.Cnt_ERROR \in Nat
  BY DEF MonitorEffect, TimeTypeOK, WatchdogExpired

LEMMA TimeType == TypeOK /\ [Next]_vars => TimeTypeOK'
<1>. SUFFICES ASSUME TypeOK, [Next]_vars PROVE TimeTypeOK'
  OBVIOUS
<1>. USE DEF TypeOK, TimeTypeOK, boot, clock
<1>1. CASE LedTick
  <2>1. CASE LedTimeout
    <3>1. CountTime
      BY <2>1 DEF LedTimeout
    <3>. QED BY <2>1, <3>1, CountTimeTypes DEF LedTimeout, LedUnchanged, RearmGasMain
  <2>2. CASE LedDispatch
    <3>1. CountTime
      BY <2>2 DEF LedDispatch, LedQuiet
    <3>. QED BY <2>2, <3>1, CountTimeTypes DEF LedDispatch, LedUnchanged, LedQuiet, CanLed, Lagged
  <2>3. CASE LedTest1Join
    <3>1. CountTime
      BY <2>3 DEF LedTest1Join, LedQuiet
    <3>. QED BY <2>3, <3>1, CountTimeTypes DEF LedTest1Join, LedUnchanged, LedQuiet, CanLed, Lagged
  <2>4. CASE LedTest1Lookup
    <3>1. CountTime
      BY <2>4 DEF LedTest1Lookup, LedQuiet
    <3>. QED BY <2>4, <3>1, CountTimeTypes DEF LedTest1Lookup, LedUnchanged, LedQuiet, CanLed, Lagged
  <2>5. CASE LedTest1Verdict
    <3>1. CountTime
      BY <2>5 DEF LedTest1Verdict, LedQuiet
    <3>. QED BY <2>5, <3>1, CountTimeTypes DEF LedTest1Verdict, LedUnchanged, LedQuiet, CanLed, Lagged
  <2>. QED BY <1>1, <2>1, <2>2, <2>3, <2>4, <2>5 DEF LedTick
<1>2. CASE GasTick
  <2>1. CASE GasInit
    BY <2>1 DEF GasInit, GasUnchanged
  <2>2. CASE GasBias
    BY <2>2 DEF GasBias, GasUnchanged
  <2>3. CASE GasCreateSession
    BY <2>3 DEF GasCreateSession, GasUnchanged
  <2>4. CASE GasConfig
    BY <2>4 DEF GasConfig, GasUnchanged
  <2>5. CASE GasHangUp
    BY <2>5 DEF GasHangUp, GasUnchanged, HangUp, ClearBootCounters
  <2>6. CASE GasLoggedIn
    BY <2>6, MonitorWatchdog DEF GasLoggedIn, MonitorRuns
  <2>7. CASE GasLoggingIn
    <3>1. Cnt_Minite' \in 0..(CNT_MINITE - 1) /\ Cnt_Hour' = Cnt_Hour /\ lag' = 0
      BY <2>7 DEF GasLoggingIn, MonitorRuns
    <3>2. CASE HangUp
      BY <3>1, <3>2 DEF HangUp, ClearBootCounters
    <3>3. CASE Cnt_ERROR' = MonitorEffect.Cnt_ERROR - 1 /\ MonitorEffect.Cnt_ERROR > 0 /\ UNCHANGED boot
      BY <2>7, <3>1, <3>3, MonitorWatchdog DEF GasLoggingIn
    <3>. QED BY <2>7, <3>2, <3>3 DEF GasLoggingIn
  <2>8. CASE GasOffline
    BY <2>8 DEF GasOffline, GasUnchanged, ClearBootCounters
  <2>. QED BY <1>2, <2>1, <2>2, <2>3, <2>4, <2>5, <2>6, <2>7, <2>8 DEF GasTick
<1>3. CASE Smartconfig
  <2>1. CASE ScGettingSsid
    BY <2>1 DEF ScGettingSsid, ScUnchanged
  <2>2. CASE ScLink
    BY <2>2 DEF ScLink, ScUnchanged, RearmGasMain
  <2>3. CASE ScLinkOver
    BY <2>3 DEF ScLinkOver, ScUnchanged
  <2>. QED BY <1>3, <2>1, <2>2, <2>3 DEF Smartconfig
<1>4. CASE Callback
  <2>1. CASE DnsFound
    BY <2>1 DEF DnsFound, NoControl, CbUnchanged
  <2>2. CASE DnsFailed
    BY <2>2 DEF DnsFailed, NoControl, CbUnchanged
  <2>3. CASE HttpConnected
    BY <2>3 DEF HttpConnected, NoControl, CbUnchanged
  <2>4. CASE HttpResultOk
    BY <2>4 DEF HttpResultOk, NoControl, CbUnchanged
  <2>5. CASE HttpGone
    BY <2>5 DEF HttpGone, NoControl, CbUnchanged
  <2>6. ASSUME NEW c \in Conns, WsConnected(c) PROVE TimeTypeOK'
    BY <2>6 DEF WsConnected, NoControl, CbUnchanged
  <2>7. ASSUME NEW c \in Conns, WsUpgraded(c) PROVE TimeTypeOK'
    BY <2>7 DEF WsUpgraded, NoControl, CbUnchanged
  <2>8. ASSUME NEW c \in Conns, WsDisconnected(c) PROVE TimeTypeOK'
    BY <2>8 DEF WsDisconnected, NoControl, CbUnchanged, ClearBootCounters
  <2>9. ASSUME NEW c \in Conns, WsError(c) PROVE TimeTypeOK'
    BY <2>9 DEF WsError, NoControl, CbUnchanged
  <2>10. ASSUME NEW f \in Acks \cup AppCommands, WsFrame(f) PROVE TimeTypeOK'
    BY <2>10 DEF WsFrame, NoControl, CbUnchanged
  <2>. QED BY <1>4, <2>1, <2>2, <2>3, <2>4, <2>5, <2>6, <2>7, <2>8, <2>9, <2>10 DEF Callback
<1>5. CASE World
  <2>1. CASE LongPress
    BY <2>1 DEF LongPress, CbUnchanged
  <2>2. CASE ShortPresses
    BY <2>2 DEF ShortPresses, CbUnchanged
  <2>3. CASE StationUp
    BY <2>3 DEF StationUp, CbUnchanged
  <2>4. CASE StationDown
    BY <2>4 DEF StationDown, CbUnchanged
  <2>. QED BY <1>5, <2>1, <2>2, <2>3, <2>4 DEF World
<1>6. CASE UNCHANGED vars
  BY <1>6 DEF vars
<1>. QED BY <1>1, <1>2, <1>3, <1>4, <1>5, <1>6 DEF Next

\* What one call of the monitor leaves in the command slot and the status.
LEMMA MonitorTypes ==
  ASSUME SessionTypeOK
  PROVE  /\ MonitorEffect.command \in Commands
         /\ MonitorEffect.Status \subseteq {"BIT_HASNET", "BIT_LOGINOK"}
         /\ MonitorEffect.flag_Time \subseteq {"BIT_MINITE", "BIT_HOUR"}
         /\ MonitorEffect.owed \subseteq Acks
<1>1. Followup(command) \in {"none", "READGASACK", "LOGIN"}
  BY DEF Followup
<1>2. \A c \in DOMAIN AnswerTo : AnswerTo[c] \in Acks
  BY DEF AnswerTo, Acks
<1>. QED BY <1>1, <1>2 DEF MonitorEffect, SessionTypeOK, Commands

LEMMA SessionType == TypeOK /\ [Next]_vars => SessionTypeOK'
<1>. SUFFICES ASSUME TypeOK, [Next]_vars PROVE SessionTypeOK'
  OBVIOUS
<1>. USE DEF TypeOK, SessionTypeOK, boot, clock, slot
<1>1. CASE LedTick
  <2>1. CASE LedTimeout
    BY <2>1 DEF LedTimeout, LedUnchanged, CountTime, CountTime
  <2>2. CASE LedDispatch
    BY <2>2 DEF LedDispatch, LedQuiet, CanLed, Lagged, LedUnchanged, CountTime
  <2>3. CASE LedTest1Join
    BY <2>3 DEF LedTest1Join, LedQuiet, CanLed, Lagged, LedUnchanged, CountTime
  <2>4. CASE LedTest1Lookup
    BY <2>4 DEF LedTest1Lookup, LedQuiet, CanLed, Lagged, LedUnchanged, CountTime
  <2>5. CASE LedTest1Verdict
    BY <2>5 DEF LedTest1Verdict, LedQuiet, CanLed, Lagged, LedUnchanged, CountTime
  <2>. QED BY <1>1, <2>1, <2>2, <2>3, <2>4, <2>5 DEF LedTick
<1>2. CASE GasTick
  <2>1. CASE GasInit
    BY <2>1 DEF GasInit, GasUnchanged
  <2>2. CASE GasBias
    BY <2>2 DEF GasBias, GasUnchanged
  <2>3. CASE GasCreateSession
    BY <2>3 DEF GasCreateSession, GasUnchanged
  <2>4. CASE GasConfig
    BY <2>4 DEF GasConfig, GasUnchanged
  <2>5. CASE GasHangUp
    BY <2>5 DEF GasHangUp, GasUnchanged, HangUp, ClearBootCounters
  <2>6. CASE GasLoggedIn
    <3>1. PeriodicCommand(MonitorEffect) \in Commands
      BY MonitorTypes DEF PeriodicCommand, SetCommand, Commands
    <3>. QED BY <2>6, <3>1, MonitorTypes DEF GasLoggedIn, MonitorRuns
  <2>7. CASE GasLoggingIn
    BY <2>7, MonitorTypes DEF GasLoggingIn, MonitorRuns, HangUp, ClearBootCounters
  <2>8. CASE GasOffline
    BY <2>8 DEF GasOffline, GasUnchanged, ClearBootCounters
  <2>. QED BY <1>2, <2>1, <2>2, <2>3, <2>4, <2>5, <2>6, <2>7, <2>8 DEF GasTick
<1>3. CASE Smartconfig
  <2>1. CASE ScGettingSsid
    BY <2>1 DEF ScGettingSsid, ScUnchanged
  <2>2. CASE ScLink
    BY <2>2 DEF ScLink, ScUnchanged
  <2>3. CASE ScLinkOver
    BY <2>3 DEF ScLinkOver, ScUnchanged
  <2>. QED BY <1>3, <2>1, <2>2, <2>3 DEF Smartconfig
<1>4. CASE Callback
  <2>1. CASE DnsFound
    BY <2>1 DEF DnsFound, NoControl, CbUnchanged
  <2>2. CASE DnsFailed
    BY <2>2 DEF DnsFailed, NoControl, CbUnchanged
  <2>3. CASE HttpConnected
    BY <2>3 DEF HttpConnected, NoControl, CbUnchanged
  <2>4. CASE HttpResultOk
    BY <2>4 DEF HttpResultOk, NoControl, CbUnchanged
  <2>5. CASE HttpGone
    BY <2>5 DEF HttpGone, NoControl, CbUnchanged
  <2>6. ASSUME NEW c \in Conns, WsConnected(c) PROVE SessionTypeOK'
    BY <2>6 DEF WsConnected, NoControl, CbUnchanged
  <2>7. ASSUME NEW c \in Conns, WsUpgraded(c) PROVE SessionTypeOK'
    BY <2>7 DEF WsUpgraded, NoControl, CbUnchanged, FirstCommand, Commands
  <2>8. ASSUME NEW c \in Conns, WsDisconnected(c) PROVE SessionTypeOK'
    BY <2>8 DEF WsDisconnected, NoControl, CbUnchanged, ConnGone, ClearBootCounters
  <2>9. ASSUME NEW c \in Conns, WsError(c) PROVE SessionTypeOK'
    BY <2>9 DEF WsError, NoControl, CbUnchanged, ConnGone
  <2>10. ASSUME NEW f \in Acks \cup AppCommands, WsFrame(f) PROVE SessionTypeOK'
    BY <2>10 DEF WsFrame, NoControl, CbUnchanged, Latches, SetCommand, Commands, Acks
  <2>. QED BY <1>4, <2>1, <2>2, <2>3, <2>4, <2>5, <2>6, <2>7, <2>8, <2>9, <2>10 DEF Callback
<1>5. CASE World
  <2>1. CASE LongPress
    BY <2>1 DEF LongPress, CbUnchanged
  <2>2. CASE ShortPresses
    BY <2>2 DEF ShortPresses, CbUnchanged
  <2>3. CASE StationUp
    BY <2>3 DEF StationUp, CbUnchanged
  <2>4. CASE StationDown
    BY <2>4 DEF StationDown, CbUnchanged
  <2>. QED BY <1>5, <2>1, <2>2, <2>3, <2>4 DEF World
<1>6. CASE UNCHANGED vars
  BY <1>6 DEF vars
<1>. QED BY <1>1, <1>2, <1>3, <1>4, <1>5, <1>6 DEF Next

LEMMA NetworkType == TypeOK /\ [Next]_vars => NetworkTypeOK'
<1>. SUFFICES ASSUME TypeOK, [Next]_vars PROVE NetworkTypeOK'
  OBVIOUS
<1>. USE DEF TypeOK, NetworkTypeOK, net, tcp
<1>1. CASE LedTick
  <2>1. CASE LedTimeout
    BY <2>1 DEF LedTimeout, LedUnchanged, CountTime, SmartconfigStop
  <2>2. CASE LedDispatch
    BY <2>2 DEF LedDispatch, LedQuiet, CanLed, Lagged, LedUnchanged
  <2>3. CASE LedTest1Join
    BY <2>3 DEF LedTest1Join, LedQuiet, CanLed, Lagged, LedUnchanged
  <2>4. CASE LedTest1Lookup
    BY <2>4 DEF LedTest1Lookup, LedQuiet, CanLed, Lagged, LedUnchanged, CheckIpStart
  <2>5. CASE LedTest1Verdict
    BY <2>5 DEF LedTest1Verdict, LedQuiet, CanLed, Lagged, LedUnchanged
  <2>. QED BY <1>1, <2>1, <2>2, <2>3, <2>4, <2>5 DEF LedTick
<1>2. CASE GasTick
  <2>1. CASE GasInit
    BY <2>1 DEF GasInit, GasUnchanged
  <2>2. CASE GasBias
    BY <2>2 DEF GasBias, GasUnchanged
  <2>3. CASE GasCreateSession
    BY <2>3 DEF GasCreateSession, GasUnchanged, CheckIpStart
  <2>4. CASE GasConfig
    BY <2>4 DEF GasConfig, GasUnchanged, LeaveNetwork
  <2>5. CASE GasHangUp
    BY <2>5 DEF GasHangUp, GasUnchanged, HangUp, EspconnDisconnect, ConnStates
  <2>6. CASE GasLoggedIn
    BY <2>6 DEF GasLoggedIn, GasUnchanged, MonitorRuns, PostId
  <2>7. CASE GasLoggingIn
    <3>1. /\ http' \in {"none", "syn", "open", "posted"}
          /\ UNCHANGED <<station, sc, dns>>
      BY <2>7 DEF GasLoggingIn, MonitorRuns, PostId
    <3>2. conn' \in [Conns -> ConnStates]
      BY <2>7 DEF GasLoggingIn, HangUp, EspconnDisconnect, ConnStates
    <3>. QED BY <3>1, <3>2
  <2>8. CASE GasOffline
    BY <2>8 DEF GasOffline, GasUnchanged
  <2>. QED BY <1>2, <2>1, <2>2, <2>3, <2>4, <2>5, <2>6, <2>7, <2>8 DEF GasTick
<1>3. CASE Smartconfig
  <2>1. CASE ScGettingSsid
    BY <2>1 DEF ScGettingSsid, ScUnchanged
  <2>2. CASE ScLink
    BY <2>2 DEF ScLink, ScUnchanged
  <2>3. CASE ScLinkOver
    BY <2>3 DEF ScLinkOver, ScUnchanged, SmartconfigStop
  <2>. QED BY <1>3, <2>1, <2>2, <2>3 DEF Smartconfig
<1>4. CASE Callback
  <2>1. CASE DnsFound
    <3>1. conn' \in [Conns -> ConnStates]
      BY <2>1 DEF DnsFound, ConnStates
    <3>. QED BY <2>1, <3>1 DEF DnsFound, CbUnchanged
  <2>2. CASE DnsFailed
    BY <2>2 DEF DnsFailed, NoControl, CbUnchanged
  <2>3. CASE HttpConnected
    BY <2>3 DEF HttpConnected, NoControl, CbUnchanged
  <2>4. CASE HttpResultOk
    BY <2>4 DEF HttpResultOk, NoControl, CbUnchanged
  <2>5. CASE HttpGone
    BY <2>5 DEF HttpGone, NoControl, CbUnchanged
  <2>6. ASSUME NEW c \in Conns, WsConnected(c) PROVE NetworkTypeOK'
    BY <2>6 DEF WsConnected, NoControl, CbUnchanged, ConnStates
  <2>7. ASSUME NEW c \in Conns, WsUpgraded(c) PROVE NetworkTypeOK'
    BY <2>7 DEF WsUpgraded, NoControl, CbUnchanged, ConnStates
  <2>8. ASSUME NEW c \in Conns, WsDisconnected(c) PROVE NetworkTypeOK'
    BY <2>8 DEF WsDisconnected, NoControl, CbUnchanged, ConnGone, ConnStates
  <2>9. ASSUME NEW c \in Conns, WsError(c) PROVE NetworkTypeOK'
    BY <2>9 DEF WsError, NoControl, CbUnchanged, ConnGone, ConnStates
  <2>10. ASSUME NEW f \in Acks \cup AppCommands, WsFrame(f) PROVE NetworkTypeOK'
    BY <2>10 DEF WsFrame, NoControl, CbUnchanged
  <2>. QED BY <1>4, <2>1, <2>2, <2>3, <2>4, <2>5, <2>6, <2>7, <2>8, <2>9, <2>10 DEF Callback
<1>5. CASE World
  <2>1. CASE LongPress
    BY <2>1 DEF LongPress, CbUnchanged
  <2>2. CASE ShortPresses
    BY <2>2 DEF ShortPresses, CbUnchanged
  <2>3. CASE StationUp
    BY <2>3 DEF StationUp, CbUnchanged
  <2>4. CASE StationDown
    BY <2>4 DEF StationDown, CbUnchanged
  <2>. QED BY <1>5, <2>1, <2>2, <2>3, <2>4 DEF World
<1>6. CASE UNCHANGED vars
  BY <1>6 DEF vars
<1>. QED BY <1>1, <1>2, <1>3, <1>4, <1>5, <1>6 DEF Next

\* No step takes a variable out of its type: the counters of time_calcu_cb
\* keep their ranges, and Mode and SensorMode stay within their switches.
THEOREM TypeCorrect == Spec => []TypeOK
<1>1. TypeOK /\ [Next]_vars => TypeOK'
  BY ModeType, FlagType, TimeType, SessionType, NetworkType DEF TypeOK
<1>. QED BY <1>1, TypeInit, PTL DEF Spec

-----------------------------------------------------------------------------
(* Listening for the phone and the main loop.                               *)

LEMMA ListeningStep == TypeOK /\ ListeningStopsMainLoop /\ [Next]_vars => ListeningStopsMainLoop'
<1>. SUFFICES ASSUME TypeOK, ListeningStopsMainLoop, [Next]_vars PROVE ListeningStopsMainLoop'
  OBVIOUS
<1>. USE DEF ListeningStopsMainLoop, TypeOK, FlagTypeOK, ctl, net
<1>1. CASE LedTick
  <2>1. CASE LedTimeout
    BY <2>1 DEF LedTimeout, LedUnchanged, SmartconfigStop
  <2>2. CASE LedDispatch
    BY <2>2 DEF LedDispatch, LedQuiet, LedUnchanged
  <2>3. CASE LedTest1Join
    BY <2>3 DEF LedTest1Join, LedQuiet, LedUnchanged
  <2>4. CASE LedTest1Lookup
    BY <2>4 DEF LedTest1Lookup, LedQuiet, LedUnchanged
  <2>5. CASE LedTest1Verdict
    BY <2>5 DEF LedTest1Verdict, LedQuiet, LedUnchanged
  <2>. QED BY <1>1, <2>1, <2>2, <2>3, <2>4, <2>5 DEF LedTick
<1>2. CASE GasTick
  <2>1. CASE GasInit
    BY <2>1 DEF GasInit, CanGas, GasUnchanged
  <2>2. CASE GasBias
    BY <2>2 DEF GasBias, CanGas, GasUnchanged
  <2>3. CASE GasCreateSession
    BY <2>3 DEF GasCreateSession, CanGas, GasUnchanged
  <2>4. CASE GasConfig
    BY <2>4 DEF GasConfig, CanGas, GasUnchanged
  <2>5. CASE GasHangUp
    BY <2>5 DEF GasHangUp, CanGas, GasUnchanged, HangUp
  <2>6. CASE GasLoggedIn
    BY <2>6 DEF GasLoggedIn, CanGas, GasUnchanged, MonitorRuns
  <2>7. CASE GasLoggingIn
    BY <2>7 DEF GasLoggingIn, CanGas, GasUnchanged, MonitorRuns, HangUp
  <2>8. CASE GasOffline
    BY <2>8 DEF GasOffline, CanGas, GasUnchanged
  <2>. QED BY <1>2, <2>1, <2>2, <2>3, <2>4, <2>5, <2>6, <2>7, <2>8 DEF GasTick
<1>3. CASE Smartconfig
  <2>1. CASE ScGettingSsid
    BY <2>1 DEF ScGettingSsid, ScUnchanged
  <2>2. CASE ScLink
    BY <2>2 DEF ScLink, ScUnchanged
  <2>3. CASE ScLinkOver
    BY <2>3 DEF ScLinkOver, ScUnchanged, SmartconfigStop
  <2>. QED BY <1>3, <2>1, <2>2, <2>3 DEF Smartconfig
<1>4. CASE Callback
  <2>1. CASE DnsFound
    BY <2>1 DEF DnsFound, NoControl, CbUnchanged
  <2>2. CASE DnsFailed
    BY <2>2 DEF DnsFailed, NoControl, CbUnchanged
  <2>3. CASE HttpConnected
    BY <2>3 DEF HttpConnected, NoControl, CbUnchanged
  <2>4. CASE HttpResultOk
    BY <2>4 DEF HttpResultOk, NoControl, CbUnchanged
  <2>5. CASE HttpGone
    BY <2>5 DEF HttpGone, NoControl, CbUnchanged
  <2>6. ASSUME NEW c \in Conns, WsConnected(c) PROVE ListeningStopsMainLoop'
    BY <2>6 DEF WsConnected, NoControl, CbUnchanged
  <2>7. ASSUME NEW c \in Conns, WsUpgraded(c) PROVE ListeningStopsMainLoop'
    BY <2>7 DEF WsUpgraded, NoControl, CbUnchanged
  <2>8. ASSUME NEW c \in Conns, WsDisconnected(c) PROVE ListeningStopsMainLoop'
    BY <2>8 DEF WsDisconnected, NoControl, CbUnchanged
  <2>9. ASSUME NEW c \in Conns, WsError(c) PROVE ListeningStopsMainLoop'
    BY <2>9 DEF WsError, NoControl, CbUnchanged
  <2>10. ASSUME NEW f \in Acks \cup AppCommands, WsFrame(f) PROVE ListeningStopsMainLoop'
    BY <2>10 DEF WsFrame, NoControl, CbUnchanged
  <2>. QED BY <1>4, <2>1, <2>2, <2>3, <2>4, <2>5, <2>6, <2>7, <2>8, <2>9, <2>10 DEF Callback
<1>5. CASE World
  <2>1. CASE LongPress
    BY <2>1 DEF LongPress, CbUnchanged
  <2>2. CASE ShortPresses
    BY <2>2 DEF ShortPresses, CbUnchanged
  <2>3. CASE StationUp
    BY <2>3 DEF StationUp, CbUnchanged
  <2>4. CASE StationDown
    BY <2>4 DEF StationDown, CbUnchanged
  <2>. QED BY <1>5, <2>1, <2>2, <2>3, <2>4 DEF World
<1>6. CASE UNCHANGED vars
  BY <1>6 DEF vars
<1>. QED BY <1>1, <1>2, <1>3, <1>4, <1>5, <1>6 DEF Next

\* While the SmartConfig library listens, the main-loop timer is disarmed:
\* gas_smartconfig disarms it before smartconfig_start, and both ways back
\* (the LINK callback and the timeout) end the listening first.
THEOREM ListeningExclusive == Spec => []ListeningStopsMainLoop
<1>1. Init => ListeningStopsMainLoop
  BY DEF Init, ListeningStopsMainLoop
<1>. QED BY <1>1, ListeningStep, TypeCorrect, PTL DEF Spec

-----------------------------------------------------------------------------
(* Reconnection and the belief in an open session.                          *)

LEMMA ReconnectingStep == ReconnectingMeansOffline /\ [Next]_vars => ReconnectingMeansOffline'
<1>. SUFFICES ASSUME ReconnectingMeansOffline, [Next]_vars PROVE ReconnectingMeansOffline'
  OBVIOUS
<1>. USE DEF ReconnectingMeansOffline, ctl
<1>1. CASE LedTick
  <2>1. CASE LedTimeout
    BY <2>1 DEF LedTimeout, LedUnchanged
  <2>2. CASE LedDispatch
    BY <2>2 DEF LedDispatch, LedQuiet, LedUnchanged
  <2>3. CASE LedTest1Join
    BY <2>3 DEF LedTest1Join, LedQuiet, LedUnchanged
  <2>4. CASE LedTest1Lookup
    BY <2>4 DEF LedTest1Lookup, LedQuiet, LedUnchanged
  <2>5. CASE LedTest1Verdict
    BY <2>5 DEF LedTest1Verdict, LedQuiet, LedUnchanged
  <2>. QED BY <1>1, <2>1, <2>2, <2>3, <2>4, <2>5 DEF LedTick
<1>2. CASE GasTick
  <2>1. CASE GasInit
    BY <2>1 DEF GasInit, CanGas, GasUnchanged
  <2>2. CASE GasBias
    BY <2>2 DEF GasBias, CanGas, GasUnchanged
  <2>3. CASE GasCreateSession
    BY <2>3 DEF GasCreateSession, CanGas, GasUnchanged
  <2>4. CASE GasConfig
    BY <2>4 DEF GasConfig, CanGas, GasUnchanged
  <2>5. CASE GasHangUp
    BY <2>5 DEF GasHangUp, CanGas, GasUnchanged, HangUp
  <2>6. CASE GasLoggedIn
    BY <2>6 DEF GasLoggedIn, CanGas, GasUnchanged, MonitorRuns
  <2>7. CASE GasLoggingIn
    BY <2>7 DEF GasLoggingIn, CanGas, GasUnchanged, MonitorRuns, HangUp
  <2>8. CASE GasOffline
    BY <2>8 DEF GasOffline, CanGas, GasUnchanged
  <2>. QED BY <1>2, <2>1, <2>2, <2>3, <2>4, <2>5, <2>6, <2>7, <2>8 DEF GasTick
<1>3. CASE Smartconfig
  <2>1. CASE ScGettingSsid
    BY <2>1 DEF ScGettingSsid, ScUnchanged
  <2>2. CASE ScLink
    BY <2>2 DEF ScLink, ScUnchanged
  <2>3. CASE ScLinkOver
    BY <2>3 DEF ScLinkOver, ScUnchanged
  <2>. QED BY <1>3, <2>1, <2>2, <2>3 DEF Smartconfig
<1>4. CASE Callback
  <2>1. CASE DnsFound
    BY <2>1 DEF DnsFound, NoControl, CbUnchanged
  <2>2. CASE DnsFailed
    BY <2>2 DEF DnsFailed, NoControl, CbUnchanged
  <2>3. CASE HttpConnected
    BY <2>3 DEF HttpConnected, NoControl, CbUnchanged
  <2>4. CASE HttpResultOk
    BY <2>4 DEF HttpResultOk, NoControl, CbUnchanged
  <2>5. CASE HttpGone
    BY <2>5 DEF HttpGone, NoControl, CbUnchanged
  <2>6. ASSUME NEW c \in Conns, WsConnected(c) PROVE ReconnectingMeansOffline'
    BY <2>6 DEF WsConnected, NoControl, CbUnchanged
  <2>7. ASSUME NEW c \in Conns, WsUpgraded(c) PROVE ReconnectingMeansOffline'
    BY <2>7 DEF WsUpgraded, NoControl, CbUnchanged
  <2>8. ASSUME NEW c \in Conns, WsDisconnected(c) PROVE ReconnectingMeansOffline'
    BY <2>8 DEF WsDisconnected, NoControl, CbUnchanged
  <2>9. ASSUME NEW c \in Conns, WsError(c) PROVE ReconnectingMeansOffline'
    BY <2>9 DEF WsError, NoControl, CbUnchanged
  <2>10. ASSUME NEW f \in Acks \cup AppCommands, WsFrame(f) PROVE ReconnectingMeansOffline'
    BY <2>10 DEF WsFrame, NoControl, CbUnchanged
  <2>. QED BY <1>4, <2>1, <2>2, <2>3, <2>4, <2>5, <2>6, <2>7, <2>8, <2>9, <2>10 DEF Callback
<1>5. CASE World
  <2>1. CASE LongPress
    BY <2>1 DEF LongPress, CbUnchanged
  <2>2. CASE ShortPresses
    BY <2>2 DEF ShortPresses, CbUnchanged
  <2>3. CASE StationUp
    BY <2>3 DEF StationUp, CbUnchanged
  <2>4. CASE StationDown
    BY <2>4 DEF StationDown, CbUnchanged
  <2>. QED BY <1>5, <2>1, <2>2, <2>3, <2>4 DEF World
<1>6. CASE UNCHANGED vars
  BY <1>6 DEF vars
<1>. QED BY <1>1, <1>2, <1>3, <1>4, <1>5, <1>6 DEF Next

\* Every way into the delay before a reconnection clears WebSocketOK, and
\* every way to set WebSocketOK leaves that delay.
THEOREM ReconnectingOffline == Spec => []ReconnectingMeansOffline
<1>1. Init => ReconnectingMeansOffline
  BY DEF Init, ReconnectingMeansOffline
<1>. QED BY <1>1, ReconnectingStep, PTL DEF Spec

-----------------------------------------------------------------------------
(* The main loop can be brought back.                                       *)

\* While the main loop is stopped the station is off, so that neither the
\* server nor the phone can set SubMode to FINISH, and the self test, which
\* would make it join again, is not running.
MainLoopInv ==
    ~gas_main => SubMode # "FINISH" /\ station = "off" /\ SensorMode # "Test1"

LEMMA MainLoopStep == LateDelivery = FALSE /\ TypeOK /\ MainLoopInv /\ [Next]_vars => MainLoopInv'
<1>. SUFFICES ASSUME LateDelivery = FALSE, TypeOK, MainLoopInv, [Next]_vars PROVE MainLoopInv'
  OBVIOUS
<1>. USE DEF MainLoopInv, TypeOK, FlagTypeOK, ModeTypeOK, ctl, net, Deliverable
<1>1. CASE LedTick
  <2>1. CASE LedTimeout
    BY <2>1 DEF LedTimeout, LedUnchanged, RearmGasMain
  <2>2. CASE LedDispatch
    BY <2>2 DEF LedDispatch, LedQuiet, LedUnchanged
  <2>3. CASE LedTest1Join
    BY <2>3 DEF LedTest1Join, LedQuiet, LedUnchanged
  <2>4. CASE LedTest1Lookup
    BY <2>4 DEF LedTest1Lookup, LedQuiet, LedUnchanged
  <2>5. CASE LedTest1Verdict
    BY <2>5 DEF LedTest1Verdict, LedQuiet, LedUnchanged
  <2>. QED BY <1>1, <2>1, <2>2, <2>3, <2>4, <2>5 DEF LedTick
<1>2. CASE GasTick
  <2>1. CASE GasInit
    BY <2>1 DEF GasInit, CanGas, GasUnchanged
  <2>2. CASE GasBias
    BY <2>2 DEF GasBias, CanGas, GasUnchanged
  <2>3. CASE GasCreateSession
    BY <2>3 DEF GasCreateSession, CanGas, GasUnchanged
  <2>4. CASE GasConfig
    BY <2>4 DEF GasConfig, CanGas, GasUnchanged, LeaveNetwork
  <2>5. CASE GasHangUp
    BY <2>5 DEF GasHangUp, CanGas, GasUnchanged, HangUp
  <2>6. CASE GasLoggedIn
    BY <2>6 DEF GasLoggedIn, CanGas, GasUnchanged, MonitorRuns
  <2>7. CASE GasLoggingIn
    BY <2>7 DEF GasLoggingIn, CanGas, GasUnchanged, MonitorRuns, HangUp
  <2>8. CASE GasOffline
    BY <2>8 DEF GasOffline, CanGas, GasUnchanged
  <2>. QED BY <1>2, <2>1, <2>2, <2>3, <2>4, <2>5, <2>6, <2>7, <2>8 DEF GasTick
<1>3. CASE Smartconfig
  <2>1. CASE ScGettingSsid
    BY <2>1 DEF ScGettingSsid, ScUnchanged
  <2>2. CASE ScLink
    BY <2>2 DEF ScLink, ScUnchanged, RearmGasMain
  <2>3. CASE ScLinkOver
    BY <2>3 DEF ScLinkOver, ScUnchanged
  <2>. QED BY <1>3, <2>1, <2>2, <2>3 DEF Smartconfig
<1>4. CASE Callback
  <2>1. CASE DnsFound
    BY <2>1 DEF DnsFound, NoControl, CbUnchanged
  <2>2. CASE DnsFailed
    BY <2>2 DEF DnsFailed, NoControl, CbUnchanged
  <2>3. CASE HttpConnected
    BY <2>3 DEF HttpConnected, NoControl, CbUnchanged
  <2>4. CASE HttpResultOk
    BY <2>4 DEF HttpResultOk, NoControl, CbUnchanged
  <2>5. CASE HttpGone
    BY <2>5 DEF HttpGone, NoControl, CbUnchanged
  <2>6. ASSUME NEW c \in Conns, WsConnected(c) PROVE MainLoopInv'
    BY <2>6 DEF WsConnected, NoControl, CbUnchanged
  <2>7. ASSUME NEW c \in Conns, WsUpgraded(c) PROVE MainLoopInv'
    BY <2>7 DEF WsUpgraded, NoControl, CbUnchanged
  <2>8. ASSUME NEW c \in Conns, WsDisconnected(c) PROVE MainLoopInv'
    BY <2>8 DEF WsDisconnected, NoControl, CbUnchanged
  <2>9. ASSUME NEW c \in Conns, WsError(c) PROVE MainLoopInv'
    BY <2>9 DEF WsError, NoControl, CbUnchanged
  <2>10. ASSUME NEW f \in Acks \cup AppCommands, WsFrame(f) PROVE MainLoopInv'
    BY <2>10 DEF WsFrame, NoControl, CbUnchanged
  <2>. QED BY <1>4, <2>1, <2>2, <2>3, <2>4, <2>5, <2>6, <2>7, <2>8, <2>9, <2>10 DEF Callback
<1>5. CASE World
  <2>1. CASE LongPress
    BY <2>1 DEF LongPress, CbUnchanged
  <2>2. CASE ShortPresses
    BY <2>2 DEF ShortPresses, CbUnchanged
  <2>3. CASE StationUp
    BY <2>3 DEF StationUp, CbUnchanged
  <2>4. CASE StationDown
    BY <2>4 DEF StationDown, CbUnchanged
  <2>. QED BY <1>5, <2>1, <2>2, <2>3, <2>4 DEF World
<1>6. CASE UNCHANGED vars
  BY <1>6 DEF vars
<1>. QED BY <1>1, <1>2, <1>3, <1>4, <1>5, <1>6 DEF Next

\* If no callback is delivered once the station is down, the stopped main
\* loop is always within reach of the 60 s timeout.
THEOREM MainLoopReachable ==
    LateDelivery = FALSE => (Spec => []MainLoopRecoverable)
<1>. SUFFICES ASSUME LateDelivery = FALSE PROVE Spec => []MainLoopRecoverable
  OBVIOUS
<1>1. Init => MainLoopInv
  BY DEF Init, MainLoopInv
<1>2. TypeOK /\ MainLoopInv /\ [Next]_vars => MainLoopInv'
  BY MainLoopStep
<1>3. MainLoopInv => MainLoopRecoverable
  BY DEF MainLoopInv, MainLoopRecoverable
<1>. QED BY <1>1, <1>2, <1>3, TypeCorrect, PTL DEF Spec

-----------------------------------------------------------------------------
(* The placeholder identity is not used.                                    *)

\* Everything that leads to a login, or to a posted identity, presupposes an
\* issued one: the LOGIN to run, the answer the server owes to it, the
\* answer received.
IdentityInv ==
    ~registered => /\ "BIT_LOGINOK" \notin Status
                   /\ http # "posted"
                   /\ command \notin {"LOGIN", "LOGINACK"}
                   /\ "LOGINACK" \notin owed

LEMMA IdentityStep == TypeOK /\ IdentityInv /\ [Next]_vars => IdentityInv'
<1>. SUFFICES ASSUME TypeOK, IdentityInv, [Next]_vars PROVE IdentityInv'
  OBVIOUS
<1>. USE DEF IdentityInv, TypeOK, FlagTypeOK, ctl, slot, tcp
<1>1. CASE LedTick
  <2>1. CASE LedTimeout
    BY <2>1 DEF LedTimeout, LedUnchanged
  <2>2. CASE LedDispatch
    BY <2>2 DEF LedDispatch, LedQuiet, LedUnchanged
  <2>3. CASE LedTest1Join
    BY <2>3 DEF LedTest1Join, LedQuiet, LedUnchanged
  <2>4. CASE LedTest1Lookup
    BY <2>4 DEF LedTest1Lookup, LedQuiet, LedUnchanged, CheckIpStart
  <2>5. CASE LedTest1Verdict
    BY <2>5 DEF LedTest1Verdict, LedQuiet, LedUnchanged
  <2>. QED BY <1>1, <2>1, <2>2, <2>3, <2>4, <2>5 DEF LedTick
<1>2. CASE GasTick
  <2>1. CASE GasInit
    BY <2>1 DEF GasInit, CanGas, GasUnchanged
  <2>2. CASE GasBias
    BY <2>2 DEF GasBias, CanGas, GasUnchanged
  <2>3. CASE GasCreateSession
    BY <2>3 DEF GasCreateSession, CanGas, GasUnchanged, CheckIpStart
  <2>4. CASE GasConfig
    BY <2>4 DEF GasConfig, CanGas, GasUnchanged
  <2>5. CASE GasHangUp
    BY <2>5 DEF GasHangUp, CanGas, GasUnchanged, HangUp
  <2>6. CASE GasLoggedIn
    BY <2>6 DEF GasLoggedIn, CanGas, GasUnchanged, MonitorRuns, MonitorEffect, PostId, Registers, PeriodicCommand, SetCommand, Followup, AnswerTo
  <2>7. CASE GasLoggingIn
    BY <2>7 DEF GasLoggingIn, CanGas, GasUnchanged, MonitorRuns, MonitorEffect, PostId, Registers, HangUp, Followup, AnswerTo
  <2>8. CASE GasOffline
    BY <2>8 DEF GasOffline, CanGas, GasUnchanged
  <2>. QED BY <1>2, <2>1, <2>2, <2>3, <2>4, <2>5, <2>6, <2>7, <2>8 DEF GasTick
<1>3. CASE Smartconfig
  <2>1. CASE ScGettingSsid
    BY <2>1 DEF ScGettingSsid, ScUnchanged
  <2>2. CASE ScLink
    BY <2>2 DEF ScLink, ScUnchanged
  <2>3. CASE ScLinkOver
    BY <2>3 DEF ScLinkOver, ScUnchanged
  <2>. QED BY <1>3, <2>1, <2>2, <2>3 DEF Smartconfig
<1>4. CASE Callback
  <2>1. CASE DnsFound
    BY <2>1 DEF DnsFound, NoControl, CbUnchanged
  <2>2. CASE DnsFailed
    BY <2>2 DEF DnsFailed, NoControl, CbUnchanged
  <2>3. CASE HttpConnected
    BY <2>3 DEF HttpConnected, NoControl, CbUnchanged
  <2>4. CASE HttpResultOk
    BY <2>4 DEF HttpResultOk, NoControl, CbUnchanged
  <2>5. CASE HttpGone
    BY <2>5 DEF HttpGone, NoControl, CbUnchanged
  <2>6. ASSUME NEW c \in Conns, WsConnected(c) PROVE IdentityInv'
    BY <2>6 DEF WsConnected, NoControl, CbUnchanged
  <2>7. ASSUME NEW c \in Conns, WsUpgraded(c) PROVE IdentityInv'
    BY <2>7 DEF WsUpgraded, NoControl, CbUnchanged, FirstCommand
  <2>8. ASSUME NEW c \in Conns, WsDisconnected(c) PROVE IdentityInv'
    BY <2>8 DEF WsDisconnected, NoControl, CbUnchanged, ConnGone
  <2>9. ASSUME NEW c \in Conns, WsError(c) PROVE IdentityInv'
    BY <2>9 DEF WsError, NoControl, CbUnchanged, ConnGone
  <2>10. ASSUME NEW f \in Acks \cup AppCommands, WsFrame(f) PROVE IdentityInv'
    <3>1. UNCHANGED <<registered, Status, http>>
      BY <2>10 DEF WsFrame, CbUnchanged
    <3>2. ~registered => f \notin {"LOGIN", "LOGINACK"}
      BY <2>10, EnvironmentAssumption DEF WsFrame, Acks
    <3>3. command' = f \/ command' = command
      <4>1. UNCHANGED slot \/ command' = f \/ command' = SetCommand(latched, command, f)
        BY <2>10 DEF WsFrame
      <4>2. SetCommand(latched, command, f) = command \/ SetCommand(latched, command, f) = f
        BY DEF SetCommand
      <4>. QED BY <4>1, <4>2
    <3>4. owed' \subseteq owed
      BY <2>10 DEF WsFrame
    <3>. QED BY <3>1, <3>2, <3>3, <3>4
  <2>. QED BY <1>4, <2>1, <2>2, <2>3, <2>4, <2>5, <2>6, <2>7, <2>8, <2>9, <2>10 DEF Callback
<1>5. CASE World
  <2>1. CASE LongPress
    BY <2>1 DEF LongPress, CbUnchanged
  <2>2. CASE ShortPresses
    BY <2>2 DEF ShortPresses, CbUnchanged
  <2>3. CASE StationUp
    BY <2>3 DEF StationUp, CbUnchanged
  <2>4. CASE StationDown
    BY <2>4 DEF StationDown, CbUnchanged
  <2>. QED BY <1>5, <2>1, <2>2, <2>3, <2>4 DEF World
<1>6. CASE UNCHANGED vars
  BY <1>6 DEF vars
<1>. QED BY <1>1, <1>2, <1>3, <1>4, <1>5, <1>6 DEF Next

\* No login is completed, and no identity posted for the phone, before the
\* server has issued one, whatever frames arrive and in whatever order.
THEOREM IdentityFirst == Spec => []IdentityBeforeUse
<1>1. Init => IdentityInv
  BY DEF Init, IdentityInv
<1>2. IdentityInv => IdentityBeforeUse
  BY DEF IdentityInv, IdentityBeforeUse
<1>. QED BY <1>1, <1>2, IdentityStep, TypeCorrect, PTL DEF Spec

\* Session flags and identity are consistent, in every interleaving of the
\* main loop, the timers and the callbacks.
THEOREM SessionFlagsConsistent == Spec => []SessionConsistent
  BY ReconnectingOffline, IdentityFirst, PTL DEF SessionConsistent

=============================================================================
