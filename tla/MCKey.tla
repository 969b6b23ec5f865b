-------------------------------- MODULE MCKey --------------------------------
(***************************************************************************)
(* The key driver, and beside it the panel it serves, the UART driver, the   *)
(* watchdog that ends sessions, and of lwIP the timeouts and the SNTP client. *)
(* They are of different time scales and are checked in one run, side by side: *)
(* part is the one that runs; the others stay as they start.                 *)
(***************************************************************************)
EXTENDS Key, Sequences, FiniteSets

CONSTANTS
    WARM, PHASE, WINDOW, FIFO_LEN, SIZE, CHUNK, QUEUE, BYTES, MINUTE, HOURS, ERROR,
    HUNG, BIAS, NOTIFY, DELAY, DISTURBANCES, TCP_TMR_INTERVAL, PERIOD, DELAYS,
    TICKS, WRAP, SINGLES, SNTP_MAX_SERVERS, GOOD, BAD, SNTP_RETRY_TIMEOUT_MAX,
    DAYS, SECONDS, TIME_ZONE, CALLS, STRAY, FAILS, COUNT

VARIABLES
    part, SensorMode, Mode, sc, finished, Led_Cnt_second, test, test1, Key_Type,
    Cnt_Key, WebSocketOK, pressed, presses, warm, quiet, shown, broken, raced,
    rxFifo, txFifo, rxIntr, txIntr, events, pRxBuffer, pTxBuffer, arrived, gone,
    dropped, Cnt_ERROR, Cnt_Minite, Cnt_Hour, flag_Time, command, latched, online,
    bias, answers, ssdp, udp_sent_cnt, sent, lost, short, disturbed, next_timeout,
    timeouts_last_time, now, diff, pcbs, tcpip_tcp_timer_active, client, clock,
    uses, strays, waiting

panelVars == <<SensorMode, Mode, sc, finished, Led_Cnt_second, test, test1,
    Key_Type, Cnt_Key, WebSocketOK, pressed, presses, warm, quiet, shown, broken, raced>>
uartVars == <<rxFifo, txFifo, rxIntr, txIntr, events, pRxBuffer, pTxBuffer,
    arrived, gone, dropped>>
watchdogVars == <<Cnt_ERROR, Cnt_Minite, Cnt_Hour, flag_Time, command, latched,
    online, bias, answers, ssdp, udp_sent_cnt, sent, lost, short, disturbed>>
timeoutsVars == <<next_timeout, timeouts_last_time, now, diff, pcbs,
    tcpip_tcp_timer_active>>
sntpVars == <<client, clock, uses, strays, waiting>>

P == INSTANCE Panel
U == INSTANCE Uart
W == INSTANCE Watchdog
T == INSTANCE Timers
N == INSTANCE Sntp WITH USES <- CALLS

ASSUME PartsAssumption ==
    /\ P!PanelAssumption
    /\ U!UartAssumption
    /\ W!WatchdogAssumption
    /\ T!TimersAssumption
    /\ N!SntpAssumption

MCInit ==
    /\ part \in {"key", "panel", "uart", "watchdog", "timeouts", "sntp"}
    /\ Init
    /\ P!Init
    /\ U!Init
    /\ W!Init
    /\ T!Init
    /\ N!Init
    /\ part # "panel" => SensorMode = "Init"

\* Every part but p stays as it is.
Others(p) ==
    /\ UNCHANGED part
    /\ p # "key" => UNCHANGED vars
    /\ p # "panel" => UNCHANGED panelVars
    /\ p # "uart" => UNCHANGED uartVars
    /\ p # "watchdog" => UNCHANGED watchdogVars
    /\ p # "timeouts" => UNCHANGED timeoutsVars
    /\ p # "sntp" => UNCHANGED sntpVars

mcVars == <<
    part, vars, panelVars, uartVars, watchdogVars, timeoutsVars, sntpVars>>

MCNext ==
    \/ part = "key" /\ Next /\ Others("key")
    \/ part = "panel" /\ P!Next /\ Others("panel")
    \/ part = "uart" /\ U!Next /\ Others("uart")
    \/ part = "watchdog" /\ W!Next /\ Others("watchdog")
    \/ part = "timeouts" /\ T!Next /\ Others("timeouts")
    \/ part = "sntp" /\ N!Next /\ Others("sntp")
    \/ part \in {"sntp"} /\ UNCHANGED mcVars  \* left alone for good

MCSpec == MCInit /\ [][MCNext]_mcVars
\* The clock goes on, and the server answers; so do lwIP's timers, and an SNTP
\* server that is asked again and again.
MCFairSpec ==
    /\ MCSpec
    /\ WF_mcVars(part = "watchdog" /\ W!Time /\ Others("watchdog"))
    /\ \A s \in W!Server : WF_mcVars(part = "watchdog" /\ W!ServerAnswers(s) /\ Others("watchdog"))
    /\ WF_mcVars(part = "sntp" /\ N!RequestTimer /\ Others("sntp"))
    /\ WF_mcVars(part = "sntp" /\ N!NextTimer /\ Others("sntp"))
    /\ WF_mcVars(part = "sntp" /\ (\E a \in N!Addresses \cup {N!ANY} : N!Found(a)) /\ Others("sntp"))
    /\ SF_mcVars(part = "sntp" /\ N!Answered /\ Others("sntp"))

-----------------------------------------------------------------------------
\* What module Panel states, and that it keeps its types.
DetectionComesBack == part = "panel" => P!TypeOK /\ P!DetectionComesBack
SensorTrusted == P!SensorTrusted

\* What module Uart states, and that it keeps its types.
EchoIntact == part = "uart" => U!TypeOK /\ U!EchoIntact

\* The properties of module Watchdog.
HealthyKept == W!HealthyKept

\* What the modules Timers and Sntp state; they and Watchdog keep their types.
TimeSound ==
    /\ part = "timeouts" => T!TypeOK /\ T!TimersSound
    /\ part = "sntp" => N!TypeOK /\ N!SntpSound
    /\ part = "watchdog" => W!TypeOK
\* Both come in the end: the session that lasts, and the time.
LastsAndComes ==
    /\ part = "watchdog" => W!SessionLasts
    /\ part = "sntp" => N!TimeComes

=============================================================================
