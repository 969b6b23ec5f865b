------------------------------- MODULE Device -------------------------------
(***************************************************************************)
(* The control core of the sensor firmware (app/user): which mode the main  *)
(* loop is in, whether that loop is running at all, how provisioning        *)
(* (SmartConfig) takes it over and gives it back, and how the websocket     *)
(* session is opened, watched and dropped.                                  *)
(*                                                                         *)
(* The NONOS SDK runs timer callbacks, network callbacks and tasks one at a *)
(* time, so one callback is one step here, and what interleaves are the     *)
(* callbacks.  Two software timers drive the device: led_main (pwmad_cb,    *)
(* 50 ms, never stopped) and gas_main (gas_main_cb, 100 ms, stopped while   *)
(* SmartConfig listens).                                                    *)
(*                                                                         *)
(* Left out, because nothing reads them back: HttpOK, BIT_ONLINE, BIT_DAY,  *)
(* BIT_SELFTEST, BIT_ALARMOFF, and Mode1/SensorMode1 (read only when Mode   *)
(* or SensorMode is outside the sets below).                                *)
(***************************************************************************)
EXTENDS Integers, FiniteSets

CONSTANTS
    CNT_10S,      \* led ticks until BIT_10S is set (200 in user_config.h)
    CNT_60S,      \* led ticks until provisioning is given up (1200)
    CNT_MINITE,   \* led ticks between heartbeats (2400)
    CNT_HOUR,     \* minute flags between PPM uploads (30)
    CNT_ERROR_OK, \* main-loop passes the watchdog allows a session (1800)
    CNT_ERROR_HUNG, \* ... after the watchdog hung up (180)
    UINT8,        \* width of the counter Cnt_second (256)
    LED_PER_GAS,  \* led ticks per main-loop pass (100 ms / 50 ms = 2)
    Conns,        \* connection slots of espconn (espconn_tcp_get_max_con)
    DnsTable,     \* lookups lwIP keeps outstanding (DNS_TABLE_SIZE)
    AppCommands,  \* commands an app may send through the server at any time
    LateDelivery  \* may a callback still arrive after the station is down?

ASSUME CountersAssumption ==
    /\ CNT_10S \in Nat \ {0}      /\ UINT8 \in Nat /\ CNT_10S < UINT8
    /\ CNT_60S \in Nat \ {0}      /\ CNT_MINITE \in Nat /\ CNT_60S < CNT_MINITE
    /\ CNT_HOUR \in Nat \ {0}
    /\ CNT_ERROR_OK \in Nat \ {0} /\ CNT_ERROR_HUNG \in Nat \ {0}
    /\ LED_PER_GAS \in Nat \ {0}

ASSUME EnvironmentAssumption ==
    /\ DnsTable \in Nat \ {0}
    /\ AppCommands \subseteq {"READGAS", "STOPALARM"}
    /\ LateDelivery \in BOOLEAN

VARIABLES
    Mode,             \* what gas_main_cb dispatches on
    SubMode,          \* progress of SmartConfig
    SensorMode,       \* what pwmad_cb dispatches on
    gas_main,         \* is the main-loop timer armed?
    lag,              \* led ticks since the last main-loop pass
    Cnt_second, Cnt_10second, init_flag_time,
    Cnt_Minite, Cnt_Hour, flag_Time,
    WebSocketOK,      \* the firmware's belief that the session is open
    Cnt_ERROR,        \* the watchdog, counted down by networking()
    Status,           \* BIT_HASNET, BIT_LOGINOK
    gassmartconfig,   \* the identity is still to be posted for the phone
    registered,       \* Dev_ID[2] # 'F': the server has issued an identity
    command, latched, \* the command ESP8266_Monitor will run, and whether it
                      \*   comes from Receive (which wins over DataFormat.command)
    station,          \* external: the WiFi station
    sc,               \* external: the SmartConfig library
    dns,              \* external: lookups outstanding
    tcp_server_ip,    \* tcp_server_ip.addr # 0
    conn,             \* external: the TCP connections of websocket_tcp_conn
    http,             \* external: the TCP connection of http_tcp_conn
    owed              \* external: answers the server still owes the device

ctl == <<Mode, SubMode, SensorMode, gas_main>>
boot == <<Cnt_second, Cnt_10second, init_flag_time>>
clock == <<Cnt_Minite, Cnt_Hour, flag_Time>>
slot == <<command, latched>>
net == <<station, sc>>
tcp == <<dns, tcp_server_ip, conn, http>>
vars == <<ctl, lag, boot, clock, WebSocketOK, Cnt_ERROR, Status, gassmartconfig,
          registered, slot, net, tcp, owed>>

Modes == {"Init", "Bias", "CreateSession", "Config", "Nomal"}
SubModes == {"INIT", "START", "WAIT", "FINISH"}
SensorModes == {"Init", "Normal", "Test", "Config", "Test1", "ConnError"}
Acks == {"NEWIDACK", "LOGINACK", "HEARTRATEACK"}
Commands == Acks \cup {"none", "GETNEWID", "LOGIN", "HEARTRATE", "UPDATEPPM",
                       "READGAS", "READGASACK", "STOPALARM"}
ConnStates == {"free", "syn", "open", "upgraded", "closing"}

ModeTypeOK ==
    /\ Mode \in Modes
    /\ SubMode \in SubModes
    /\ SensorMode \in SensorModes
FlagTypeOK ==
    /\ gas_main \in BOOLEAN
    /\ WebSocketOK \in BOOLEAN
    /\ gassmartconfig \in BOOLEAN
    /\ registered \in BOOLEAN
    /\ latched \in BOOLEAN
    /\ tcp_server_ip \in BOOLEAN
TimeTypeOK ==
    /\ lag \in 0..LED_PER_GAS
    /\ Cnt_second \in 0..(UINT8 - 1)
    /\ Cnt_10second \in 0..1
    /\ Cnt_Minite \in 0..(CNT_MINITE - 1)
    /\ Cnt_Hour \in 0..(CNT_HOUR - 1)
    /\ Cnt_ERROR \in Nat
SessionTypeOK ==
    /\ init_flag_time \subseteq {"BIT_10S", "BIT_30S"}
    /\ flag_Time \subseteq {"BIT_MINITE", "BIT_HOUR"}
    /\ Status \subseteq {"BIT_HASNET", "BIT_LOGINOK"}
    /\ command \in Commands
    /\ owed \subseteq Acks
NetworkTypeOK ==
    /\ station \in {"off", "joining", "ip"}
    /\ sc \in {"off", "listening", "linked"}
    /\ dns \in 0..DnsTable
    /\ conn \in [Conns -> ConnStates]
    /\ http \in {"none", "syn", "open", "posted"}

\* Every variable has its type; in particular no counter of time_calcu_cb
\* leaves its range and Mode and SensorMode stay within the cases of their
\* switches.
TypeOK == ModeTypeOK /\ FlagTypeOK /\ TimeTypeOK /\ SessionTypeOK /\ NetworkTypeOK

(***************************************************************************)
(* user_init: power-on.  The key held down selects the factory self test;   *)
(* the identity is read from flash (module ConfigFlash); the SDK joins the  *)
(* stored access point by itself, if there is one.                          *)
(***************************************************************************)
Init ==
    /\ Mode = "Init" /\ SubMode = "INIT"
    /\ SensorMode \in {"Init", "Test1"}
    /\ gas_main = TRUE /\ lag = 0
    /\ Cnt_second = 0 /\ Cnt_10second = 0 /\ init_flag_time = {}
    /\ Cnt_Minite = 0 /\ Cnt_Hour = 0 /\ flag_Time = {}
    /\ WebSocketOK = FALSE
    /\ Cnt_ERROR = CNT_ERROR_OK
    /\ Status = {}
    /\ gassmartconfig = FALSE
    /\ registered \in BOOLEAN
    /\ command = "none" /\ latched = FALSE
    /\ station \in {"off", "joining"}
    /\ sc = "off"
    /\ dns = 0 /\ tcp_server_ip = FALSE
    /\ conn = [c \in Conns |-> "free"]
    /\ http = "none"
    /\ owed = {}

-----------------------------------------------------------------------------
(* Helpers shared by the handlers.                                          *)

\* os_timer_disarm + os_timer_arm(&gas_main, 100, 1): the period starts anew.
RearmGasMain == gas_main' = TRUE /\ lag' = 0

\* The restart of the 10 s / 20 s boot counters, as every hang-up does it.
ClearBootCounters == Cnt_second' = 0 /\ Cnt_10second' = 0 /\ init_flag_time' = {}

\* An answer can be delivered while the station holds an address; with
\* LateDelivery also when it was already queued as the station went down.
Deliverable == station = "ip" \/ LateDelivery

\* CheckIpStart: forget the server's address and look it up (again).
\* Mutant: the address is not forgotten.
CheckIpStart_KeepsAddress ==
    /\ dns' = IF dns < DnsTable THEN dns + 1 ELSE dns
    /\ UNCHANGED <<tcp_server_ip, conn, http>>

CheckIpStart ==
    /\ tcp_server_ip' = FALSE
    /\ dns' = IF dns < DnsTable THEN dns + 1 ELSE dns
    /\ UNCHANGED <<conn, http>>

Upgraded(c) == conn[c] = "upgraded"
SomeUpgraded == \E c \in Conns : Upgraded(c)

\* espconn_disconnect(&websocket_tcp_conn): one connection of that struct,
\* if any is established, starts to close; its callback comes later.
EspconnDisconnect ==
    LET live == {c \in Conns : conn[c] \in {"open", "upgraded"}} IN
    IF live = {} THEN UNCHANGED conn
    ELSE \E c \in live : conn' = [conn EXCEPT ![c] = "closing"]

\* smartconfig_stop().  Mutant: the call is forgotten.
SmartconfigStop_Forgotten == sc' = sc
SmartconfigStop == sc' = "off"

\* wifi_station_disconnect() before listening.  Mutant: the call is forgotten.
LeaveNetwork_Forgotten == station' = station
LeaveNetwork == station' = "off"

\* A command set without Receive loses to one that is latched in Receive.
SetCommand(l, old, new) == IF l THEN old ELSE new

-----------------------------------------------------------------------------
(* led_main: pwmad_cb, every 50 ms.                                         *)

CanLed == gas_main => lag < LED_PER_GAS
Lagged == IF gas_main THEN lag + 1 ELSE lag

\* time_calcu_cb, lines 31-56: the counters.
Fire10s == (Cnt_second + 1) % UINT8 >= CNT_10S /\ Mode \in {"Init", "Bias"}
Fire30s == Fire10s /\ Cnt_10second + 1 = 2
MinuteOver_OneLate == Cnt_Minite >= CNT_MINITE
MinuteOver == Cnt_Minite + 1 >= CNT_MINITE
HourOver == MinuteOver /\ Cnt_Hour + 1 >= CNT_HOUR

CountTime ==
    /\ Cnt_second' = IF Fire10s THEN 0 ELSE (Cnt_second + 1) % UINT8
    /\ Cnt_10second' = IF Fire30s THEN 0 ELSE IF Fire10s THEN Cnt_10second + 1 ELSE Cnt_10second
    /\ init_flag_time' = init_flag_time \cup (IF Fire10s THEN {"BIT_10S"} ELSE {})
                                        \cup (IF Fire30s THEN {"BIT_30S"} ELSE {})
    /\ Cnt_Minite' = IF MinuteOver THEN 0 ELSE Cnt_Minite + 1
    /\ Cnt_Hour' = IF HourOver THEN 0 ELSE IF MinuteOver THEN Cnt_Hour + 1 ELSE Cnt_Hour
    /\ flag_Time' = flag_Time \cup (IF MinuteOver THEN {"BIT_MINITE"} ELSE {})
                              \cup (IF HourOver THEN {"BIT_HOUR"} ELSE {})

\* Lines 58-74: SmartConfig is given up after CNT_60S.
\* Mutants: only once the phone has been heard; never with the main loop off.
SmartconfigTimedOut_WaitOnly == Cnt_Minite' >= CNT_60S /\ SubMode \in {"INIT", "WAIT"}
SmartconfigTimedOut_ArmedOnly == Cnt_Minite' >= CNT_60S /\ SubMode # "FINISH" /\ sc # "linked"
SmartconfigTimedOut == Cnt_Minite' >= CNT_60S /\ SubMode # "FINISH"

LedUnchanged == UNCHANGED <<WebSocketOK, Cnt_ERROR, Status, gassmartconfig,
                            registered, slot, owed>>

LedTimeout ==
    /\ CanLed /\ CountTime /\ SmartconfigTimedOut
    /\ SmartconfigStop
    /\ SensorMode' = "Init"
    /\ SubMode' = "FINISH"
    /\ RearmGasMain
    /\ Mode' = "Nomal"
    /\ LedUnchanged /\ UNCHANGED <<station, tcp>>

LedQuiet == CanLed /\ CountTime /\ ~SmartconfigTimedOut
            /\ lag' = Lagged /\ UNCHANGED <<Mode, SubMode, gas_main, sc>> /\ LedUnchanged

\* The switch on SensorMode.  How many ticks a phase lasts (Led_Cnt_second,
\* the statics of led_test and led_test1) is abstracted: it may end at any.
LedDispatch ==
    /\ LedQuiet
    /\ SensorMode' \in
         CASE SensorMode = "Init" -> {"Init", "Normal"}   \* led_time_calcu_cb
           [] SensorMode = "Test" -> {"Test", "Normal"}   \* led_test
           [] OTHER -> {SensorMode}
    /\ UNCHANGED <<station, tcp>>

\* led_test1, status 3: the ADC is sane, join the factory's access point.
LedTest1Join ==
    /\ LedQuiet /\ SensorMode = "Test1"
    /\ station' = "joining"
    /\ UNCHANGED <<SensorMode, tcp>>

\* led_test1, status 9: look the server up if there is an address.
LedTest1Lookup ==
    /\ LedQuiet /\ SensorMode = "Test1"
    /\ IF station = "ip" THEN CheckIpStart /\ UNCHANGED SensorMode
                         ELSE SensorMode' = "ConnError" /\ UNCHANGED tcp
    /\ UNCHANGED station

\* led_test1, status 12: the verdict.
LedTest1Verdict ==
    /\ LedQuiet /\ SensorMode = "Test1"
    /\ SensorMode' = IF WebSocketOK THEN "Init" ELSE "ConnError"
    /\ UNCHANGED <<station, tcp>>

LedTick == LedTimeout \/ LedDispatch \/ LedTest1Join \/ LedTest1Lookup \/ LedTest1Verdict

-----------------------------------------------------------------------------
(* gas_main: gas_main_cb, every 100 ms while it is armed.                   *)

CanGas == gas_main /\ lag = LED_PER_GAS
GasUnchanged == UNCHANGED <<clock, gassmartconfig, registered, net>>

\* Mode_init: with an address after 10 s go on, without one after 20 s
\* start provisioning.
HasBootAddress == station = "ip" /\ "BIT_10S" \in init_flag_time
GasInit ==
    /\ CanGas /\ Mode = "Init"
    /\ lag' = 0
    /\ IF HasBootAddress
       THEN /\ init_flag_time' = init_flag_time \ {"BIT_10S"}
            /\ Mode' = "Bias" /\ UNCHANGED SensorMode
       ELSE IF "BIT_30S" \in init_flag_time
       THEN /\ init_flag_time' = {}
            /\ SensorMode' = "Config" /\ Mode' = "Config"
       ELSE UNCHANGED <<Mode, SensorMode, init_flag_time>>
    /\ UNCHANGED <<SubMode, gas_main, Cnt_second, Cnt_10second, clock, WebSocketOK,
                   Cnt_ERROR, Status, gassmartconfig, registered, slot, net, tcp, owed>>

\* InitOK: wait for the 20 s flag, then open a session.
GasBias ==
    /\ CanGas /\ Mode = "Bias"
    /\ lag' = 0
    /\ IF "BIT_30S" \in init_flag_time
       THEN init_flag_time' = {} /\ Mode' = "CreateSession"
       ELSE UNCHANGED <<init_flag_time, Mode>>
    /\ UNCHANGED <<SubMode, SensorMode, gas_main, Cnt_second, Cnt_10second, clock, WebSocketOK,
                   Cnt_ERROR, Status, gassmartconfig, registered, slot, net, tcp, owed>>

\* CheckIpStart, on every pass until some callback changes Mode.
GasCreateSession ==
    /\ CanGas /\ Mode = "CreateSession"
    /\ lag' = 0
    /\ CheckIpStart
    /\ UNCHANGED <<ctl, boot, clock, WebSocketOK, Cnt_ERROR, Status, gassmartconfig,
                   registered, slot, net, owed>>

\* gas_smartconfig: stop the main loop, leave the network, start listening.
\* smartconfig_start refuses when the library is already running.
GasConfig ==
    /\ CanGas /\ Mode = "Config"
    /\ gas_main' = FALSE /\ lag' = 0
    /\ SensorMode' = "Config"
    /\ SubMode' = "START"
    /\ Cnt_Minite' = 0 /\ flag_Time' = {} /\ init_flag_time' = {}
    /\ LeaveNetwork
    /\ sc' = IF sc = "off" THEN "listening" ELSE sc
    /\ UNCHANGED <<Mode, Cnt_second, Cnt_10second, Cnt_Hour, WebSocketOK, Cnt_ERROR,
                   Status, gassmartconfig, registered, slot, tcp, owed>>

(* networking(), with a session believed open.                              *)

\* Lines 58-70 and 113-123: hang up and reconnect after the boot delay.

HangUp ==
    /\ EspconnDisconnect
    /\ ClearBootCounters
    /\ WebSocketOK' = FALSE
    /\ Mode' = "Bias"
    /\ Cnt_ERROR' = CNT_ERROR_HUNG

WatchdogExpired == Cnt_ERROR = 0

GasHangUp ==
    /\ CanGas /\ Mode = "Nomal" /\ WebSocketOK /\ WatchdogExpired
    /\ lag' = 0
    /\ HangUp
    /\ UNCHANGED <<SubMode, SensorMode, gas_main, Status, slot, dns, tcp_server_ip,
                   http, owed>> /\ GasUnchanged

\* What one call of ESP8266_Monitor does, as the control core sees it.
\* Mutant: sending a heartbeat is taken for a sign of life.
ResetsWatchdog_OnSend == {"HEARTRATE", "HEARTRATEACK", "UPDATEPPM"}
ResetsWatchdog == {"HEARTRATEACK", "UPDATEPPM"}
Followup(c) == CASE c = "READGAS" -> "READGASACK"
                 [] c = "NEWIDACK" -> "LOGIN"
                 [] OTHER -> "none"
AnswerTo == [c \in {"LOGIN", "GETNEWID", "HEARTRATE"} |->
               CASE c = "LOGIN" -> "LOGINACK"
                 [] c = "GETNEWID" -> "NEWIDACK"
                 [] OTHER -> "HEARTRATEACK"]

MonitorEffect ==
    [ command   |-> Followup(command),
      latched   |-> Followup(command) # "none",
      Cnt_ERROR |-> IF command \in ResetsWatchdog THEN CNT_ERROR_OK ELSE Cnt_ERROR - 1,
      Status    |-> IF command = "LOGINACK" THEN Status \cup {"BIT_LOGINOK"} ELSE Status,
      flag_Time |-> IF command = "STOPALARM" THEN flag_Time \ {"BIT_MINITE"} ELSE flag_Time,
      owed      |-> IF SomeUpgraded /\ command \in DOMAIN AnswerTo
                    THEN owed \cup {AnswerTo[command]} ELSE owed ]

\* Lines 72-77: Post_Id on every pass until the phone's server has answered;
\* ESP8266_Monitor posts it too when an identity has just been issued.
Registers == command = "NEWIDACK"
PostId == http' = IF gassmartconfig /\ (registered \/ Registers) /\ http = "open"
                  THEN "posted" ELSE http

\* The rest of the pass once ESP8266_Monitor has run.
MonitorRuns ==
    /\ PostId
    /\ registered' = (registered \/ Registers)
    /\ Status' = MonitorEffect.Status
    /\ owed' = MonitorEffect.owed
    /\ Cnt_Minite' = IF command = "STOPALARM" THEN 0 ELSE Cnt_Minite
    /\ UNCHANGED <<SubMode, SensorMode, gas_main, Cnt_Hour, gassmartconfig, net, dns,
                   tcp_server_ip>>

\* Lines 83-94: the periodic commands; the hourly one wins.
PeriodicCommand(m) ==
    IF "BIT_HOUR" \in m.flag_Time THEN SetCommand(m.latched, m.command, "UPDATEPPM")
    ELSE IF "BIT_MINITE" \in m.flag_Time THEN SetCommand(m.latched, m.command, "HEARTRATE")
    ELSE m.command

GasLoggedIn ==
    LET m == MonitorEffect IN
    /\ CanGas /\ Mode = "Nomal" /\ WebSocketOK /\ ~WatchdogExpired
    /\ "BIT_LOGINOK" \in m.Status
    /\ lag' = 0
    /\ MonitorRuns
    /\ Cnt_ERROR' = m.Cnt_ERROR
    /\ command' = PeriodicCommand(m) /\ latched' = m.latched
    /\ flag_Time' = {}
    /\ UNCHANGED <<Mode, boot, WebSocketOK, conn>>

\* Lines 104-125: not logged in, so the watchdog is counted down again.
GasLoggingIn ==
    LET m == MonitorEffect IN
    /\ CanGas /\ Mode = "Nomal" /\ WebSocketOK /\ ~WatchdogExpired
    /\ "BIT_LOGINOK" \notin m.Status
    /\ lag' = 0
    /\ MonitorRuns
    /\ command' = m.command /\ latched' = m.latched
    /\ flag_Time' = m.flag_Time
    /\ IF m.Cnt_ERROR > 0
       THEN Cnt_ERROR' = m.Cnt_ERROR - 1 /\ UNCHANGED <<Mode, boot, WebSocketOK, conn>>
       ELSE HangUp

\* Lines 129-155: no session.  Only a device that was provisioned since
\* power-on tries again.
WasProvisioned == "BIT_HASNET" \in Status

GasOffline ==
    /\ CanGas /\ Mode = "Nomal" /\ ~WebSocketOK
    /\ lag' = 0
    /\ IF ~WasProvisioned
       THEN UNCHANGED <<Mode, boot, Cnt_ERROR>>
       ELSE IF Cnt_ERROR > 0
       THEN Cnt_ERROR' = Cnt_ERROR - 1 /\ UNCHANGED <<Mode, boot>>
       ELSE Cnt_ERROR' = CNT_ERROR_OK /\ Mode' = "Bias" /\ ClearBootCounters
    /\ UNCHANGED <<SubMode, SensorMode, gas_main, WebSocketOK, Status, slot, tcp, owed>>
    /\ GasUnchanged

GasTick == \/ GasInit \/ GasBias \/ GasCreateSession \/ GasConfig
           \/ GasHangUp \/ GasLoggedIn \/ GasLoggingIn \/ GasOffline

-----------------------------------------------------------------------------
(* smartconfig_done: the SmartConfig library's callback.                    *)

ScUnchanged == UNCHANGED <<Cnt_second, Cnt_10second, clock, WebSocketOK, Cnt_ERROR,
                           registered, slot, tcp, owed>>

ScGettingSsid ==
    /\ sc = "listening"
    /\ init_flag_time' = init_flag_time \ {"BIT_30S"}
    /\ SubMode' = "WAIT"
    /\ UNCHANGED <<Mode, SensorMode, gas_main, lag, Status, gassmartconfig, net>>
    /\ ScUnchanged

\* SC_STATUS_LINK: credentials known.  Restart the main loop and join.
ScLink ==
    /\ sc = "listening" /\ SubMode = "WAIT"
    /\ sc' = "linked"
    /\ gassmartconfig' = TRUE
    /\ Mode' = "CreateSession"
    /\ RearmGasMain
    /\ station' = "joining"
    /\ UNCHANGED <<SubMode, SensorMode, init_flag_time, Status>>
    /\ ScUnchanged

\* SC_STATUS_LINK_OVER: the phone has been told the device's address.
ScLinkOver ==
    /\ sc = "linked" /\ Deliverable
    /\ SmartconfigStop
    /\ SensorMode' = "Init"
    /\ Status' = Status \cup {"BIT_HASNET"}
    /\ SubMode' = "FINISH"
    /\ UNCHANGED <<Mode, gas_main, lag, init_flag_time, gassmartconfig, station>>
    /\ ScUnchanged

Smartconfig == ScGettingSsid \/ ScLink \/ ScLinkOver

-----------------------------------------------------------------------------
(* Network callbacks.                                                       *)

CbUnchanged == UNCHANGED <<lag, gas_main, clock, Cnt_ERROR, Status, registered, net>>
NoControl == UNCHANGED <<Mode, SubMode, SensorMode, boot, WebSocketOK, gassmartconfig, slot>>

\* websocket_dns_found with an address: connect, unless an earlier answer to
\* the same lookup already did.  espconn_connect may refuse.
DnsFound ==
    /\ dns > 0 /\ Deliverable
    /\ dns' = dns - 1
    /\ IF tcp_server_ip THEN UNCHANGED <<tcp_server_ip, conn, http>>
       ELSE /\ tcp_server_ip' = TRUE
            /\ LET free == {c \in Conns : conn[c] = "free"} IN
               IF station # "ip" \/ free = {} THEN UNCHANGED conn
               ELSE \E c \in free : conn' = [conn EXCEPT ![c] = "syn"]
            /\ http' = IF station = "ip" /\ http = "none" THEN "syn" ELSE http
    /\ UNCHANGED owed /\ NoControl /\ CbUnchanged

\* websocket_dns_found with NULL.
DnsFailed ==
    /\ dns > 0
    /\ dns' = dns - 1
    /\ UNCHANGED <<tcp_server_ip, conn, http, owed>> /\ NoControl /\ CbUnchanged

\* websocket_tcp_connect_cb: the upgrade request goes out.
WsConnected(c) ==
    /\ conn[c] = "syn" /\ Deliverable
    /\ conn' = [conn EXCEPT ![c] = "open"]
    /\ UNCHANGED <<dns, tcp_server_ip, http, owed>> /\ NoControl /\ CbUnchanged

\* websocket_tcp_recv_cb with "HTTP/1.1 101": a device without an identity
\* asks for one, any other logs in.  Mutant: always log in.
FirstCommand_Login == "LOGIN"
FirstCommand == IF registered THEN "LOGIN" ELSE "GETNEWID"

WsUpgraded(c) ==
    /\ conn[c] = "open" /\ Deliverable
    /\ conn' = [conn EXCEPT ![c] = "upgraded"]
    /\ WebSocketOK' = TRUE
    /\ SubMode' = "FINISH"
    /\ Mode' = "Nomal"
    /\ command' = FirstCommand
    /\ latched' = TRUE
    /\ UNCHANGED <<SensorMode, boot, gassmartconfig, dns, tcp_server_ip, http, owed>>
    /\ CbUnchanged

\* websocket_tcp_recv_cb with a frame (WebRecvData_Proc).
Latches(f) == f \in {"NEWIDACK", "LOGINACK", "READGAS"}
WsFrame(f) ==
    /\ SomeUpgraded /\ Deliverable
    /\ f \in owed \cup AppCommands
    /\ owed' = owed \ {f}
    /\ IF ~WebSocketOK THEN UNCHANGED slot
       ELSE IF Latches(f) THEN command' = f /\ latched' = TRUE
       ELSE command' = SetCommand(latched, command, f) /\ UNCHANGED latched
    /\ UNCHANGED <<Mode, SubMode, SensorMode, boot, WebSocketOK, gassmartconfig, tcp>>
    /\ CbUnchanged

\* websocket_tcp_discon_cb: the peer closed, or our own close is complete.
ConnGone(c) ==
    /\ conn' = [conn EXCEPT ![c] = "free"]
    /\ owed' = IF \E d \in Conns \ {c} : Upgraded(d) THEN owed ELSE {}
WsDisconnected(c) ==
    /\ \/ conn[c] \in {"open", "upgraded"} /\ Deliverable
       \/ conn[c] = "closing"
    /\ ConnGone(c)
    /\ ClearBootCounters
    /\ WebSocketOK' = FALSE
    /\ Mode' = "Bias"
    /\ UNCHANGED <<SubMode, SensorMode, gassmartconfig, slot, dns, tcp_server_ip, http>>
    /\ CbUnchanged

\* websocket_tcp_recon_cb: a TCP error is only printed.
WsError(c) ==
    /\ conn[c] # "free"
    /\ ConnGone(c)
    /\ UNCHANGED <<dns, tcp_server_ip, http>> /\ NoControl /\ CbUnchanged

\* http_connect_cb: post the identity if the phone is waiting for it.
HttpConnected ==
    /\ http = "syn" /\ Deliverable
    /\ http' = IF gassmartconfig /\ registered THEN "posted" ELSE "open"
    /\ UNCHANGED <<dns, tcp_server_ip, conn, owed>> /\ NoControl /\ CbUnchanged

\* http_tcp_recv_cb with {"result":"ok"}.
HttpResultOk ==
    /\ http = "posted" /\ Deliverable
    /\ http' = "open"
    /\ Mode' = "Nomal"
    /\ WebSocketOK' = TRUE
    /\ gassmartconfig' = FALSE
    /\ UNCHANGED <<SubMode, SensorMode, boot, slot, dns, tcp_server_ip, conn, owed>>
    /\ CbUnchanged

\* http_discon_cb, or an error: nothing is done.
HttpGone ==
    /\ http # "none"
    /\ http' = "none"
    /\ UNCHANGED <<dns, tcp_server_ip, conn, owed>> /\ NoControl /\ CbUnchanged

Callback == \/ DnsFound \/ DnsFailed \/ HttpConnected \/ HttpResultOk \/ HttpGone
            \/ \E c \in Conns : WsConnected(c) \/ WsUpgraded(c) \/ WsDisconnected(c) \/ WsError(c)
            \/ \E f \in Acks \cup AppCommands : WsFrame(f)

-----------------------------------------------------------------------------
(* The user's key (module Key) and the WiFi station.                        *)

\* Switch_LongPress_Handler.
LongPress ==
    /\ Mode' = "Config"
    /\ SensorMode' = "Config"
    /\ UNCHANGED <<SubMode, boot, WebSocketOK, gassmartconfig, slot, tcp, owed>>
    /\ CbUnchanged

\* Switch_ShortPress_Handler, the third press: calibrate.
ShortPresses ==
    /\ SensorMode' = "Test"
    /\ UNCHANGED <<Mode, SubMode, boot, WebSocketOK, gassmartconfig, slot, tcp, owed>>
    /\ CbUnchanged

StationUp ==
    /\ station = "joining" /\ station' = "ip"
    /\ UNCHANGED <<ctl, lag, boot, clock, WebSocketOK, Cnt_ERROR, Status, gassmartconfig,
                   registered, slot, sc, tcp, owed>>

StationDown ==
    /\ station = "ip" /\ station' = "joining"
    /\ UNCHANGED <<ctl, lag, boot, clock, WebSocketOK, Cnt_ERROR, Status, gassmartconfig,
                   registered, slot, sc, tcp, owed>>

World == LongPress \/ ShortPresses \/ StationUp \/ StationDown

Next == LedTick \/ GasTick \/ Smartconfig \/ Callback \/ World

\* Both timers keep firing: the SDK's timer list is served whatever the
\* network and the user do.
Timers == WF_vars(LedTick) /\ WF_vars(GasTick)

Spec == Init /\ [][Next]_vars
FairSpec == Spec /\ Timers

-----------------------------------------------------------------------------
(* Safety.                                                                  *)

\* While the main loop is stopped for provisioning, the 60 s timeout in
\* time_calcu_cb is still armed to bring it back: nothing else but the
\* phone would.  (A 101 answer or a LINK_OVER that arrives in that time
\* disarms the timeout by setting SubMode to FINISH.)
MainLoopRecoverable == ~gas_main => SubMode # "FINISH"

\* While the library hops channels to listen for the phone, no main-loop
\* pass runs: neither lookups nor sends compete for the radio, however the
\* key, the timeout and the library's callbacks interleave.
ListeningStopsMainLoop == sc = "listening" => ~gas_main

\* A device that waits to reconnect does not take its session for open, so
\* no later pass works a session that has been given up.
ReconnectingMeansOffline == Mode \in {"Init", "Bias"} => ~WebSocketOK

\* The placeholder identity "HTF..." is neither logged in with nor posted
\* for the phone, whatever frames arrive in whatever order.
IdentityBeforeUse == "BIT_LOGINOK" \in Status \/ http = "posted" => registered

\* What the flags say of session and identity is true of both.
SessionConsistent == ReconnectingMeansOffline /\ IdentityBeforeUse

-----------------------------------------------------------------------------
(* Liveness.                                                                *)

\* The main loop that gas_smartconfig stopped always runs again.
MainLoopRevived == ~gas_main ~> gas_main

\* Provisioning comes to an end, with the phone's help or without it.
ProvisioningEnds == SubMode \in {"START", "WAIT"} ~> SubMode = "FINISH"

\* The delay before a reconnection is over some day, although hang-ups and
\* SmartConfig callbacks restart its counters.
BiasEnds == Mode = "Bias" ~> Mode # "Bias"

\* Both phases in which the device serves nobody come to an end.
WaitsEnd == ProvisioningEnds /\ BiasEnds

\* A session whose connection died without a disconnect callback (a TCP
\* error is only printed) is noticed: the watchdog hangs it up, or the
\* device is already connecting anew.
StaleSessionDropped ==
    WebSocketOK /\ ~SomeUpgraded ~> ~WebSocketOK \/ SomeUpgraded \/ Mode = "CreateSession"

=============================================================================
