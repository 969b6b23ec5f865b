------------------------------- MODULE Panel -------------------------------
(***************************************************************************)
(* What the sensor side of the firmware is doing (SensorMode), tick by tick  *)
(* of pwmad_cb (user_main.c): warm-up, detection, calibration by three       *)
(* presses of the key, the blinking of provisioning, the factory test.  The  *)
(* warm-up and the blinking count in the one Led_Cnt_second, which the      *)
(* callbacks of the connection reset; led_test keeps its phase in a static. *)
(* Module Device lets every phase last as long as it likes; here they are   *)
(* counted.  Of the connection only what touches SensorMode is left.        *)
(***************************************************************************)
EXTENDS Integers, FiniteSets

CONSTANTS
    WARM,    \* ticks of led_time_calcu_cb in Sensor_Init (1800)
    PHASE,   \* ticks of a light phase (20)
    WINDOW   \* ticks after which time_calcu_cb forgets the presses (60)

PanelAssumption ==
    /\ WARM \in Nat /\ PHASE \in Nat \ {0} /\ WINDOW \in Nat
    /\ PHASE < WINDOW /\ WINDOW < WARM

VARIABLES
    SensorMode,
    Mode,           \* "Init", "Config", or any later mode ("run")
    sc,             \* the SmartConfig library: "deaf" once it was started while
                    \*   it was linked already, which it refuses
    finished,       \* SubMode is FINISH; it starts as INIT, so the timeout of
                    \*   provisioning is live from boot, whatever the device does
    Led_Cnt_second,
    test,           \* statics of led_test: i and status
    test1,          \* statics of led_test1: i and status
    Key_Type, Cnt_Key,
    WebSocketOK,
    pressed,        \* the key was pressed since the last tick
    presses,        \* history: the ages of the presses younger than WINDOW
    warm,           \* history: ticks of Sensor_Init since it was entered
    quiet,          \* history: ticks since something reset Led_Cnt_second
    shown,          \* history: the colours shown since the last calibration
                    \*   was asked for
    broken,         \* history: was a calibration ever broken off?
    raced           \* history: a callback of the connection took Mode from a
                    \*   long press before the main loop acted on it, or SubMode
                    \*   from provisioning while the main loop was stopped

sensor == <<SensorMode, Led_Cnt_second, test, test1>>
keys == <<Key_Type, Cnt_Key, pressed, presses>>
history == <<warm, quiet, shown, broken, raced>>
vars == <<sensor, keys, Mode, sc, finished, WebSocketOK, history>>

SensorModes == {"Init", "Normal", "Test", "Config", "Test1", "ConnError"}
Start == [i |-> 0, status |-> 0]

\* Every variable has its type and every counter its range.
TypeOK ==
    /\ SensorMode \in SensorModes /\ Mode \in {"Init", "Config", "run"}
    /\ sc \in {"off", "listening", "linked", "deaf"} /\ finished \in BOOLEAN
    /\ WebSocketOK \in BOOLEAN /\ pressed \in BOOLEAN
    /\ Led_Cnt_second \in 0..(WARM - 1)
    /\ test \in [i : 0..PHASE, status : 0..3]
    /\ test1 \in [i : 0..PHASE, status : 0..12]
    /\ Key_Type \in 0..WINDOW /\ Cnt_Key \in 0..(WINDOW - 1)
    /\ presses \subseteq 0..(WINDOW - 1)
    /\ warm \in 0..WARM /\ quiet \in 0..WARM
    /\ shown \subseteq 1..3 /\ broken \in BOOLEAN /\ raced \in BOOLEAN

\* user_init.
Init ==
    /\ SensorMode \in {"Init", "Test1"} /\ Mode = "Init" /\ sc = "off" /\ finished = FALSE
    /\ Led_Cnt_second = 0 /\ test = Start /\ test1 = Start
    /\ Key_Type = 0 /\ Cnt_Key = 0 /\ pressed = FALSE /\ presses = {}
    /\ WebSocketOK = FALSE
    /\ warm = 0 /\ quiet = 0 /\ shown = {} /\ broken = FALSE /\ raced = FALSE

-----------------------------------------------------------------------------
\* SensorMode gets a new value; what the history makes of it.  The phase of
\* led_test1 is forgotten, since nothing leads back to Sensor_Test1.
Enter(m) ==
    /\ SensorMode' = m
    /\ test1' = Start
    /\ shown' = IF m = "Test" /\ SensorMode # "Test" THEN {} ELSE shown
    /\ broken' = (broken \/ (SensorMode = "Test" /\ m \notin {"Test", "Normal"}))
    /\ warm' = IF m # "Init" THEN 0 ELSE IF SensorMode # "Init" THEN 0 ELSE warm
Stay == UNCHANGED <<SensorMode, test1, warm, shown, broken>>
ResetLed == Led_Cnt_second' = 0 /\ quiet' = 0

\* time_calcu_cb, lines 31-34.  Mutant: the presses are never forgotten.
Capped(n, bound) == IF n < bound THEN n + 1 ELSE n
CountKey_Keeps ==
    /\ Cnt_Key' = (Cnt_Key + 1) % WINDOW
    /\ UNCHANGED Key_Type
CountKey ==
    /\ Cnt_Key' = (Cnt_Key + 1) % WINDOW
    /\ Key_Type' = IF Cnt_Key + 1 >= WINDOW THEN 0 ELSE Key_Type
Tick ==
    /\ CountKey
    /\ pressed' = FALSE
    /\ presses' = {age \in 1..(WINDOW - 1) : age - 1 \in presses}
    /\ UNCHANGED <<WebSocketOK, raced>>

\* The phase counters of led_test and led_test1: is it this tick's turn?
Turn(c) == c.i + 1 > PHASE
Wait(c) == [c EXCEPT !.i = @ + 1]
Turned(s) == [i |-> 0, status |-> s]

Warmed_Late == Led_Cnt_second + 1 > WARM
Warmed == Led_Cnt_second + 1 >= WARM
Counted_Wraps == (Led_Cnt_second + 1) % (PHASE + 1)
Counted == Led_Cnt_second + 1
LedInit ==
    /\ SensorMode = "Init"
    /\ IF Warmed
       THEN Enter("Normal") /\ Led_Cnt_second' = 0
       ELSE /\ Led_Cnt_second' = Counted
            /\ warm' = Capped(warm, WARM) /\ UNCHANGED <<SensorMode, test1, shown, broken>>
    /\ UNCHANGED test

\* led_test: three colours, then the offset is stored.
\* Mutant: the last phase does not reset status.
StoreOffset_Stays ==
    test' = Turned(3) /\ Enter("Normal")
StoreOffset ==
    test' = Turned(0) /\ Enter("Normal")
LedTest ==
    /\ SensorMode = "Test"
    /\ IF ~Turn(test) THEN test' = Wait(test) /\ Stay
       ELSE IF test.status < 3
       THEN /\ test' = Turned(test.status + 1)
            /\ shown' = shown \cup {test.status + 1}
            /\ UNCHANGED <<SensorMode, test1, warm, broken>>
       ELSE StoreOffset
    /\ UNCHANGED Led_Cnt_second

\* led_test1, the factory test: thirteen phases; at 9 the device must have
\* an address, at 12 a session.
LedTest1(address) ==
    /\ SensorMode = "Test1"
    /\ IF ~Turn(test1) \/ test1.status \notin {9, 12} \/ (test1.status = 9 /\ address)
       THEN /\ test1' = IF Turn(test1) THEN Turned(test1.status + 1) ELSE Wait(test1)
            /\ UNCHANGED <<SensorMode, warm, shown, broken>>
       ELSE Enter(IF test1.status = 12 /\ WebSocketOK THEN "Init" ELSE "ConnError")
    /\ UNCHANGED <<Led_Cnt_second, test>>

\* led_config, and pwmad_run while there is an alarm: blinking.
Blink ==
    /\ SensorMode \in {"Config", "Normal"}
    /\ Led_Cnt_second' = IF Led_Cnt_second + 1 > PHASE THEN 0 ELSE Led_Cnt_second + 1
    /\ Stay /\ UNCHANGED test
Steady ==
    /\ SensorMode \in {"Normal", "ConnError"}
    /\ Stay /\ UNCHANGED <<Led_Cnt_second, test>>

\* pwmad_cb; the timeout of time_calcu_cb (line 58) comes before the switch
\* and has set SensorMode by then.
Pwmad ==
    /\ Tick
    /\ UNCHANGED <<Mode, sc, finished>>
    /\ LedInit \/ LedTest \/ (\E a \in BOOLEAN : LedTest1(a)) \/ Blink \/ Steady
    /\ quiet' = IF SensorMode' = "Init" /\ SensorMode # "Init" THEN 0 ELSE Capped(quiet, WARM)

\* The timeout, once Cnt_Minite is past CNT_60S (any tick here) and SubMode is
\* not FINISH: also 60 s after boot, in the middle of a warm-up or calibration.
\* Mutant: the timeout leaves SensorMode alone.
GivenUp_KeepsMode == Stay /\ Led_Cnt_second' = 0
GivenUp == Enter("Init") /\ Led_Cnt_second' = 1
Timeout ==
    /\ ~finished
    /\ finished' = TRUE /\ sc' = "off" /\ Mode' = "run" /\ quiet' = 0
    /\ GivenUp
    /\ Tick
    /\ UNCHANGED test

-----------------------------------------------------------------------------
\* Switch_ShortPress_Handler; two presses are a debounce time apart.
Asked(n) == n >= 3
ShortPress ==
    /\ ~pressed /\ pressed' = TRUE
    /\ Key_Type' = Key_Type + 1
    /\ presses' = presses \cup {0}
    /\ IF Asked(Key_Type') THEN Enter("Test") ELSE Stay
    /\ UNCHANGED <<Cnt_Key, Led_Cnt_second, test, Mode, sc, finished,
                   WebSocketOK, quiet, raced>>

\* gas_smartconfig stops the main loop; LINK and the timeout start it again.
MainLoop == sc \in {"off", "linked"}

\* Switch_LongPress_Handler.
LongPress ==
    /\ ResetLed /\ Mode' = "Config" /\ Enter("Config")
    /\ raced' = (raced /\ ~MainLoop)
    /\ UNCHANGED <<keys, test, sc, finished, WebSocketOK>>

\* Mode_init: without an address provisioning starts.
BootDone ==
    /\ Mode = "Init" /\ MainLoop /\ Mode' = "run"
    /\ UNCHANGED <<sensor, keys, sc, finished, WebSocketOK, history>>
NoAddress ==
    /\ Mode = "Init" /\ MainLoop /\ Mode' = "Config"
    /\ ResetLed /\ Enter("Config")
    /\ UNCHANGED <<keys, test, sc, finished, WebSocketOK, raced>>

\* gas_smartconfig, once.
GasConfig ==
    /\ Mode = "Config" /\ MainLoop
    /\ ResetLed /\ Enter("Config") /\ finished' = FALSE
    /\ sc' = IF sc = "off" THEN "listening" ELSE "deaf"
    /\ raced' = FALSE
    /\ UNCHANGED <<keys, test, Mode, WebSocketOK>>

\* smartconfig_done, LINK and LINK_OVER.
Link ==
    /\ sc = "listening" /\ sc' = "linked" /\ Mode' = "run"
    /\ raced' = FALSE
    /\ UNCHANGED <<sensor, keys, finished, WebSocketOK, warm, quiet, shown, broken>>
LinkOver ==
    /\ sc = "linked" /\ sc' = "off"
    /\ finished' = TRUE /\ Enter("Init") /\ quiet' = 0
    /\ UNCHANGED <<keys, test, Mode, Led_Cnt_second, WebSocketOK, raced>>

\* The 101 answer, websocket_tcp_discon_cb, and the hang-ups of networking().
\* A callback of the connection that was queued already also comes while the
\* main loop is stopped (the LateDelivery of module Device).
Upgrade ==
    /\ WebSocketOK' = TRUE /\ Mode' = "run" /\ finished' = TRUE
    /\ raced' = (raced \/ Mode = "Config" \/ ~MainLoop)
    /\ UNCHANGED <<sensor, keys, sc, warm, quiet, shown, broken>>
Disconnect ==
    /\ WebSocketOK' = FALSE /\ Mode' = "run"
    /\ raced' = (raced \/ (Mode = "Config" /\ MainLoop))
    /\ ResetLed
    /\ UNCHANGED <<SensorMode, test, test1, keys, sc, finished, warm, shown, broken>>

Next == \/ Pwmad \/ Timeout \/ ShortPress \/ LongPress
        \/ BootDone \/ NoAddress \/ GasConfig \/ Link \/ LinkOver \/ Upgrade \/ Disconnect

Spec == Init /\ [][Next]_vars
-----------------------------------------------------------------------------
\* A calibration moves the zero of the sensor, so it is asked for three times
\* within the 3 s window, whatever other presses there were.
CalibrationAsked ==
    SensorMode' = "Test" /\ SensorMode # "Test" => Cardinality(presses') >= 3

\* ... and announced: the three colours are shown before the offset is taken,
\* unless an earlier calibration was broken off and led_test goes on in the
\* middle.
CalibrationAnnounced ==
    SensorMode = "Test" /\ SensorMode' = "Normal" /\ ~broken => shown = 1..3

\* The sensor is heated for the warm-up time, but for one phase of blinking
\* left in the counter, before its readings count.
HeatedBeforeUse ==
    SensorMode = "Init" /\ SensorMode' = "Normal" => warm + 1 >= WARM - PHASE

\* The warm-up is over WARM ticks after the last time a callback of the
\* connection, the key or the timeout started it anew.
WarmupEnds == SensorMode = "Init" => quiet < WARM

\* While provisioning keeps detection off, somebody will end it: the main
\* loop that runs and is about to start it, the timeout, or the library's
\* LINK_OVER; unless a callback of the connection took Mode away between a long
\* press and the next pass of the main loop, or a 101 answer ended SubMode while
\* the main loop was stopped.  Then the device stays blind until the next long
\* press or LINK: the code has no other way out.
BlindAfterRaceOnly ==
    SensorMode = "Config" =>
        (Mode = "Config" /\ MainLoop) \/ ~finished \/ sc = "linked" \/ raced

\* Detection is off for a bounded time, or while somebody is about to end
\* that, but for the two races BlindAfterRaceOnly names.
DetectionComesBack == WarmupEnds /\ BlindAfterRaceOnly

\* Readings are relative to a zero and of a sensor that can be trusted.
SensorTrusted ==
    [][CalibrationAsked /\ CalibrationAnnounced /\ HeatedBeforeUse]_vars

=============================================================================
