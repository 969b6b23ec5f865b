----------------------------- MODULE KeyProofs -----------------------------
(***************************************************************************)
(* Proofs about the key driver and the parts checked beside it: the panel,  *)
(* whose SensorMode the key and the connection change, the watchdog that    *)
(* ends sessions, the UART driver with its rings, lwIP's timeouts and the   *)
(* SNTP client with its calendar; for any warm-up, phases, windows, periods *)
(* in the order of the real ones, sizes of the rings, delays, servers, and  *)
(* any bouncing of the key.                                                 *)
(***************************************************************************)
EXTENDS MCKey, FiniteSetTheorems, SequenceTheorems, NaturalsInduction, WellFoundedInduction, TLAPS

USE PartsAssumption DEF P!PanelAssumption, W!WatchdogAssumption

-----------------------------------------------------------------------------
(* The panel.                                                               *)

\* How far provisioning is: while the library is started or holds a network
\* SensorMode is past the warm-up and the counter blinks.
Provisioning ==
    /\ sc \in {"listening", "deaf"} => ~finished \/ raced
    /\ sc = "off" /\ SensorMode = "Config" => Mode = "Config" \/ raced
    /\ sc # "off" => SensorMode \notin {"Init", "Test1"} /\ Led_Cnt_second <= PHASE
    /\ Mode = "Init" => SensorMode # "Config"

\* The counter of the warm-up against the time it really lasts, and against
\* the time since it was last reset.
Warming ==
    /\ SensorMode = "Init" => Led_Cnt_second <= warm + PHASE /\ quiet <= Led_Cnt_second
    /\ SensorMode = "Test1" => Led_Cnt_second = 0

\* The phase of a calibration is that of its colours, and after it, unless it
\* was broken off, led_test starts from the first.
Colours ==
    ~broken => IF SensorMode = "Test" THEN shown = 1..test.status ELSE test.status = 0

\* Key_Type counts the presses since the counter of the window wrapped.
Since(ages, cnt) == {a \in ages : a <= cnt}
PressesCounted ==
    /\ Key_Type = Cardinality(Since(presses, Cnt_Key))
    /\ ~pressed => 0 \notin presses

PanelInv ==
    P!TypeOK /\ Provisioning /\ Warming /\ Colours /\ PressesCounted /\ P!BlindAfterRaceOnly

LEMMA PanelInitially == P!Init => PanelInv
<1> SUFFICES ASSUME P!Init PROVE PanelInv
  OBVIOUS
<1>1. P!TypeOK
  <2>1. /\ SensorMode \in P!SensorModes /\ Mode \in {"Init", "Config", "run"}
        /\ sc \in {"off", "listening", "linked", "deaf"} /\ finished \in BOOLEAN
        /\ WebSocketOK \in BOOLEAN /\ pressed \in BOOLEAN /\ broken \in BOOLEAN /\ raced \in BOOLEAN
    BY Zenon DEF P!Init, P!SensorModes
  <2>2. P!Start \in [i : 0..PHASE, status : 0..3] /\ P!Start \in [i : 0..PHASE, status : 0..12]
    BY DEF P!Start
  <2>. QED BY <2>1, <2>2 DEF P!Init, P!TypeOK
<1>2. PressesCounted
  <2>1. Since(presses, Cnt_Key) = {}
    BY DEF P!Init, Since
  <2>. QED BY <2>1, FS_EmptySet DEF P!Init, PressesCounted
<1>3. Provisioning /\ Warming /\ Colours /\ P!BlindAfterRaceOnly
  BY DEF P!Init, P!Start, Provisioning, Warming, Colours, P!BlindAfterRaceOnly, P!MainLoop
<1>. QED BY <1>1, <1>2, <1>3 DEF PanelInv

LEMMA ProvisioningInductive == PanelInv /\ [P!Next]_panelVars => Provisioning'
<1> SUFFICES ASSUME PanelInv, [P!Next]_panelVars PROVE Provisioning'
  OBVIOUS
<1> USE DEF PanelInv, P!TypeOK, Provisioning, P!Enter, P!Stay
<1>1. CASE P!Pwmad
  BY <1>1 DEF P!Pwmad, P!Tick, P!LedInit, P!LedTest, P!StoreOffset, P!LedTest1, P!Blink, P!Steady, P!Counted, P!Warmed, P!SensorModes, Warming
<1>2. CASE P!Timeout
  BY <1>2 DEF P!Timeout, P!GivenUp
<1>3. CASE P!ShortPress \/ P!LongPress \/ P!BootDone \/ P!NoAddress
  BY <1>3 DEF P!ShortPress, P!LongPress, P!BootDone, P!NoAddress, P!MainLoop, P!ResetLed, P!sensor, P!keys, P!history
<1>4. CASE P!GasConfig \/ P!Link \/ P!LinkOver
  BY <1>4 DEF P!GasConfig, P!Link, P!LinkOver, P!MainLoop, P!ResetLed, P!sensor, P!keys, P!history
<1>5. CASE P!Upgrade \/ P!Disconnect
  <2>1. sc' = sc /\ SensorMode' = SensorMode /\ Led_Cnt_second' \in {0, Led_Cnt_second} /\ Mode' # "Init"
    BY <1>5 DEF P!Upgrade, P!Disconnect, P!ResetLed, P!sensor, P!keys
  <2>2. ASSUME sc \in {"listening", "deaf"} PROVE finished' = FALSE \/ raced' = TRUE
    <3>1. ~P!MainLoop
      BY <2>2 DEF P!MainLoop
    <3>2. CASE P!Upgrade
      BY <3>1, <3>2, Zenon DEF P!Upgrade
    <3>3. CASE P!Disconnect
      <4>1. finished' = finished /\ raced' = (raced \/ (Mode = "Config" /\ P!MainLoop))
        BY <3>3, Zenon DEF P!Disconnect
      <4>2. finished = FALSE \/ raced = TRUE
        BY <2>2
      <4>. QED BY <4>1, <4>2, Zenon
    <3>. QED BY <1>5, <3>2, <3>3
  <2>3. sc' \in {"listening", "deaf"} => ~finished' \/ raced'
    BY <2>1, <2>2, Zenon
  <2>4. raced \/ (Mode = "Config" /\ P!MainLoop) => raced'
    BY <1>5, Zenon DEF P!Upgrade, P!Disconnect
  <2>5. sc' = "off" /\ SensorMode' = "Config" => raced'
    <3>1. sc = "off" => P!MainLoop
      BY DEF P!MainLoop
    <3>2. sc = "off" /\ SensorMode = "Config" => Mode = "Config" \/ raced
      OBVIOUS
    <3>. QED BY <2>1, <2>4, <3>1, <3>2, Zenon
  <2>. QED BY <2>1, <2>3, <2>5
<1>6. CASE UNCHANGED panelVars
  BY <1>6 DEF panelVars
<1>. QED BY <1>1, <1>2, <1>3, <1>4, <1>5, <1>6 DEF P!Next

LEMMA WarmingInductive == PanelInv /\ [P!Next]_panelVars => Warming'
<1> SUFFICES ASSUME PanelInv, [P!Next]_panelVars PROVE Warming'
  OBVIOUS
<1> USE DEF PanelInv, P!TypeOK, Warming, P!Enter, P!Stay
<1>1. CASE P!Pwmad
  <2>1. quiet' = (IF SensorMode' = "Init" /\ SensorMode # "Init" THEN 0 ELSE P!Capped(quiet, WARM))
    BY <1>1 DEF P!Pwmad
  <2>2. CASE P!LedInit
    BY <2>1, <2>2 DEF P!LedInit, P!Counted, P!Warmed, P!Capped
  <2>3. CASE P!LedTest
    BY <2>3 DEF P!LedTest, P!StoreOffset
  <2>4. CASE \E a \in BOOLEAN : P!LedTest1(a)
    BY <2>1, <2>4 DEF P!LedTest1
  <2>5. CASE P!Blink \/ P!Steady
    BY <2>5 DEF P!Blink, P!Steady
  <2>. QED BY <1>1, <2>2, <2>3, <2>4, <2>5 DEF P!Pwmad
<1>2. CASE P!Timeout
  BY <1>2 DEF P!Timeout, P!GivenUp
<1>3. CASE P!ShortPress \/ P!LongPress \/ P!BootDone \/ P!NoAddress
  BY <1>3 DEF P!ShortPress, P!LongPress, P!BootDone, P!NoAddress, P!ResetLed, P!sensor, P!keys, P!history
<1>4. CASE P!GasConfig \/ P!Link \/ P!LinkOver
  BY <1>4 DEF P!GasConfig, P!Link, P!LinkOver, Provisioning, P!ResetLed, P!sensor, P!keys, P!history
<1>5. CASE P!Upgrade \/ P!Disconnect
  BY <1>5 DEF P!Upgrade, P!Disconnect, P!ResetLed, P!sensor, P!keys
<1>6. CASE UNCHANGED panelVars
  BY <1>6 DEF panelVars
<1>. QED BY <1>1, <1>2, <1>3, <1>4, <1>5, <1>6 DEF P!Next

\* Whoever leaves a calibration, but for its end, breaks it off.
LEMMA Entered ==
    ASSUME PanelInv, NEW m, P!Enter(m), ~broken'
    PROVE  ~broken /\ (SensorMode = "Test" => m \in {"Test", "Normal"})
  BY Zenon DEF P!Enter

LEMMA ColoursInductive == PanelInv /\ [P!Next]_panelVars => Colours'
<1> SUFFICES ASSUME PanelInv, [P!Next]_panelVars PROVE Colours'
  OBVIOUS
<1> USE DEF PanelInv, P!TypeOK, Colours, P!Enter, P!Stay
<1>1. CASE P!Pwmad
  <2>1. CASE P!LedTest
    <3>1. CASE ~P!Turn(test)
      BY <2>1, <3>1 DEF P!LedTest, P!Wait
    <3>2. CASE P!Turn(test) /\ test.status < 3
      <4>1. test'.status = test.status + 1 /\ shown' = shown \cup {test.status + 1}
        BY <2>1, <3>2 DEF P!LedTest, P!Turned
      <4>2. SensorMode = "Test" /\ SensorMode' = "Test" /\ broken' = broken
        BY <2>1, <3>2 DEF P!LedTest
      <4>3. (1..test.status) \cup {test.status + 1} = 1..(test.status + 1)
        OBVIOUS
      <4>. QED BY <4>1, <4>2, <4>3
    <3>3. CASE P!Turn(test) /\ ~(test.status < 3)
      BY <2>1, <3>3 DEF P!LedTest, P!StoreOffset, P!Turned
    <3>. QED BY <3>1, <3>2, <3>3
  <2>2. CASE P!LedInit \/ \E a \in BOOLEAN : P!LedTest1(a)
    BY <2>2 DEF P!LedInit, P!LedTest1
  <2>3. CASE P!Blink \/ P!Steady
    BY <2>3 DEF P!Blink, P!Steady
  <2>. QED BY <1>1, <2>1, <2>2, <2>3 DEF P!Pwmad
<1>2. CASE P!Timeout
  BY <1>2 DEF P!Timeout, P!GivenUp
<1>3. CASE P!ShortPress
  <2>1. CASE P!Enter("Test")
    <3>1. ~broken' => ~broken
      BY <2>1, Entered
    <3>2. CASE SensorMode = "Test"
      BY <1>3, <2>1, <3>1, <3>2 DEF P!ShortPress
    <3>3. CASE SensorMode # "Test"
      <4>1. 1..0 = {}
        OBVIOUS
      <4>. QED BY <1>3, <2>1, <3>1, <3>3, <4>1 DEF P!ShortPress
    <3>. QED BY <3>2, <3>3
  <2>2. CASE P!Stay
    BY <1>3, <2>2 DEF P!ShortPress
  <2>. QED BY <1>3, <2>1, <2>2 DEF P!ShortPress
<1>7. CASE P!LongPress \/ P!BootDone \/ P!NoAddress
  BY <1>7, Entered DEF P!LongPress, P!BootDone, P!NoAddress, P!ResetLed, P!sensor, P!keys, P!history
<1>4. CASE P!GasConfig \/ P!Link \/ P!LinkOver
  BY <1>4 DEF P!GasConfig, P!Link, P!LinkOver, P!ResetLed, P!sensor, P!keys, P!history
<1>5. CASE P!Upgrade \/ P!Disconnect
  BY <1>5 DEF P!Upgrade, P!Disconnect, P!ResetLed, P!sensor, P!keys
<1>6. CASE UNCHANGED panelVars
  BY <1>6 DEF panelVars
<1>. QED BY <1>1, <1>2, <1>3, <1>4, <1>5, <1>6, <1>7 DEF P!Next

LEMMA BlindInductive == PanelInv /\ [P!Next]_panelVars => P!BlindAfterRaceOnly'
<1> SUFFICES ASSUME PanelInv, [P!Next]_panelVars PROVE P!BlindAfterRaceOnly'
  OBVIOUS
<1> USE DEF PanelInv, P!TypeOK, P!BlindAfterRaceOnly, Provisioning, P!MainLoop, P!Enter, P!Stay
<1>1. CASE P!Pwmad
  BY <1>1 DEF P!Pwmad, P!Tick, P!LedInit, P!LedTest, P!StoreOffset, P!LedTest1, P!Blink, P!Steady
<1>2. CASE P!Timeout
  BY <1>2 DEF P!Timeout, P!GivenUp
<1>3. CASE P!ShortPress \/ P!LongPress \/ P!BootDone \/ P!NoAddress
  BY <1>3 DEF P!ShortPress, P!LongPress, P!BootDone, P!NoAddress, P!ResetLed, P!sensor, P!keys, P!history
<1>4. CASE P!GasConfig \/ P!Link \/ P!LinkOver
  BY <1>4 DEF P!GasConfig, P!Link, P!LinkOver, P!ResetLed, P!sensor, P!keys, P!history
<1>5. CASE P!Upgrade \/ P!Disconnect
  <2>1. sc' = sc /\ SensorMode' = SensorMode
    BY <1>5 DEF P!Upgrade, P!Disconnect, P!sensor
  <2>2. CASE P!Upgrade
    <3>1. raced' = (raced \/ Mode = "Config" \/ ~P!MainLoop)
      BY <2>2, Zenon DEF P!Upgrade
    <3>2. finished = TRUE => raced = TRUE \/ Mode = "Config" \/ sc = "linked" \/ SensorMode # "Config"
      OBVIOUS
    <3>3. CASE raced = TRUE \/ Mode = "Config" \/ ~P!MainLoop
      <4>1. raced' = TRUE
        BY <3>1, <3>3, Zenon
      <4>. QED BY <4>1
    <3>4. CASE sc = "linked" \/ SensorMode # "Config"
      BY <2>1, <3>4
    <3>. QED BY <3>2, <3>3, <3>4
  <2>3. CASE P!Disconnect
    <3>1. finished' = finished /\ raced' = (raced \/ (Mode = "Config" /\ P!MainLoop))
      BY <2>3, Zenon DEF P!Disconnect
    <3>2. CASE raced' = TRUE
      BY <3>2
    <3>3. CASE finished = FALSE
      BY <3>1, <3>3
    <3>4. CASE sc = "linked" \/ SensorMode # "Config"
      BY <2>1, <3>4
    <3>5. raced = TRUE \/ (Mode = "Config" /\ P!MainLoop) => raced' = TRUE
      BY <3>1, Zenon
    <3>6. raced = TRUE \/ (Mode = "Config" /\ P!MainLoop) \/ finished = FALSE \/ sc = "linked" \/ SensorMode # "Config"
      OBVIOUS
    <3>. QED BY <3>2, <3>3, <3>4, <3>5, <3>6
  <2>. QED BY <1>5, <2>2, <2>3
<1>6. CASE UNCHANGED panelVars
  BY <1>6 DEF panelVars
<1>. QED BY <1>1, <1>2, <1>3, <1>4, <1>5, <1>6 DEF P!Next

\* Presses grow older by one: as many are at most one tick older.
LEMMA Older ==
    ASSUME NEW S, S \subseteq Int, IsFiniteSet(S)
    PROVE  Cardinality({a + 1 : a \in S}) = Cardinality(S)
<1> DEFINE Aged == {a + 1 : a \in S}
           f == [a \in S |-> a + 1]
<1>1. f \in Bijection(S, Aged)
  <2>1. f \in [S -> Aged] /\ \A t \in Aged : \E a \in S : f[a] = t
    OBVIOUS
  <2>2. \A a, b \in S : f[a] = f[b] => a = b
    OBVIOUS
  <2>. QED BY <2>1, <2>2 DEF Bijection, Injection, Surjection, IsInjective
<1>2. ExistsBijection(S, Aged)
  BY <1>1 DEF ExistsBijection
<1>. QED BY <1>2, FS_Bijection

LEMMA SinceFinite ==
    ASSUME NEW ages, ages \subseteq 0..(WINDOW - 1), NEW cnt \in 0..(WINDOW - 1)
    PROVE  IsFiniteSet(Since(ages, cnt)) /\ Cardinality(Since(ages, cnt)) \in 0..(cnt + 1)
<1>1. IsFiniteSet(0..cnt) /\ Cardinality(0..cnt) = cnt + 1
  BY FS_Interval
<1>2. Since(ages, cnt) \in SUBSET (0..cnt)
  <2>1. ASSUME NEW a \in ages, a <= cnt PROVE a \in 0..cnt
    <3>1. a \in 0..(WINDOW - 1)
      BY <2>1
    <3>. QED BY <2>1, <3>1
  <2>. QED BY <2>1 DEF Since
<1>3. IsFiniteSet(Since(ages, cnt)) /\ Cardinality(Since(ages, cnt)) <= cnt + 1
  BY <1>1, <1>2, FS_Subset
<1>. QED BY <1>3, FS_CardinalityType

LEMMA TickCounted ==
    ASSUME PanelInv, P!Tick
    PROVE  /\ PressesCounted' /\ presses' \subseteq 0..(WINDOW - 1)
           /\ Cnt_Key' \in 0..(WINDOW - 1) /\ Key_Type' \in 0..WINDOW
<1> USE DEF PanelInv, P!TypeOK
<1>1. presses' = {age \in 1..(WINDOW - 1) : age - 1 \in presses} /\ pressed' = FALSE
  BY DEF P!Tick
<1>2. presses' \subseteq 0..(WINDOW - 1) /\ 0 \notin presses'
  BY <1>1
<1>3. CASE Cnt_Key + 1 < WINDOW
  <2>1. Cnt_Key' = Cnt_Key + 1 /\ Key_Type' = Key_Type
    BY <1>3 DEF P!Tick, P!CountKey
  <2>2. Since(presses', Cnt_Key + 1) = {a + 1 : a \in Since(presses, Cnt_Key)}
    <3>1. ASSUME NEW x \in Since(presses', Cnt_Key + 1)
          PROVE  x \in {a + 1 : a \in Since(presses, Cnt_Key)}
      <4>1. x \in Int /\ x - 1 \in Since(presses, Cnt_Key) /\ x = (x - 1) + 1
        BY <3>1, <1>1 DEF Since
      <4>. QED BY <4>1
    <3>2. ASSUME NEW a \in Since(presses, Cnt_Key)
          PROVE  a + 1 \in Since(presses', Cnt_Key + 1)
      BY <3>2, <1>1, <1>3 DEF Since
    <3>. QED BY <3>1, <3>2
  <2>3. Since(presses, Cnt_Key) \subseteq Int /\ IsFiniteSet(Since(presses, Cnt_Key))
    <3>1. presses \subseteq Int
      OBVIOUS
    <3>. QED BY <3>1, SinceFinite DEF Since
  <2>4. Cardinality(Since(presses', Cnt_Key')) = Cardinality(Since(presses, Cnt_Key))
    BY <2>1, <2>2, <2>3, Older
  <2>. QED BY <1>1, <1>2, <1>3, <2>1, <2>4 DEF PressesCounted
<1>4. CASE ~(Cnt_Key + 1 < WINDOW)
  <2>1. Cnt_Key' = 0 /\ Key_Type' = 0
    <3>1. Cnt_Key + 1 = WINDOW /\ WINDOW % WINDOW = 0
      BY <1>4
    <3>. QED BY <1>4, <3>1 DEF P!Tick, P!CountKey
  <2>2. Since(presses', Cnt_Key') = {}
    BY <1>1, <2>1 DEF Since
  <2>3. Cardinality(Since(presses', Cnt_Key')) = 0
    BY <2>2, FS_EmptySet
  <2>. QED BY <1>1, <1>2, <2>1, <2>3 DEF PressesCounted
<1>. QED BY <1>3, <1>4

LEMMA PressCounted ==
    ASSUME PanelInv, P!ShortPress
    PROVE  /\ PressesCounted' /\ presses' \subseteq 0..(WINDOW - 1)
           /\ Cnt_Key' \in 0..(WINDOW - 1) /\ Key_Type' \in 0..WINDOW
           /\ Cardinality(presses') >= Key_Type'
<1> USE DEF PanelInv, P!TypeOK
<1>1. /\ presses' = presses \cup {0} /\ pressed' = TRUE /\ 0 \notin presses
      /\ Key_Type' = Key_Type + 1 /\ Cnt_Key' = Cnt_Key
  BY DEF P!ShortPress, PressesCounted
<1>2. presses' \subseteq 0..(WINDOW - 1)
  BY <1>1
<1>3. Since(presses', Cnt_Key) = Since(presses, Cnt_Key) \cup {0} /\ 0 \notin Since(presses, Cnt_Key)
  BY <1>1 DEF Since
<1>4. Cardinality(Since(presses', Cnt_Key)) = Cardinality(Since(presses, Cnt_Key)) + 1
  BY <1>3, SinceFinite, FS_AddElement
<1>5. Cardinality(Since(presses', Cnt_Key)) \in 0..(Cnt_Key + 1)
  BY <1>2, SinceFinite
<1>6. Cardinality(presses') >= Cardinality(Since(presses', Cnt_Key))
  <2>1. IsFiniteSet(0..(WINDOW - 1))
    BY FS_Interval
  <2>2. IsFiniteSet(presses') /\ Cardinality(presses') \in Nat
    BY <1>2, <2>1, FS_Subset, FS_CardinalityType
  <2>3. Since(presses', Cnt_Key) \in SUBSET presses'
    BY DEF Since
  <2>. QED BY <2>2, <2>3, <1>5, FS_Subset
<1>. QED BY <1>1, <1>2, <1>4, <1>5, <1>6 DEF PressesCounted

LEMMA CountedInductive ==
    ASSUME PanelInv, [P!Next]_panelVars
    PROVE  /\ PressesCounted' /\ presses' \subseteq 0..(WINDOW - 1)
           /\ Cnt_Key' \in 0..(WINDOW - 1) /\ Key_Type' \in 0..WINDOW
<1>1. CASE P!Pwmad \/ P!Timeout
  BY <1>1, TickCounted DEF P!Pwmad, P!Timeout
<1>2. CASE P!ShortPress
  BY <1>2, PressCounted
<1>3. CASE UNCHANGED P!keys
  BY <1>3 DEF P!keys, PressesCounted, PanelInv, P!TypeOK
<1>4. CASE P!LongPress \/ P!BootDone \/ P!NoAddress \/ P!GasConfig \/ P!Link \/ P!LinkOver \/ P!Upgrade \/ P!Disconnect
  BY <1>3, <1>4 DEF P!LongPress, P!BootDone, P!NoAddress, P!GasConfig, P!Link, P!LinkOver, P!Upgrade, P!Disconnect
<1>5. CASE UNCHANGED panelVars
  BY <1>3, <1>5 DEF panelVars, P!keys
<1>. QED BY <1>1, <1>2, <1>4, <1>5 DEF P!Next

\* The types of what changes with SensorMode, and of the rest but the keys.
SensorTyped ==
    /\ SensorMode \in P!SensorModes /\ test1 \in [i : 0..PHASE, status : 0..12]
    /\ warm \in 0..WARM /\ shown \subseteq 1..3 /\ broken \in BOOLEAN
ConnTyped ==
    /\ Mode \in {"Init", "Config", "run"} /\ sc \in {"off", "listening", "linked", "deaf"}
    /\ finished \in BOOLEAN /\ WebSocketOK \in BOOLEAN /\ pressed \in BOOLEAN /\ raced \in BOOLEAN
CountTyped ==
    Led_Cnt_second \in 0..(WARM - 1) /\ quiet \in 0..WARM /\ test \in [i : 0..PHASE, status : 0..3]

LEMMA Typed == P!TypeOK => SensorTyped /\ ConnTyped /\ CountTyped
  BY Zenon DEF P!TypeOK, SensorTyped, ConnTyped, CountTyped

LEMMA Entering ==
    ASSUME P!TypeOK, NEW m \in P!SensorModes, P!Enter(m)
    PROVE  SensorTyped'
<1>1. P!Start \in [i : 0..PHASE, status : 0..12]
  BY DEF P!Start
<1>2. broken' \in BOOLEAN /\ SensorMode' = m /\ test1' = P!Start
  BY Zenon DEF P!Enter
<1>3. shown' \subseteq 1..3 /\ warm' \in 0..WARM
  <2>1. (shown' = {} \/ shown' = shown) /\ (warm' = 0 \/ warm' = warm)
    BY Zenon DEF P!Enter
  <2>2. shown \subseteq 1..3 /\ warm \in 0..WARM /\ 0 \in 0..WARM
    BY Typed DEF SensorTyped
  <2>. QED BY Zenon, <2>1, <2>2
<1>. QED BY Zenon, <1>1, <1>2, <1>3 DEF SensorTyped

LEMMA Staying == ASSUME P!TypeOK, P!Stay PROVE SensorTyped'
  BY Typed, Zenon DEF P!Stay, SensorTyped

LEMMA PwmadTyped == ASSUME P!TypeOK, P!Pwmad PROVE SensorTyped' /\ ConnTyped' /\ CountTyped'
<1>1. ConnTyped'
  BY Typed, Zenon DEF P!Pwmad, P!Tick, ConnTyped
<1>6. quiet' \in 0..WARM
  <2>1. quiet \in 0..WARM
    BY DEF P!TypeOK
  <2>. QED BY <2>1 DEF P!Pwmad, P!Capped
<1>2. CASE P!LedInit
  <2>1. SensorTyped'
    <3>1. CASE P!Warmed
      BY <1>2, <3>1, Entering DEF P!LedInit, P!SensorModes
    <3>2. CASE ~P!Warmed
      <4>1. warm' \in 0..WARM
        BY <1>2, <3>2 DEF P!LedInit, P!Capped, P!TypeOK
      <4>2. UNCHANGED <<SensorMode, test1, shown, broken>>
        BY <1>2, <3>2 DEF P!LedInit
      <4>. QED BY Zenon, <4>1, <4>2, Typed DEF SensorTyped
    <3>. QED BY <3>1, <3>2
  <2>2. Led_Cnt_second' \in 0..(WARM - 1) /\ test' = test
    BY <1>2 DEF P!LedInit, P!Warmed, P!Counted, P!TypeOK
  <2>. QED BY Zenon, <1>1, <1>6, <2>1, <2>2, Typed DEF CountTyped
<1>3. CASE P!LedTest
  <2>. Led_Cnt_second' = Led_Cnt_second
    BY <1>3 DEF P!LedTest
  <2>1. CASE ~P!Turn(test)
    <3>1. test' \in [i : 0..PHASE, status : 0..3] /\ P!Stay
      BY <1>3, <2>1 DEF P!LedTest, P!Turn, P!Wait, P!TypeOK
    <3>. QED BY Zenon, <1>1, <1>6, <3>1, Staying, Typed DEF CountTyped
  <2>2. CASE P!Turn(test) /\ test.status < 3
    <3>1. test' \in [i : 0..PHASE, status : 0..3] /\ shown' \subseteq 1..3
      <4>1. test' = P!Turned(test.status + 1) /\ shown' = shown \cup {test.status + 1}
        BY <1>3, <2>2 DEF P!LedTest
      <4>2. test.status + 1 \in 1..3 /\ shown \subseteq 1..3
        BY <2>2 DEF P!TypeOK
      <4>3. P!Turned(test.status + 1) \in [i : 0..PHASE, status : 0..3]
        BY <4>2 DEF P!Turned
      <4>4. shown' \subseteq 1..3
        BY Zenon, <4>1, <4>2
      <4>. QED BY Zenon, <4>1, <4>3, <4>4
    <3>2. UNCHANGED <<SensorMode, test1, warm, broken>>
      BY <1>3, <2>2 DEF P!LedTest
    <3>. QED BY Zenon, <1>1, <1>6, <3>1, <3>2, Typed DEF CountTyped, SensorTyped
  <2>3. CASE P!Turn(test) /\ ~(test.status < 3)
    <3>1. test' \in [i : 0..PHASE, status : 0..3] /\ P!Enter("Normal")
      BY <1>3, <2>3 DEF P!LedTest, P!Turned, P!StoreOffset
    <3>2. SensorTyped'
      BY <3>1, Entering DEF P!SensorModes
    <3>. QED BY Zenon, <1>1, <1>6, <3>1, <3>2, Typed DEF CountTyped
  <2>. QED BY <2>1, <2>2, <2>3
<1>4. CASE \E a \in BOOLEAN : P!LedTest1(a)
  <2>1. PICK a \in BOOLEAN : P!LedTest1(a)
    BY <1>4
  <2>4. UNCHANGED <<Led_Cnt_second, test>>
    BY <2>1 DEF P!LedTest1
  <2>2. CASE ~P!Turn(test1) \/ test1.status \notin {9, 12} \/ (test1.status = 9 /\ a)
    <3>1. test1' \in [i : 0..PHASE, status : 0..12]
      BY <2>1, <2>2 DEF P!LedTest1, P!Turn, P!Turned, P!Wait, P!TypeOK
    <3>2. UNCHANGED <<SensorMode, warm, shown, broken>>
      BY <2>1, <2>2 DEF P!LedTest1
    <3>. QED BY Zenon, <1>1, <1>6, <2>4, <3>1, <3>2, Typed DEF SensorTyped, CountTyped
  <2>3. CASE ~(~P!Turn(test1) \/ test1.status \notin {9, 12} \/ (test1.status = 9 /\ a))
    <3>1. P!Enter("Init") \/ P!Enter("ConnError")
      BY <2>1, <2>3 DEF P!LedTest1
    <3>2. SensorTyped'
      BY <3>1, Entering DEF P!SensorModes
    <3>. QED BY Zenon, <1>1, <1>6, <2>4, <3>2, Typed DEF CountTyped
  <2>. QED BY <2>2, <2>3
<1>5. CASE P!Blink \/ P!Steady
  <2>1. Led_Cnt_second' \in 0..(WARM - 1)
    BY <1>5 DEF P!Blink, P!Steady, P!TypeOK
  <2>2. P!Stay /\ test' = test
    BY <1>5 DEF P!Blink, P!Steady
  <2>. QED BY Zenon, <1>1, <1>6, <2>1, <2>2, Staying, Typed DEF CountTyped
<1>. QED BY <1>2, <1>3, <1>4, <1>5 DEF P!Pwmad

LEMMA OthersTyped ==
    ASSUME P!TypeOK, [P!Next]_panelVars, ~P!Pwmad
    PROVE  SensorTyped' /\ ConnTyped' /\ CountTyped'
<1>0. 0 \in 0..WARM /\ 0 \in 0..(WARM - 1) /\ 1 \in 0..(WARM - 1)
  OBVIOUS
<1>1. CASE P!Timeout
  <2>1. SensorTyped'
    BY <1>1, Entering DEF P!Timeout, P!GivenUp, P!SensorModes
  <2>2. Led_Cnt_second' = 1 /\ quiet' = 0 /\ test' = test
    BY <1>1 DEF P!Timeout, P!GivenUp
  <2>3. ConnTyped'
    BY Zenon, <1>1, Typed DEF P!Timeout, P!Tick, ConnTyped
  <2>. QED BY Zenon, <1>0, <2>1, <2>2, <2>3, Typed DEF CountTyped
<1>2. CASE P!ShortPress
  <2>1. P!Enter("Test") \/ P!Stay
    BY <1>2 DEF P!ShortPress
  <2>2. SensorTyped'
    BY <2>1, Entering, Staying DEF P!SensorModes
  <2>. QED BY Zenon, <1>2, <2>2, Typed DEF P!ShortPress, ConnTyped, CountTyped
<1>3. CASE P!LongPress \/ P!NoAddress \/ P!GasConfig
  <2>1. SensorTyped'
    BY <1>3, Entering DEF P!LongPress, P!NoAddress, P!GasConfig, P!SensorModes
  <2>2. Led_Cnt_second' = 0 /\ quiet' = 0 /\ test' = test
    BY <1>3 DEF P!LongPress, P!NoAddress, P!GasConfig, P!ResetLed
  <2>3. ConnTyped'
    BY Zenon, <1>3, Typed DEF P!LongPress, P!NoAddress, P!GasConfig, P!keys, ConnTyped
  <2>. QED BY Zenon, <1>0, <2>1, <2>2, <2>3, Typed DEF CountTyped
<1>4. CASE P!LinkOver
  <2>1. SensorTyped'
    BY <1>4, Entering DEF P!LinkOver, P!SensorModes
  <2>. QED BY Zenon, <1>0, <1>4, <2>1, Typed DEF P!LinkOver, P!keys, ConnTyped, CountTyped
<1>5. CASE P!BootDone \/ P!Link
  BY Zenon, <1>5, Typed DEF P!BootDone, P!Link, P!sensor, P!keys, P!history, SensorTyped, ConnTyped, CountTyped
<1>6. CASE P!Upgrade \/ P!Disconnect
  <2>1. ConnTyped' /\ SensorTyped'
    BY Zenon, <1>6, Typed DEF P!Upgrade, P!Disconnect, P!sensor, P!keys, SensorTyped, ConnTyped
  <2>2. CountTyped'
    BY Zenon, <1>0, <1>6, Typed DEF P!Upgrade, P!Disconnect, P!ResetLed, P!sensor, CountTyped
  <2>. QED BY <2>1, <2>2
<1>7. CASE UNCHANGED panelVars
  BY Zenon, <1>7, Typed DEF panelVars, SensorTyped, ConnTyped, CountTyped
<1>. QED BY <1>1, <1>2, <1>3, <1>4, <1>5, <1>6, <1>7 DEF P!Next

LEMMA PanelTyped == ASSUME PanelInv, [P!Next]_panelVars PROVE P!TypeOK'
<1>1. /\ presses' \subseteq 0..(WINDOW - 1) /\ Cnt_Key' \in 0..(WINDOW - 1)
      /\ Key_Type' \in 0..WINDOW
  BY CountedInductive
<1>2. SensorTyped' /\ ConnTyped' /\ CountTyped'
  BY PwmadTyped, OthersTyped DEF PanelInv
<1>. QED BY <1>1, <1>2 DEF P!TypeOK, SensorTyped, ConnTyped, CountTyped

LEMMA PanelInductive == PanelInv /\ [P!Next]_panelVars => PanelInv'
  BY PanelTyped, ProvisioningInductive, WarmingInductive, ColoursInductive, CountedInductive, BlindInductive DEF PanelInv

\* A step of another part leaves the panel alone.
LEMMA PanelAlone == [MCNext]_mcVars => [P!Next]_panelVars
  BY DEF MCNext, Others, mcVars

\* What the panel keeps, whatever the other parts do.
THEOREM PanelInvariant == MCSpec => []PanelInv
<1>1. MCInit => PanelInv
  BY PanelInitially DEF MCInit
<1>2. PanelInv /\ [MCNext]_mcVars => PanelInv'
  BY PanelInductive, PanelAlone
<1>. QED BY <1>1, <1>2, PTL DEF MCSpec

\* Detection comes back: the warm-up ends (a tick is at most one of the
\* counter of the warm-up), and nothing but a race leaves it off.
THEOREM DetectionReturns == MCSpec => []DetectionComesBack
<1>1. PanelInv => DetectionComesBack
  BY DEF PanelInv, Warming, DetectionComesBack, P!DetectionComesBack, P!WarmupEnds, P!TypeOK
<1>. QED BY <1>1, PanelInvariant, PTL

\* The sensor is not trusted before its time, and its zero is moved only by a
\* calibration that was asked for and announced.
THEOREM ReadingsAreTrusted == MCSpec => SensorTrusted
<1> DEFINE A == P!CalibrationAsked /\ P!CalibrationAnnounced /\ P!HeatedBeforeUse
<1>1. PanelInv /\ [MCNext]_mcVars => [A]_P!vars
  <2> SUFFICES ASSUME PanelInv, [P!Next]_panelVars PROVE [A]_P!vars
    BY PanelAlone
  <2> USE DEF PanelInv, P!TypeOK, P!Enter, P!Stay
  <2> USE DEF P!CalibrationAsked, P!CalibrationAnnounced, P!HeatedBeforeUse
  <2>1. CASE P!LedInit /\ P!Pwmad
    BY <2>1 DEF P!LedInit, P!Warmed, Warming
  <2>2. CASE P!LedTest /\ P!Pwmad
    <3>1. ~broken /\ ~(test.status < 3) => shown = 1..3
      <4>. test.status \in 0..3
        OBVIOUS
      <4>. QED BY <2>2 DEF P!LedTest, Colours
    <3>2. P!CalibrationAnnounced
      BY <2>2, <3>1 DEF P!LedTest
    <3>. QED BY <2>2, <3>2 DEF P!LedTest
  <2>3. CASE P!ShortPress
    <3>1. P!CalibrationAsked
      <4>1. Key_Type' \in Int /\ Cardinality(presses') >= Key_Type' /\ Cardinality(presses') \in Int
        <5>1. IsFiniteSet(0..(WINDOW - 1))
          BY FS_Interval
        <5>2. presses' \subseteq 0..(WINDOW - 1) /\ Key_Type' \in 0..WINDOW /\ Cardinality(presses') >= Key_Type'
          BY Zenon, <2>3, PressCounted
        <5>3. Cardinality(presses') \in Nat
          BY Zenon, <5>1, <5>2, FS_Subset, FS_CardinalityType
        <5>. QED BY <5>2, <5>3
      <4>2. SensorMode' = "Test" /\ SensorMode # "Test" => Key_Type' >= 3
        BY <2>3 DEF P!ShortPress, P!Asked
      <4>3. Key_Type' >= 3 => Cardinality(presses') >= 3
        BY <4>1
      <4>4. P!Cardinality(presses') = Cardinality(presses')
        BY DEF P!Cardinality, Cardinality
      <4>. QED BY Zenon, <4>2, <4>3, <4>4
    <3>. QED BY <2>3, <3>1 DEF P!ShortPress
  <2>4. CASE UNCHANGED SensorMode \/ SensorMode' \in {"Config", "Init", "ConnError"}
    BY <2>4
  <2>5. CASE P!Pwmad /\ ~P!LedInit /\ ~P!LedTest
    BY <2>4, <2>5 DEF P!Pwmad, P!LedTest1, P!Blink, P!Steady
  <2>6. CASE P!Timeout \/ P!LongPress \/ P!NoAddress \/ P!GasConfig \/ P!LinkOver
    BY <2>4, <2>6 DEF P!Timeout, P!GivenUp, P!LongPress, P!NoAddress, P!GasConfig, P!LinkOver
  <2>7. CASE P!BootDone \/ P!Link \/ P!Upgrade \/ P!Disconnect
    BY <2>4, <2>7 DEF P!BootDone, P!Link, P!Upgrade, P!Disconnect, P!sensor
  <2>8. CASE UNCHANGED panelVars
    BY <2>4, <2>8 DEF panelVars
  <2>. QED BY <2>1, <2>2, <2>3, <2>5, <2>6, <2>7, <2>8 DEF P!Next
<1>. QED BY <1>1, PanelInvariant, PTL DEF SensorTrusted, P!SensorTrusted, MCSpec

-----------------------------------------------------------------------------
(* The watchdog.                                                            *)

WatchdogTyped ==
    /\ Cnt_ERROR \in Int /\ Cnt_Minite \in 0..(MINUTE - 1)
    /\ flag_Time \subseteq {"MINITE", "HOUR"}
    /\ latched \in W!Latched \cup {"none"}
    /\ answers \in [W!Server -> W!Off..DELAY]

\* A heartbeat, or the upload in its place, is on its way round: the minute
\* is over, it is in the slot, the server has it, or its answer is in the slot.
HeartbeatUnderway ==
    \/ flag_Time # {} /\ Cnt_Minite = 0
    \/ flag_Time = {} /\ Cnt_Minite = 1 /\ command \in {"HEARTRATE", "UPDATEPPM"}
    \/ /\ flag_Time = {} /\ command # "HEARTRATE" /\ answers["HEARTRATEACK"] # W!Off
       /\ answers["HEARTRATEACK"] + Cnt_Minite <= DELAY + 2
    \/ command = "HEARTRATEACK" /\ Cnt_Minite <= DELAY + 2

\* A healthy session was answered within this minute, or within the last one
\* and a heartbeat is under way.
Beating ==
    online /\ ~lost /\ ~short =>
        \/ Cnt_ERROR >= ERROR - Cnt_Minite
        \/ Cnt_ERROR >= ERROR - MINUTE - Cnt_Minite /\ HeartbeatUnderway

WatchdogInv == WatchdogTyped /\ Beating /\ (~online => short)

LEMMA WatchdogInitially == W!Init => WatchdogInv
  BY DEF W!Init, W!Server, W!Latched, W!Off, WatchdogInv, WatchdogTyped, Beating

\* What the two calls of time_calcu_cb make of the minute.
LEMMA MinuteCounted ==
    ASSUME NEW c \in 0..(MINUTE - 1), W!CountTime(c)
    PROVE  /\ Cnt_Minite' \in 0..(MINUTE - 1)
           /\ W!NewFlags(c) \subseteq {"MINITE", "HOUR"}
           /\ \/ Cnt_Minite' = c + 1 /\ W!NewFlags(c) = {}
              \/ Cnt_Minite' = 0 /\ c = MINUTE - 1 /\ "MINITE" \in W!NewFlags(c)
  BY DEF W!CountTime, W!NewFlags, W!MinuteOver, W!HourOver

LEMMA AnswersTyped ==
    ASSUME WatchdogTyped, W!Pass
    PROVE  /\ answers' \in [W!Server -> W!Off..DELAY]
           /\ W!Current = "HEARTRATE" => answers'["HEARTRATEACK"] = DELAY
           /\ W!Current # "HEARTRATE" =>
                answers'["HEARTRATEACK"] = IF answers["HEARTRATEACK"] = W!Off THEN W!Off
                                           ELSE answers["HEARTRATEACK"] - 1
<1>1. answers' = [s \in W!Server |->
                     IF s = "HEARTRATEACK" /\ W!Current = "HEARTRATE" THEN DELAY
                     ELSE IF s = "LOGINACK" /\ W!Current = "LOGIN" THEN DELAY
                     ELSE IF answers[s] = W!Off THEN W!Off ELSE answers[s] - 1]
  BY DEF W!Pass
<1>2. \A s \in W!Server : answers[s] \in W!Off..DELAY /\ answers[s] # 0
  BY DEF WatchdogTyped, W!Pass
<1>. QED BY <1>1, <1>2 DEF W!Server, W!Off

LEMMA PassTyped == ASSUME WatchdogTyped, W!Pass PROVE WatchdogTyped'
<1>1. Cnt_ERROR' \in Int /\ answers' \in [W!Server -> W!Off..DELAY]
  BY AnswersTyped DEF W!Pass, W!Restart, WatchdogTyped
<1>2. latched' \in W!Latched \cup {"none"}
  BY DEF W!Pass, W!AfterMonitor, W!Latched
<1>3. PICK c \in 0..(MINUTE - 1) : W!CountTime(c) /\ flag_Time' = W!NewFlags(c)
  BY DEF W!Pass, WatchdogTyped
<1>. QED BY <1>1, <1>2, <1>3, MinuteCounted DEF WatchdogTyped

\* A pass of a session that stays healthy and is not answered: STOPALARM did
\* not stop the clock, and no latched command took a heartbeat's place.
LEMMA QuietPass ==
    ASSUME WatchdogInv, W!Pass, ~lost', ~short', ~W!Answered
    PROVE  /\ ~lost /\ ~short /\ Cnt_ERROR' = Cnt_ERROR - 1
           /\ W!CountTime(Cnt_Minite) /\ flag_Time' = W!NewFlags(Cnt_Minite)
           /\ command' = W!Periodic(W!AfterMonitor, flag_Time)
           /\ command \in W!Vital => latched = "none"
  BY DEF W!Pass, W!Restart

LEMMA PassBeats == ASSUME WatchdogInv, W!Pass PROVE Beating'
<1> SUFFICES ASSUME ~lost', ~short'
             PROVE  \/ Cnt_ERROR' >= ERROR - Cnt_Minite'
                    \/ Cnt_ERROR' >= ERROR - MINUTE - Cnt_Minite' /\ HeartbeatUnderway'
  BY DEF Beating
<1>1. CASE W!Answered
  <2>1. Cnt_ERROR' = ERROR /\ Cnt_Minite' \in 0..(MINUTE - 1)
    BY <1>1, PassTyped DEF W!Pass, W!Restart, WatchdogInv, WatchdogTyped
  <2>2. \A m \in 0..(MINUTE - 1) : ERROR >= ERROR - m
    OBVIOUS
  <2>3. Cnt_ERROR' >= ERROR - Cnt_Minite'
    BY Zenon, <2>1, <2>2
  <2>. QED BY Zenon, <2>3
<1>2. CASE ~W!Answered
  <2>1. /\ ~lost /\ ~short /\ online /\ Cnt_ERROR' = Cnt_ERROR - 1
        /\ W!CountTime(Cnt_Minite) /\ flag_Time' = W!NewFlags(Cnt_Minite)
        /\ command' = W!Periodic(W!AfterMonitor, flag_Time)
        /\ command \in W!Vital => latched = "none"
    BY <1>2, QuietPass DEF W!Pass
  <2>2. /\ Cnt_Minite' \in 0..(MINUTE - 1)
        /\ \/ Cnt_Minite' = Cnt_Minite + 1 /\ flag_Time' = {}
           \/ Cnt_Minite' = 0 /\ Cnt_Minite = MINUTE - 1 /\ flag_Time' # {}
    BY <2>1, MinuteCounted DEF WatchdogInv, WatchdogTyped
  <2>3. Cnt_ERROR \in Int /\ Cnt_Minite \in 0..(MINUTE - 1) /\ answers["HEARTRATEACK"] \in W!Off..DELAY
    BY DEF WatchdogInv, WatchdogTyped, W!Server
  <2>4. CASE Cnt_ERROR >= ERROR - Cnt_Minite
    <3>1. CASE Cnt_Minite' = Cnt_Minite + 1
      <4>1. Cnt_ERROR' >= ERROR - Cnt_Minite'
        BY <2>1, <2>3, <2>4, <3>1
      <4>. QED BY Zenon, <4>1
    <3>2. CASE Cnt_Minite' = 0 /\ Cnt_Minite = MINUTE - 1 /\ flag_Time' # {}
      <4>1. Cnt_ERROR' >= ERROR - MINUTE - Cnt_Minite'
        BY <2>1, <2>3, <2>4, <3>2
      <4>. QED BY Zenon, <3>2, <4>1 DEF HeartbeatUnderway
    <3>. QED BY Zenon, <2>2, <3>1, <3>2
  <2>5. CASE Cnt_ERROR >= ERROR - MINUTE - Cnt_Minite /\ HeartbeatUnderway
    <3>1. HeartbeatUnderway' /\ Cnt_Minite' = Cnt_Minite + 1
      <4>1. CASE flag_Time # {} /\ Cnt_Minite = 0
        <5>1. command' \in {"HEARTRATE", "UPDATEPPM"}
          BY <2>1, <4>1 DEF W!Periodic, WatchdogInv, WatchdogTyped
        <5>. QED BY <2>2, <2>3, <4>1, <5>1 DEF HeartbeatUnderway
      <4>2. CASE flag_Time = {} /\ Cnt_Minite = 1 /\ command \in {"HEARTRATE", "UPDATEPPM"}
        <5>1. W!Current = "HEARTRATE"
          BY <1>2, <2>1, <4>2 DEF W!Current, W!Vital, W!Answered
        <5>2. answers'["HEARTRATEACK"] = DELAY
          BY <5>1, AnswersTyped DEF WatchdogInv
        <5>3. command' = "none"
          BY <2>1, <4>2, <5>1 DEF W!Periodic, W!AfterMonitor
        <5>4. Cnt_Minite' = 2 /\ flag_Time' = {}
          BY <2>2, <2>3, <4>2
        <5>5. DELAY # W!Off /\ DELAY + 2 <= DELAY + 2
          BY DEF W!Off
        <5>. QED BY <2>3, <4>2, <5>2, <5>3, <5>4, <5>5 DEF HeartbeatUnderway
      <4>3. CASE /\ flag_Time = {} /\ command # "HEARTRATE" /\ answers["HEARTRATEACK"] # W!Off
                 /\ answers["HEARTRATEACK"] + Cnt_Minite <= DELAY + 2
        <5>1. W!Current # "HEARTRATE"
          BY <4>3 DEF W!Current, W!Latched, WatchdogInv, WatchdogTyped
        <5>2. answers["HEARTRATEACK"] # 0
          BY DEF W!Pass, W!Server
        <5>3. answers'["HEARTRATEACK"] = answers["HEARTRATEACK"] - 1
          BY <4>3, <5>1, AnswersTyped DEF WatchdogInv
        <5>4. command' # "HEARTRATE"
          BY <2>1, <4>3 DEF W!Periodic, W!AfterMonitor
        <5>5. answers["HEARTRATEACK"] >= 0
          BY <2>3, <4>3 DEF W!Off
        <5>. QED BY <2>2, <2>3, <4>3, <5>2, <5>3, <5>4, <5>5 DEF HeartbeatUnderway, W!Off
      <4>4. CASE command = "HEARTRATEACK" /\ Cnt_Minite <= DELAY + 2
        BY <1>2, <2>1, <4>4 DEF W!Current, W!Vital, W!Answered
      <4>. QED BY <2>5, <4>1, <4>2, <4>3, <4>4 DEF HeartbeatUnderway
    <3>. QED BY <2>1, <2>3, <2>5, <3>1
  <2>. QED BY <2>1, <2>4, <2>5 DEF WatchdogInv, Beating
<1>. QED BY <1>1, <1>2

LEMMA FrameKept ==
    ASSUME WatchdogInv, NEW f, W!Frame(f), answers' \in [W!Server -> W!Off..DELAY],
           \/ answers' = answers
           \/ f = "LOGINACK" /\ answers'["HEARTRATEACK"] = answers["HEARTRATEACK"]
           \/ f = "HEARTRATEACK" /\ answers["HEARTRATEACK"] # W!Off,
           f # "HEARTRATE"
    PROVE  WatchdogInv'
<1>1. WatchdogTyped'
  BY DEF W!Frame, W!counters, WatchdogInv, WatchdogTyped, W!Latched
<1>2. Beating'
  <2>1. online' = online /\ short' = short /\ (~lost' => ~lost /\ command \notin W!Vital)
    BY Zenon DEF W!Frame
  <2>2. UNCHANGED <<Cnt_ERROR, Cnt_Minite, flag_Time>> /\ command' = f
    BY DEF W!Frame, W!counters
  <2>3. command \notin W!Vital /\ HeartbeatUnderway => HeartbeatUnderway'
    BY <2>2 DEF HeartbeatUnderway, W!Vital, WatchdogInv, WatchdogTyped, W!Server, W!Off
  <2>. QED BY Zenon, <2>1, <2>2, <2>3 DEF Beating, WatchdogInv
<1>3. ~online' => short'
  BY Zenon DEF W!Frame, WatchdogInv
<1>. QED BY Zenon, <1>1, <1>2, <1>3 DEF WatchdogInv

LEMMA WatchdogInductive == WatchdogInv /\ [W!Next]_watchdogVars => WatchdogInv'
<1> SUFFICES ASSUME WatchdogInv, [W!Next]_watchdogVars PROVE WatchdogInv'
  OBVIOUS
<1>1. CASE W!Pass
  <2>1. online'
    BY <1>1 DEF W!Pass
  <2>. QED BY Zenon, <1>1, <2>1, PassTyped, PassBeats DEF WatchdogInv
<1>2. CASE W!HangUp
  <2>1. WatchdogTyped'
    BY <1>2 DEF W!HangUp, W!Rest, W!slot, WatchdogInv, WatchdogTyped, W!Off
  <2>. QED BY <1>2, <2>1 DEF W!HangUp, WatchdogInv, Beating
<1>3. CASE W!Wait
  <2>1. Cnt_Minite' \in 0..(MINUTE - 1) /\ flag_Time' \subseteq {"MINITE", "HOUR"}
    BY <1>3, MinuteCounted DEF W!Wait, WatchdogInv, WatchdogTyped
  <2>2. WatchdogTyped'
    BY <1>3, <2>1 DEF W!Wait, W!slot, WatchdogInv, WatchdogTyped, W!Latched
  <2>3. online' => short'
    BY Zenon, <1>3 DEF W!Wait, WatchdogInv
  <2>4. ~online' => short'
    BY Zenon, <1>3 DEF W!Wait, WatchdogInv
  <2>. QED BY Zenon, <2>2, <2>3, <2>4 DEF WatchdogInv, Beating
<1>4. CASE W!airkiss_wifilan_time_callback
  <2>1. WatchdogTyped'
    BY <1>4 DEF W!airkiss_wifilan_time_callback, W!counters, W!slot, WatchdogInv, WatchdogTyped
  <2>2. online' = online /\ short' = short /\ (~lost' => ~lost /\ flag_Time = {})
    BY Zenon, <1>4 DEF W!airkiss_wifilan_time_callback
  <2>3. UNCHANGED <<Cnt_ERROR, Cnt_Minite, command, answers>> /\ flag_Time' = {}
    BY <1>4 DEF W!airkiss_wifilan_time_callback, W!counters, W!slot
  <2>4. flag_Time = {} /\ HeartbeatUnderway => HeartbeatUnderway'
    BY <2>3 DEF HeartbeatUnderway
  <2>. QED BY Zenon, <2>1, <2>2, <2>3, <2>4 DEF Beating, WatchdogInv
<1>5. ASSUME NEW s \in W!Server, W!ServerAnswers(s) PROVE WatchdogInv'
  <2>. s \in W!Server
    BY <1>5
  <2>1. /\ answers' \in [W!Server -> W!Off..DELAY]
        /\ \/ s = "HEARTRATEACK" /\ answers["HEARTRATEACK"] # W!Off
           \/ s = "LOGINACK" /\ answers'["HEARTRATEACK"] = answers["HEARTRATEACK"]
    <3>1. answers' = [answers EXCEPT ![s] = W!Off] /\ answers[s] # W!Off
      BY <1>5 DEF W!ServerAnswers
    <3>2. answers \in [W!Server -> W!Off..DELAY] /\ W!Off \in W!Off..DELAY
      BY DEF WatchdogInv, WatchdogTyped, W!Off
    <3>3. answers' \in [W!Server -> W!Off..DELAY]
      BY <3>1, <3>2
    <3>4. s = "LOGINACK" => answers'["HEARTRATEACK"] = answers["HEARTRATEACK"]
      BY <3>1, <3>2 DEF W!Server
    <3>5. s = "HEARTRATEACK" \/ s = "LOGINACK"
      BY DEF W!Server
    <3>. QED BY Zenon, <3>1, <3>3, <3>4, <3>5
  <2>2. W!Frame(s) /\ s # "HEARTRATE"
    BY <1>5 DEF W!ServerAnswers, W!Server
  <2>. QED BY <2>1, <2>2, FrameKept
<1>6. ASSUME NEW f \in W!Apps, W!AppAsks(f) PROVE WatchdogInv'
  <2>1. W!Frame(f) /\ answers' = answers /\ f # "HEARTRATE"
    BY <1>6 DEF W!AppAsks, W!Apps
  <2>. QED BY <2>1, FrameKept DEF WatchdogInv, WatchdogTyped
<1>7. CASE W!airkiss_start_discover \/ UNCHANGED watchdogVars
  BY Zenon, <1>7 DEF W!airkiss_start_discover, watchdogVars, W!counters, W!slot, WatchdogInv, WatchdogTyped, Beating, HeartbeatUnderway
<1>. QED BY <1>1, <1>2, <1>3, <1>4, <1>5, <1>6, <1>7 DEF W!Next, W!Time

\* A step of another part leaves the watchdog alone.
LEMMA WatchdogAlone == [MCNext]_mcVars => [W!Next]_watchdogVars
  BY DEF MCNext, Others, mcVars

\* What the session keeps, whatever the other parts do.
THEOREM WatchdogInvariant == MCSpec => []WatchdogInv
<1>1. MCInit => WatchdogInv
  BY WatchdogInitially DEF MCInit
<1>2. WatchdogInv /\ [MCNext]_mcVars => WatchdogInv'
  BY WatchdogInductive, WatchdogAlone
<1>. QED BY <1>1, <1>2, PTL DEF MCSpec

\* A session whose heartbeats and answers all got through is never hung up,
\* but for the one that starts with what a hang-up left in Cnt_ERROR.
THEOREM HealthySessionsAreKept == MCSpec => HealthyKept
<1> DEFINE A == online /\ ~online' => lost \/ short
<1>1. WatchdogInv /\ [MCNext]_mcVars => [A]_W!vars
  <2> SUFFICES ASSUME WatchdogInv, [W!Next]_watchdogVars, online, ~online' PROVE lost \/ short
    BY WatchdogAlone
  <2>1. W!HangUp
    <3>1. ~(UNCHANGED online)
      BY Zenon
    <3>. QED BY Zenon, <3>1 DEF W!Next, W!Time, W!Pass, W!Wait, W!airkiss_wifilan_time_callback, W!ServerAnswers, W!AppAsks, W!Frame, W!airkiss_start_discover, watchdogVars
  <2>2. Cnt_ERROR = 0 /\ Cnt_Minite \in 0..(MINUTE - 1) /\ answers["HEARTRATEACK"] \in W!Off..DELAY
    BY <2>1 DEF W!HangUp, WatchdogInv, WatchdogTyped, W!Server
  <2>3. ~(Cnt_ERROR >= ERROR - Cnt_Minite)
    BY <2>2
  <2>4. HeartbeatUnderway => Cnt_Minite <= DELAY + 3
    BY <2>2 DEF HeartbeatUnderway, W!Off
  <2>5. ~(Cnt_ERROR >= ERROR - MINUTE - Cnt_Minite /\ HeartbeatUnderway)
    <3>1. Cnt_Minite <= DELAY + 3 => ~(Cnt_ERROR >= ERROR - MINUTE - Cnt_Minite)
      BY <2>2
    <3>. QED BY Zenon, <2>4, <3>1
  <2>. QED BY Zenon, <2>3, <2>5 DEF WatchdogInv, Beating
<1>. QED BY <1>1, WatchdogInvariant, PTL DEF HealthyKept, W!HealthyKept, MCSpec

-----------------------------------------------------------------------------
(* The rings of the UART driver.                                             *)

USE DEF U!UartAssumption

\* Positions in a ring are counted modulo its size.
LEMMA Turned ==
    ASSUME NEW x \in Int, -SIZE <= x, x < 2 * SIZE
    PROVE  (x % SIZE) = IF x < 0 THEN x + SIZE ELSE IF x < SIZE THEN x ELSE x - SIZE
<1>1. CASE x < 0
  <2>1. x = SIZE * (-1) + (x + SIZE) /\ x + SIZE \in 0..(SIZE - 1)
    BY <1>1
  <2>. QED BY <1>1, <2>1
<1>2. CASE 0 <= x /\ x < SIZE
  BY <1>2
<1>3. CASE SIZE <= x
  <2>1. x = SIZE * 1 + (x - SIZE) /\ x - SIZE \in 0..(SIZE - 1)
    BY <1>3
  <2>. QED BY <1>3, <2>1
<1>. QED BY <1>1, <1>2, <1>3

LEMMA ModIn == \A x \in Int : (x % SIZE) \in 0..(SIZE - 1)
  OBVIOUS

\* One step over the end of a ring at most.
Wrapped(x) == IF x < SIZE THEN x ELSE x - SIZE

LEMMA WrapsOnce ==
    ASSUME NEW out \in 0..(SIZE - 1), NEW n \in 0..SIZE
    PROVE  ((out + n) % SIZE) = Wrapped(out + n)
<1>1. out + n \in Int /\ -SIZE <= out + n /\ out + n < 2 * SIZE /\ ~(out + n < 0)
  OBVIOUS
<1>. QED BY Zenon, <1>1, Turned DEF Wrapped

LEMMA WrapsAgain ==
    ASSUME NEW out \in 0..(SIZE - 1), NEW n \in 0..SIZE, NEW l \in 0..(SIZE - n)
    PROVE  Wrapped(Wrapped(out + n) + l) = Wrapped(out + (n + l))
  BY DEF Wrapped

\* How far the k-th place is from the place behind the n-th.
LEMMA WrapsBack ==
    ASSUME NEW out \in 0..(SIZE - 1), NEW n \in 0..SIZE, NEW k \in 1..SIZE
    PROVE  ((Wrapped(out + k - 1) - Wrapped(out + n)) % SIZE) = IF k <= n THEN k - 1 - n + SIZE ELSE k - 1 - n
<1> DEFINE x == Wrapped(out + k - 1) - Wrapped(out + n)
<1>1. x \in Int /\ -SIZE <= x /\ x < 2 * SIZE /\ x < SIZE
  BY DEF Wrapped
<1>2. (x % SIZE) = IF x < 0 THEN x + SIZE ELSE IF x < SIZE THEN x ELSE x - SIZE
  <2>. HIDE DEF x
  <2>. QED BY Zenon, <1>1, Turned
<1>3. (IF x < 0 THEN x + SIZE ELSE x) = IF k <= n THEN k - 1 - n + SIZE ELSE k - 1 - n
  BY DEF Wrapped
<1>. QED BY Zenon, <1>1, <1>2, <1>3

\* A ring, and where it is written next.
Byte == 0..BYTES
Ring(b) == b \in U!Buffer /\ b.in = Wrapped(b.out + U!Stored(b))

\* The place of the k-th byte.
Place(b, k) == Wrapped(b.out + k - 1)

LEMMA RingTyped ==
    ASSUME NEW b, Ring(b)
    PROVE  ((b.in - b.out) % SIZE) = ((SIZE - b.Space) % SIZE)
<1>1. b.in \in 0..(SIZE - 1) /\ b.out \in 0..(SIZE - 1) /\ b.Space \in 0..SIZE
  BY DEF Ring, U!Buffer
<1>2. CASE b.in = b.out + SIZE - b.Space
  BY <1>1, <1>2, Turned DEF Ring, U!Stored, Wrapped
<1>3. CASE b.in = b.out - b.Space
  BY <1>1, <1>3, Turned DEF Ring, U!Stored, Wrapped
<1>. QED BY <1>1, <1>2, <1>3 DEF Ring, U!Stored, Wrapped

LEMMA ContentIs ==
    ASSUME NEW b, Ring(b)
    PROVE  /\ U!Stored(b) \in 0..SIZE
           /\ U!Content(b) \in Seq(Byte) /\ Len(U!Content(b)) = U!Stored(b)
           /\ \A k \in 1..U!Stored(b) : U!Content(b)[k] = b.mem[Place(b, k)]
<1>1. b.in \in 0..(SIZE - 1) /\ b.out \in 0..(SIZE - 1) /\ b.Space \in 0..SIZE
  BY DEF Ring, U!Buffer
<1>2. U!Stored(b) \in 0..SIZE
  BY <1>1 DEF U!Stored
<1>3. ASSUME NEW k \in 1..U!Stored(b)
      PROVE  /\ ((b.out + k - 1) % SIZE) = Place(b, k)
             /\ Place(b, k) \in 0..(SIZE - 1) /\ b.mem[Place(b, k)] \in Byte
  <2>1. k - 1 \in 0..SIZE /\ b.out + (k - 1) = b.out + k - 1
    BY <1>1, <1>2
  <2>2. ((b.out + (k - 1)) % SIZE) = Wrapped(b.out + (k - 1))
    BY Zenon, <1>1, <2>1, WrapsOnce
  <2>3. Place(b, k) \in 0..(SIZE - 1)
    BY <1>1, <1>2 DEF Place, Wrapped
  <2>4. b.mem[Place(b, k)] \in Byte
    BY <2>3 DEF Ring, U!Buffer, Byte
  <2>. QED BY <2>1, <2>2, <2>3, <2>4 DEF Place
<1>4. U!Content(b) = [k \in 1..U!Stored(b) |-> b.mem[Place(b, k)]]
  BY <1>3 DEF U!Content
<1>. QED BY <1>2, <1>3, <1>4

\* Where the k-th byte of a longer ring was written.
LEMMA WrittenAt ==
    ASSUME NEW out \in 0..(SIZE - 1), NEW n \in 0..SIZE, NEW l \in 0..(SIZE - n), NEW k \in 1..(n + l)
    PROVE  LET i == Wrapped(out + k - 1)
               p == ((i - Wrapped(out + n)) % SIZE) + 1
           IN  i \in 0..(SIZE - 1) /\ IF k <= n THEN ~(p <= l) ELSE p = k - n /\ p <= l
<1>1. k \in 1..SIZE
  OBVIOUS
<1>2. ((Wrapped(out + k - 1) - Wrapped(out + n)) % SIZE) = IF k <= n THEN k - 1 - n + SIZE ELSE k - 1 - n
  BY Zenon, <1>1, WrapsBack
<1>3. Wrapped(out + k - 1) \in 0..(SIZE - 1)
  BY <1>1 DEF Wrapped
<1>. QED BY <1>1, <1>2, <1>3

\* Copying over the end of the memory.
Copied(mem, in, s) ==
    [i \in 0..(SIZE - 1) |->
        LET k == ((i - in) % SIZE) + 1 IN IF k <= Len(s) THEN s[k] ELSE mem[i]]

LEMMA CopiedTyped ==
    ASSUME NEW mem \in [0..(SIZE - 1) -> Byte], NEW in \in 0..(SIZE - 1), NEW s \in Seq(Byte)
    PROVE  Copied(mem, in, s) \in [0..(SIZE - 1) -> Byte]
<1>1. ASSUME NEW i \in 0..(SIZE - 1), ((i - in) % SIZE) + 1 <= Len(s)
      PROVE  s[((i - in) % SIZE) + 1] \in Byte
  <2>1. ((i - in) % SIZE) \in 0..(SIZE - 1)
    OBVIOUS
  <2>2. ((i - in) % SIZE) + 1 \in 1..Len(s)
    BY <1>1, <2>1
  <2>. QED BY <2>2
<1>. QED BY <1>1 DEF Copied

LEMMA CopiedAt ==
    ASSUME NEW mem, NEW out \in 0..(SIZE - 1), NEW n \in 0..SIZE, NEW s \in Seq(Byte),
           Len(s) <= SIZE - n, NEW k \in 1..(n + Len(s))
    PROVE  /\ k <= n => Copied(mem, Wrapped(out + n), s)[Wrapped(out + k - 1)] = mem[Wrapped(out + k - 1)]
           /\ ~(k <= n) => Copied(mem, Wrapped(out + n), s)[Wrapped(out + k - 1)] = s[k - n]
<1>1. Len(s) \in 0..(SIZE - n)
  OBVIOUS
<1>2. LET i == Wrapped(out + k - 1)
          p == ((i - Wrapped(out + n)) % SIZE) + 1
      IN  i \in 0..(SIZE - 1) /\ IF k <= n THEN ~(p <= Len(s)) ELSE p = k - n /\ p <= Len(s)
  BY Zenon, <1>1, WrittenAt
<1>. QED BY Zenon, <1>2 DEF Copied

\* What is copied in comes behind what was there.
\* x lies in the memory from out on.
Lies(x, mem, out, n) ==
    /\ x \in Seq(Byte) /\ Len(x) = n
    /\ \A k \in 1..n : x[k] = mem[Wrapped(out + k - 1)]

LEMMA CopiedContent ==
    ASSUME NEW mem, NEW out \in 0..(SIZE - 1), NEW n \in 0..SIZE, NEW s \in Seq(Byte),
           Len(s) <= SIZE - n, NEW x, NEW y,
           Lies(x, mem, out, n), Lies(y, Copied(mem, Wrapped(out + n), s), out, n + Len(s))
    PROVE  y = x \o s
<1>1. ASSUME NEW k \in 1..(n + Len(s))
      PROVE  y[k] = IF k <= n THEN x[k] ELSE s[k - n]
  <2>1. /\ k <= n => Copied(mem, Wrapped(out + n), s)[Wrapped(out + k - 1)] = mem[Wrapped(out + k - 1)]
        /\ ~(k <= n) => Copied(mem, Wrapped(out + n), s)[Wrapped(out + k - 1)] = s[k - n]
    <3>1. CASE k <= n
      BY Zenon, <3>1, CopiedAt
    <3>2. CASE ~(k <= n)
      BY <3>2, CopiedAt
    <3>. QED BY Zenon, <3>1, <3>2
  <2>2. k <= n => k \in 1..n
    BY DEF Lies
  <2>. QED BY Zenon, <2>1, <2>2 DEF Lies
<1>2. \A k \in 1..(n + Len(s)) : (x \o s)[k] = IF k <= n THEN x[k] ELSE s[k - n]
  BY DEF Lies
<1>3. x \o s \in Seq(Byte) /\ Len(x \o s) = n + Len(s)
  BY DEF Lies
<1>. QED BY <1>1, <1>2, <1>3, SeqEqual DEF Lies

LEMMA CopiedBehind ==
    ASSUME NEW b, Ring(b), NEW s \in Seq(Byte), Len(s) <= b.Space
    PROVE  /\ Ring(U!Uart_Buf_Cpy(b, s))
           /\ U!Content(U!Uart_Buf_Cpy(b, s)) = U!Content(b) \o s
           /\ U!Stored(U!Uart_Buf_Cpy(b, s)) = U!Stored(b) + Len(s)
<1>1. /\ b.in \in 0..(SIZE - 1) /\ b.out \in 0..(SIZE - 1) /\ b.Space \in 0..SIZE
      /\ b.mem \in [0..(SIZE - 1) -> Byte] /\ Len(s) \in 0..b.Space /\ DOMAIN b.mem = 0..(SIZE - 1)
      /\ U!Stored(b) \in 0..SIZE /\ Len(s) \in 0..(SIZE - U!Stored(b)) /\ Len(s) <= SIZE - U!Stored(b)
      /\ Len(s) \in 0..SIZE
  BY SMTT(40) DEF Ring, U!Buffer, Byte, U!Stored
<1>2. b.in = Wrapped(b.out + U!Stored(b))
  BY DEF Ring
<1>3. U!Uart_Buf_Cpy(b, s) =
        [mem |-> Copied(b.mem, b.in, s), in |-> ((b.in + Len(s)) % SIZE), out |-> b.out, Space |-> b.Space - Len(s)]
  BY <1>1 DEF U!Uart_Buf_Cpy, Copied
<1> DEFINE c == U!Uart_Buf_Cpy(b, s)
<1>4. c.out = b.out /\ c.Space = b.Space - Len(s) /\ c.mem = Copied(b.mem, b.in, s) /\ c.in = ((b.in + Len(s)) % SIZE)
  BY <1>3
<1>5. U!Stored(c) = U!Stored(b) + Len(s)
  BY <1>1, <1>4 DEF U!Stored
<1>6. Ring(c)
  <2>2. c.in = Wrapped(b.out + (U!Stored(b) + Len(s)))
    <3>1. ((b.in + Len(s)) % SIZE) = Wrapped(b.in + Len(s))
      BY Zenon, <1>1, WrapsOnce
    <3>2. Wrapped(Wrapped(b.out + U!Stored(b)) + Len(s)) = Wrapped(b.out + (U!Stored(b) + Len(s)))
      BY Zenon, <1>1, WrapsAgain
    <3>. QED BY Zenon, <1>2, <1>4, <3>1, <3>2
  <2>3. ((b.in + Len(s)) % SIZE) \in 0..(SIZE - 1) /\ b.Space - Len(s) \in 0..SIZE
    <3>1. b.in + Len(s) \in Int /\ b.Space - Len(s) \in 0..SIZE
      BY <1>1
    <3>. QED BY Zenon, <3>1, ModIn
  <2>4. Copied(b.mem, b.in, s) \in [0..(SIZE - 1) -> Byte]
    BY Zenon, <1>1, CopiedTyped
  <2>5. c \in U!Buffer
    <3>1. [mem |-> Copied(b.mem, b.in, s), in |-> ((b.in + Len(s)) % SIZE), out |-> b.out, Space |-> b.Space - Len(s)]
            \in [mem : [0..(SIZE - 1) -> Byte], in : 0..(SIZE - 1), out : 0..(SIZE - 1), Space : 0..SIZE]
      BY Zenon, <1>1, <2>3, <2>4
    <3>. QED BY Zenon, <1>3, <3>1 DEF U!Buffer, Byte
  <2>. QED BY Zenon, <1>4, <1>5, <2>2, <2>5 DEF Ring
<1>7. Lies(U!Content(b), b.mem, b.out, U!Stored(b))
  BY Zenon, ContentIs DEF Place, Lies
<1>8. Lies(U!Content(c), Copied(b.mem, Wrapped(b.out + U!Stored(b)), s), b.out, U!Stored(b) + Len(s))
  <2>. HIDE DEF c
  <2>1. Lies(U!Content(c), c.mem, c.out, U!Stored(c))
    BY Zenon, <1>6, ContentIs DEF Place, Lies
  <2>. QED BY Zenon, <1>2, <1>4, <1>5, <2>1
<1>9. U!Content(c) = U!Content(b) \o s
  <2>. HIDE DEF c
  <2>. QED BY Zenon, <1>1, <1>7, <1>8, CopiedContent
<1>. QED BY <1>5, <1>6, <1>9

\* What is taken out is what was there first.
Taken(b, n) == [b EXCEPT !.out = (@ + n) % SIZE, !.Space = @ + n]

LEMMA TakenFrom ==
    ASSUME NEW b, Ring(b), NEW n \in 0..U!Stored(b)
    PROVE  /\ Ring(Taken(b, n)) /\ U!Stored(Taken(b, n)) = U!Stored(b) - n
           /\ U!Content(b) = SubSeq(U!Content(b), 1, n) \o U!Content(Taken(b, n))
           /\ SubSeq(U!Content(b), 1, n) \in Seq(Byte) /\ Len(SubSeq(U!Content(b), 1, n)) = n
<1> DEFINE c == Taken(b, n)
           m == U!Stored(b)
<1>1. /\ b.in \in 0..(SIZE - 1) /\ b.out \in 0..(SIZE - 1) /\ b.Space \in 0..SIZE
      /\ m \in 0..SIZE /\ n \in 0..SIZE /\ m - n \in 0..(SIZE - n) /\ n + (m - n) = m
      /\ b.Space + n \in 0..SIZE /\ m - n = SIZE - (b.Space + n) /\ b.out + n \in Int
  <2>1. /\ b.in \in 0..(SIZE - 1) /\ b.out \in 0..(SIZE - 1) /\ b.Space \in 0..SIZE /\ m = SIZE - b.Space
    BY DEF Ring, U!Buffer, U!Stored
  <2>2. n \in 0..m
    OBVIOUS
  <2>. HIDE DEF m
  <2>. QED BY <2>1, <2>2
<1>2. c = [b EXCEPT !.out = (b.out + n) % SIZE, !.Space = b.Space + n] /\ b \in U!Buffer
  BY DEF Ring, Taken
<1>3. ((b.out + n) % SIZE) = Wrapped(b.out + n) /\ ((b.out + n) % SIZE) \in 0..(SIZE - 1)
  BY Zenon, <1>1, WrapsOnce, ModIn
<1>4. /\ c.out = Wrapped(b.out + n) /\ c.Space = b.Space + n /\ c.mem = b.mem /\ c.in = b.in
  BY Zenon, <1>2, <1>3 DEF U!Buffer
<1>5. c \in U!Buffer
  BY <1>1, <1>2, <1>3 DEF U!Buffer
<1>6. U!Stored(c) = m - n
  BY Zenon, <1>1, <1>4 DEF U!Stored
<1>7. Ring(c)
  <2>1. Wrapped(Wrapped(b.out + n) + (m - n)) = Wrapped(b.out + m)
    <3>1. b.out \in 0..(SIZE - 1) /\ n \in 0..SIZE /\ m - n \in 0..(SIZE - n)
      BY Zenon, <1>1
    <3>2. Wrapped(Wrapped(b.out + n) + (m - n)) = Wrapped(b.out + (n + (m - n)))
      BY Zenon, <3>1, WrapsAgain
    <3>. QED BY Zenon, <1>1, <3>2
  <2>2. b.in = Wrapped(b.out + m)
    BY DEF Ring
  <2>. HIDE DEF c, m
  <2>. QED BY Zenon, <1>4, <1>5, <1>6, <2>1, <2>2 DEF Ring
<1>8. Lies(U!Content(b), b.mem, b.out, m)
  BY Zenon, ContentIs DEF Place, Lies
<1>9. Lies(U!Content(c), b.mem, Wrapped(b.out + n), m - n)
  <2>. HIDE DEF c
  <2>1. Lies(U!Content(c), c.mem, c.out, U!Stored(c))
    BY Zenon, <1>7, ContentIs DEF Place, Lies
  <2>. QED BY Zenon, <1>4, <1>6, <2>1
<1>10. ASSUME NEW k \in 1..(m - n)
       PROVE  U!Content(c)[k] = U!Content(b)[n + k]
  <2>. HIDE DEF m
  <2>1. k - 1 \in 0..(SIZE - n) /\ n + k \in 1..m /\ k \in Int
    BY <1>1
  <2>2. Wrapped(Wrapped(b.out + n) + (k - 1)) = Wrapped(b.out + (n + (k - 1)))
    BY Zenon, <1>1, <2>1, WrapsAgain
  <2>3. Wrapped(b.out + n) \in Int
    BY <1>3
  <2>4. Wrapped(b.out + n) + k - 1 = Wrapped(b.out + n) + (k - 1)
    BY <2>1, <2>3
  <2>5. b.out + (n + k) - 1 = b.out + (n + (k - 1))
    BY <1>1, <2>1
  <2>. QED BY ZenonT(40), <1>8, <1>9, <2>1, <2>2, <2>4, <2>5 DEF Lies
<1>. PICK x, y : x = U!Content(b) /\ y = U!Content(c)
  OBVIOUS
<1>11. /\ x \in Seq(Byte) /\ Len(x) = m /\ y \in Seq(Byte) /\ Len(y) = m - n
       /\ \A k \in 1..(m - n) : y[k] = x[n + k]
  BY Zenon, <1>8, <1>9, <1>10 DEF Lies
<1>12. x = SubSeq(x, 1, n) \o y /\ SubSeq(x, 1, n) \in Seq(Byte) /\ Len(SubSeq(x, 1, n)) = n
  <2>. HIDE DEF m
  <2>1. n \in Nat /\ n <= m /\ m \in Nat
    BY <1>1
  <2>2. /\ SubSeq(x, 1, n) \in Seq(Byte) /\ Len(SubSeq(x, 1, n)) = n
        /\ \A k \in 1..n : SubSeq(x, 1, n)[k] = x[k]
    BY <1>11, <2>1
  <2>3. ASSUME NEW k \in 1..m PROVE x[k] = (SubSeq(x, 1, n) \o y)[k]
    <3>1. CASE k <= n
      BY <1>11, <2>1, <2>2, <3>1
    <3>2. CASE ~(k <= n)
      <4>1. k - n \in 1..(m - n) /\ n + (k - n) = k
        BY <2>1, <3>2
      <4>. QED BY SMTT(40), <1>11, <2>1, <2>2, <3>2, <4>1
    <3>. QED BY <3>1, <3>2
  <2>4. SubSeq(x, 1, n) \o y \in Seq(Byte) /\ Len(SubSeq(x, 1, n) \o y) = m
    BY <1>11, <2>1, <2>2
  <2>. QED BY <1>11, <2>2, <2>3, <2>4, SeqEqual
<1>. QED BY Zenon, <1>6, <1>7, <1>12

LEMMA DequeuedFrom ==
    ASSUME NEW b, Ring(b), U!Stored(b) < SIZE, NEW n \in 0..U!Stored(b)
    PROVE  U!Deq(b, n) = [data |-> SubSeq(U!Content(b), 1, n), buf |-> Taken(b, n)]
<1>1. /\ b.in \in 0..(SIZE - 1) /\ b.out \in 0..(SIZE - 1) /\ U!Stored(b) \in 0..(SIZE - 1)
      /\ b.in = Wrapped(b.out + U!Stored(b))
  BY DEF Ring, U!Buffer, U!Stored
<1>2. CASE b.out <= b.in
  <2>1. b.out + U!Stored(b) < SIZE
    BY <1>1, <1>2 DEF Wrapped
  <2>2. ASSUME NEW k \in 1..n
        PROVE  b.out + k <= SIZE /\ b.mem[b.out + k - 1] = SubSeq(U!Content(b), 1, n)[k]
    <3>1. b.out + k <= SIZE /\ k \in 1..U!Stored(b) /\ Place(b, k) = b.out + k - 1
      BY <1>1, <2>1 DEF Place, Wrapped
    <3>2. U!Content(b)[k] = b.mem[b.out + k - 1] /\ U!Content(b) \in Seq(Byte) /\ Len(U!Content(b)) = U!Stored(b)
      BY Zenon, <3>1, ContentIs
    <3>3. SubSeq(U!Content(b), 1, n)[k] = U!Content(b)[k]
      <4>. PICK x, m : x = U!Content(b) /\ m = U!Stored(b)
        OBVIOUS
      <4>. QED BY <1>1, <3>2
    <3>. QED BY <3>1, <3>2, <3>3
  <2>3. [k \in 1..n |-> IF b.out + k <= SIZE THEN b.mem[b.out + k - 1] ELSE U!Beyond] = SubSeq(U!Content(b), 1, n)
    <3>1. SubSeq(U!Content(b), 1, n) = [k \in 1..n |-> SubSeq(U!Content(b), 1, n)[k]]
      <4>1. SubSeq(U!Content(b), 1, n) \in Seq(Byte) /\ Len(SubSeq(U!Content(b), 1, n)) = n
        BY Zenon, TakenFrom
      <4>. QED BY <4>1
    <3>. QED BY <2>2, <3>1
  <2>4. ((b.out + n) % SIZE) = b.out + n
    <3>1. b.out + n \in 0..(SIZE - 1)
      BY <1>1, <2>1
    <3>. QED BY <3>1
  <2>. QED BY Zenon, <1>2, <2>3, <2>4 DEF U!Deq, Taken
<1>3. CASE ~(b.out <= b.in)
  BY Zenon, <1>3 DEF U!Deq, Taken
<1>. QED BY <1>2, <1>3

-----------------------------------------------------------------------------
\* Sequences in order, and what they hold.
Sorted(s) == \A i, j \in 1..Len(s) : i < j => s[i] < s[j]
Held(s) == {s[i] : i \in 1..Len(s)}

\* A piece cut out of the middle leaves the order, and takes what it holds.
LEMMA CutOut ==
    ASSUME NEW p \in Seq(Byte), NEW d \in Seq(Byte), NEW q \in Seq(Byte), Sorted((p \o d) \o q)
    PROVE  /\ Sorted(p \o q) /\ Held(p \o q) = Held((p \o d) \o q) \ Held(d)
           /\ Held(d) \subseteq Held((p \o d) \o q)
<1> DEFINE w == (p \o d) \o q
           v == p \o q
           At(i) == IF i <= Len(p) THEN i ELSE i + Len(d)
<1>1. /\ Len(p) \in Nat /\ Len(d) \in Nat /\ Len(q) \in Nat
      /\ Len(w) = Len(p) + Len(d) + Len(q) /\ Len(v) = Len(p) + Len(q)
      /\ \A i \in 1..Len(w) : w[i] \in Int
  BY DEF Byte
<1>2. ASSUME NEW i \in 1..Len(v)
      PROVE  At(i) \in 1..Len(w) /\ w[At(i)] = v[i]
  OBVIOUS
<1>3. ASSUME NEW i \in 1..Len(d)
      PROVE  Len(p) + i \in 1..Len(w) /\ w[Len(p) + i] = d[i]
  OBVIOUS
<1>4. ASSUME NEW i \in 1..Len(w)
      PROVE  \/ i - Len(p) \in 1..Len(d) /\ w[i] = d[i - Len(p)]
             \/ \E j \in 1..Len(v) : i = At(j)
  <2>1. CASE i <= Len(p)
    <3>1. i \in 1..Len(v) /\ i = At(i)
      BY <1>1, <2>1
    <3>. QED BY <3>1
  <2>2. CASE i > Len(p) + Len(d)
    <3>1. i - Len(d) \in 1..Len(v) /\ i = At(i - Len(d))
      BY <1>1, <2>2
    <3>. QED BY <3>1
  <2>3. CASE Len(p) < i /\ i <= Len(p) + Len(d)
    <3>1. i - Len(p) \in 1..Len(d) /\ Len(p) + (i - Len(p)) = i
      BY <1>1, <2>3
    <3>. QED BY <1>3, <3>1
  <2>. QED BY <1>1, <2>1, <2>2, <2>3
<1>5. ASSUME NEW i \in 1..Len(v), NEW j \in 1..Len(v), i < j PROVE v[i] < v[j]
  <2>1. At(i) < At(j)
    BY <1>1, <1>5
  <2>. QED BY <1>2, <2>1 DEF Sorted
<1>6. ASSUME NEW i \in 1..Len(v) PROVE v[i] \notin Held(d)
  <2>1. ASSUME NEW j \in 1..Len(d) PROVE v[i] # d[j]
    <3>1. Len(p) + j # At(i)
      BY <1>1
    <3>2. /\ At(i) \in 1..Len(w) /\ Len(p) + j \in 1..Len(w) /\ w[At(i)] = v[i] /\ w[Len(p) + j] = d[j]
          /\ w[At(i)] \in Int /\ w[Len(p) + j] \in Int
      BY Zenon, <1>1, <1>2, <1>3
    <3>3. At(i) < Len(p) + j \/ Len(p) + j < At(i)
      BY <1>1, <3>1
    <3>4. w[At(i)] < w[Len(p) + j] \/ w[Len(p) + j] < w[At(i)]
      BY Zenon, <3>2, <3>3 DEF Sorted
    <3>. HIDE DEF w, v, At
    <3>. QED BY <3>2, <3>4
  <2>. QED BY <2>1 DEF Held
<1>7. Held(v) = Held(w) \ Held(d)
  <2>1. ASSUME NEW x \in Held(v) PROVE x \in Held(w) \ Held(d)
    <3>1. PICK i \in 1..Len(v) : x = v[i]
      BY <2>1 DEF Held
    <3>. HIDE DEF w, v, At
    <3>. QED BY Zenon, <1>2, <1>6, <3>1 DEF Held
  <2>2. ASSUME NEW x \in Held(w) \ Held(d) PROVE x \in Held(v)
    <3>1. PICK i \in 1..Len(w) : x = w[i]
      BY <2>2 DEF Held
    <3>. HIDE DEF w, v, At
    <3>. QED BY Zenon, <1>2, <1>4, <2>2, <3>1 DEF Held
  <2>. QED BY <2>1, <2>2
<1>8. Held(d) \subseteq Held(w)
  <2>. HIDE DEF w
  <2>. QED BY Zenon, <1>3 DEF Held
<1>. QED BY <1>5, <1>7, <1>8 DEF Sorted

\* What comes last may be anything later.
LEMMA PutLast ==
    ASSUME NEW s \in Seq(Byte), NEW x \in Byte, Sorted(s), \A y \in Held(s) : y < x
    PROVE  Sorted(Append(s, x)) /\ Held(Append(s, x)) = Held(s) \cup {x}
<1>1. /\ Append(s, x) \in Seq(Byte) /\ Len(Append(s, x)) = Len(s) + 1 /\ Len(s) \in Nat
      /\ \A i \in 1..Len(s) : Append(s, x)[i] = s[i] /\ s[i] < x /\ s[i] \in Held(s)
      /\ Append(s, x)[Len(s) + 1] = x
  BY DEF Held
<1>2. \A i \in 1..(Len(s) + 1) : i \in 1..Len(s) \/ i = Len(s) + 1
  BY <1>1
<1>3. Sorted(Append(s, x))
  BY <1>1, <1>2 DEF Sorted
<1>4. Held(Append(s, x)) = Held(s) \cup {x}
  <2>1. \A i \in 1..Len(s) : i \in 1..(Len(s) + 1)
    BY <1>1
  <2>2. Len(s) + 1 \in 1..(Len(s) + 1)
    BY <1>1
  <2>. QED BY Zenon, <1>1, <1>2, <2>1, <2>2 DEF Held
<1>. QED BY <1>3, <1>4

\* Pieces handed on from one place to the next.
LEMMA Joined == \A p, q, d \in Seq(Byte) : (p \o q) \o d = p \o (q \o d)
  BY ConcatAssociative

LEMMA HandedOn ==
    \A p, q, d, r \in Seq(Byte) : (p \o q) \o (d \o r) = (p \o (q \o d)) \o r
<1>1. \A p, q \in Seq(Byte) : p \o q \in Seq(Byte)
  BY ConcatProperties
<1>2. ASSUME NEW p \in Seq(Byte), NEW q \in Seq(Byte), NEW d \in Seq(Byte), NEW r \in Seq(Byte)
      PROVE  (p \o q) \o (d \o r) = (p \o (q \o d)) \o r
  <2>1. (p \o q) \o (d \o r) = ((p \o q) \o d) \o r
    <3>1. p \o q \in Seq(Byte)
      BY Zenon, <1>1
    <3>2. \A s \in Seq(Byte) : (s \o d) \o r = s \o (d \o r)
      BY ZenonT(40), Joined
    <3>. QED BY Zenon, <3>1, <3>2
  <2>2. (p \o q) \o d = p \o (q \o d)
    BY ZenonT(40), Joined
  <2>. QED BY Zenon, <2>1, <2>2
<1>. QED BY Zenon, <1>2

LEMMA AppendedLast ==
    \A s, u \in Seq(Byte), x \in Byte : s \o Append(u, x) = Append(s \o u, x)
<1> SUFFICES ASSUME NEW s \in Seq(Byte), NEW u \in Seq(Byte), NEW x \in Byte
             PROVE  s \o Append(u, x) = Append(s \o u, x)
  OBVIOUS
<1>. QED OBVIOUS

-----------------------------------------------------------------------------
(* The UART driver.                                                          *)

UartTyped ==
    /\ rxFifo \in Seq(Byte) /\ txFifo \in Seq(Byte) /\ gone \in Seq(Byte)
    /\ Len(rxFifo) <= FIFO_LEN /\ Len(txFifo) <= FIFO_LEN
    /\ rxIntr \in BOOLEAN /\ txIntr \in BOOLEAN
    /\ events \in 0..QUEUE /\ arrived \in 0..BYTES

\* The ring of the receiver never fills, as rx_buff_deq needs it.
RingsSound == Ring(pRxBuffer) /\ Ring(pTxBuffer) /\ U!Stored(pRxBuffer) < SIZE

\* Before the receive ring, and from it on.
Ahead == (gone \o txFifo) \o U!Content(pTxBuffer)
Intact ==
    /\ Sorted(U!UnderWay) /\ Held(U!UnderWay) = (1..arrived) \ dropped
    /\ dropped \subseteq 1..arrived

UartInv == UartTyped /\ RingsSound /\ Intact /\ U!NeverDeaf /\ U!NeverStuck

\* The stream is a sequence of bytes, and so are its pieces.
LEMMA Pieces ==
    ASSUME UartTyped, RingsSound
    PROVE  /\ U!Content(pRxBuffer) \in Seq(Byte) /\ U!Content(pTxBuffer) \in Seq(Byte)
           /\ Len(U!Content(pRxBuffer)) = U!Stored(pRxBuffer)
           /\ Len(U!Content(pTxBuffer)) = U!Stored(pTxBuffer)
           /\ U!Stored(pRxBuffer) \in 0..SIZE /\ U!Stored(pTxBuffer) \in 0..SIZE
           /\ pRxBuffer.Space = SIZE - U!Stored(pRxBuffer) /\ pTxBuffer.Space = SIZE - U!Stored(pTxBuffer)
           /\ gone \o txFifo \in Seq(Byte) /\ Ahead \in Seq(Byte)
           /\ Ahead \o U!Content(pRxBuffer) \in Seq(Byte)
           /\ U!UnderWay = (Ahead \o U!Content(pRxBuffer)) \o rxFifo /\ U!UnderWay \in Seq(Byte)
<1>1. /\ U!Content(pRxBuffer) \in Seq(Byte) /\ U!Content(pTxBuffer) \in Seq(Byte)
      /\ Len(U!Content(pRxBuffer)) = U!Stored(pRxBuffer)
      /\ Len(U!Content(pTxBuffer)) = U!Stored(pTxBuffer)
      /\ U!Stored(pRxBuffer) \in 0..SIZE /\ U!Stored(pTxBuffer) \in 0..SIZE
  BY Zenon, ContentIs DEF RingsSound
<1>2. pRxBuffer.Space = SIZE - U!Stored(pRxBuffer) /\ pTxBuffer.Space = SIZE - U!Stored(pTxBuffer)
  <2>1. pRxBuffer.Space \in 0..SIZE /\ pTxBuffer.Space \in 0..SIZE
    BY DEF RingsSound, Ring, U!Buffer
  <2>2. \A x \in 0..SIZE : x = SIZE - (SIZE - x)
    OBVIOUS
  <2>. QED BY Zenon, <2>1, <2>2 DEF U!Stored
<1>3. gone \o txFifo \in Seq(Byte)
  BY Zenon, ConcatProperties DEF UartTyped
<1>4. Ahead \in Seq(Byte)
  BY Zenon, <1>1, <1>3, ConcatProperties DEF Ahead
<1>5. Ahead \o U!Content(pRxBuffer) \in Seq(Byte)
  BY Zenon, <1>1, <1>4, ConcatProperties
<1>6. U!UnderWay = (Ahead \o U!Content(pRxBuffer)) \o rxFifo
  BY Zenon DEF U!UnderWay, Ahead
<1>7. (Ahead \o U!Content(pRxBuffer)) \o rxFifo \in Seq(Byte)
  BY Zenon, <1>5, ConcatProperties DEF UartTyped
<1>. QED BY Zenon, <1>1, <1>2, <1>3, <1>4, <1>5, <1>6, <1>7

LEMMA UartInitially == U!Init => UartInv
<1> SUFFICES ASSUME U!Init PROVE UartInv
  OBVIOUS
<1>1. UartTyped
  <2>1. <<>> \in Seq(Byte) /\ Len(<<>>) = 0 /\ 0 <= FIFO_LEN /\ 0 \in 0..QUEUE /\ 0 \in 0..BYTES
    OBVIOUS
  <2>2. rxFifo = <<>> /\ txFifo = <<>> /\ gone = <<>> /\ events = 0 /\ arrived = 0
    BY Zenon DEF U!Init
  <2>3. rxIntr \in BOOLEAN /\ txIntr \in BOOLEAN
    BY Zenon DEF U!Init
  <2>. QED BY <2>1, <2>2, <2>3 DEF UartTyped
<1>2. /\ U!Stored(U!Uart_Buf_Init) = 0 /\ Ring(U!Uart_Buf_Init)
  <2>1. U!Stored(U!Uart_Buf_Init) = 0
    BY DEF U!Uart_Buf_Init, U!Stored
  <2>. QED BY <2>1 DEF Ring, U!Buffer, U!Uart_Buf_Init, Wrapped
<1>3. RingsSound
  BY <1>2 DEF U!Init, RingsSound
<1>4. U!Content(pRxBuffer) = <<>> /\ U!Content(pTxBuffer) = <<>>
  <2>1. Len(U!Content(pRxBuffer)) = 0 /\ Len(U!Content(pTxBuffer)) = 0
    BY Zenon, <1>1, <1>2, <1>3, Pieces DEF U!Init
  <2>. QED BY <1>1, <1>3, <2>1, Pieces, EmptySeq
<1>5. U!UnderWay = <<>>
  BY <1>4 DEF U!Init, U!UnderWay
<1>6. Intact
  BY <1>5 DEF Intact, Sorted, Held, U!Init
<1>7. U!NeverDeaf /\ U!NeverStuck
  BY <1>2 DEF U!Init, U!NeverDeaf, U!NeverStuck
<1>. QED BY <1>1, <1>3, <1>6, <1>7 DEF UartInv

LEMMA ArriveKeeps == ASSUME UartInv, U!Arrive PROVE UartInv'
<1> USE DEF UartInv
<1>1. UNCHANGED <<txFifo, rxIntr, txIntr, events, pRxBuffer, pTxBuffer, gone>> /\ arrived' = arrived + 1
      /\ arrived + 1 \in Byte /\ arrived' \in 0..BYTES /\ arrived \in Nat
  BY DEF U!Arrive, UartTyped, Byte
<1>2. RingsSound' /\ U!NeverDeaf' /\ U!NeverStuck'
  BY Zenon, <1>1 DEF RingsSound, U!NeverDeaf, U!NeverStuck
<1>3. CASE Len(rxFifo) < FIFO_LEN
  <2>1. rxFifo' = Append(rxFifo, arrived + 1) /\ dropped' = dropped
    BY <1>3 DEF U!Arrive
  <2>2. UartTyped'
    BY <1>1, <1>3, <2>1 DEF UartTyped
  <2>3. U!UnderWay' = Append(U!UnderWay, arrived + 1)
    <3>1. U!UnderWay' = (Ahead \o U!Content(pRxBuffer)) \o rxFifo'
      BY Zenon, <1>1 DEF U!UnderWay, Ahead
    <3>2. U!UnderWay = (Ahead \o U!Content(pRxBuffer)) \o rxFifo /\ Ahead \o U!Content(pRxBuffer) \in Seq(Byte)
      BY Zenon, Pieces
    <3>3. \A x \in Byte : (Ahead \o U!Content(pRxBuffer)) \o Append(rxFifo, x) = Append((Ahead \o U!Content(pRxBuffer)) \o rxFifo, x)
      BY Zenon, <3>2, AppendedLast DEF UartTyped
    <3>. QED BY Zenon, <1>1, <2>1, <3>1, <3>2, <3>3
  <2>4. U!UnderWay \in Seq(Byte) /\ \A y \in Held(U!UnderWay) : y < arrived + 1
    <3>1. \A y \in (1..arrived) \ dropped : y < arrived + 1
      BY <1>1
    <3>. QED BY Zenon, <3>1, Pieces DEF Intact
  <2>5. Sorted(U!UnderWay') /\ Held(U!UnderWay') = Held(U!UnderWay) \cup {arrived + 1}
    BY Zenon, <1>1, <2>3, <2>4, PutLast DEF Intact
  <2>6. ((1..arrived) \ dropped) \cup {arrived + 1} = (1..(arrived + 1)) \ dropped /\ dropped \subseteq 1..(arrived + 1)
    BY <1>1 DEF Intact
  <2>. QED BY Zenon, <1>1, <1>2, <2>1, <2>2, <2>5, <2>6 DEF Intact
<1>4. CASE ~(Len(rxFifo) < FIFO_LEN)
  <2>1. rxFifo' = rxFifo /\ dropped' = dropped \cup {arrived + 1}
    BY <1>4 DEF U!Arrive
  <2>2. UartTyped'
    BY <1>1, <2>1 DEF UartTyped
  <2>3. U!UnderWay' = U!UnderWay
    BY Zenon, <1>1, <2>1 DEF U!UnderWay
  <2>4. (1..arrived) \ dropped = (1..(arrived + 1)) \ (dropped \cup {arrived + 1}) /\ dropped \cup {arrived + 1} \subseteq 1..(arrived + 1)
    BY <1>1 DEF Intact
  <2>. QED BY Zenon, <1>1, <1>2, <2>1, <2>2, <2>3, <2>4 DEF Intact
<1>. QED BY <1>3, <1>4

LEMMA RxInterruptKeeps == ASSUME UartInv, U!RxInterrupt PROVE UartInv'
<1>1. UNCHANGED <<rxFifo, txFifo, txIntr, pRxBuffer, pTxBuffer, arrived, gone, dropped>>
      /\ events' \in 0..QUEUE /\ events' > 0 /\ rxIntr' = FALSE
  BY DEF U!RxInterrupt, UartInv, UartTyped
<1>. QED BY Zenon, <1>1 DEF UartInv, UartTyped, RingsSound, Intact, U!UnderWay, U!NeverDeaf, U!NeverStuck

LEMMA EnqueueKeeps == ASSUME UartInv, U!Uart_rx_buff_enq PROVE UartInv'
<1> USE DEF UartInv
<1>1. UNCHANGED <<txFifo, txIntr, pTxBuffer, arrived, gone, dropped>> /\ events > 0 /\ events' = events - 1
  BY DEF U!Uart_rx_buff_enq
<1>2. events' \in 0..QUEUE
  BY <1>1 DEF UartTyped
<1>4. CASE U!Fits
  <2>1. /\ pRxBuffer' = U!Uart_Buf_Cpy(pRxBuffer, rxFifo) /\ rxFifo' = <<>>
        /\ rxIntr' = (rxIntr \/ pRxBuffer'.Space >= FIFO_LEN) /\ Len(rxFifo) < pRxBuffer.Space
    BY <1>4 DEF U!Uart_rx_buff_enq, U!Fits
  <2>2. Len(rxFifo) <= pRxBuffer.Space /\ rxFifo \in Seq(Byte) /\ Len(rxFifo) \in Nat
    <3>1. rxFifo \in Seq(Byte) /\ Len(rxFifo) \in Nat
      BY DEF UartTyped
    <3>2. pRxBuffer.Space \in 0..SIZE
      BY DEF RingsSound, Ring, U!Buffer
    <3>. QED BY <2>1, <3>1, <3>2
  <2>3. /\ Ring(pRxBuffer') /\ U!Content(pRxBuffer') = U!Content(pRxBuffer) \o rxFifo
        /\ U!Stored(pRxBuffer') = U!Stored(pRxBuffer) + Len(rxFifo)
    BY Zenon, <2>1, <2>2, CopiedBehind DEF RingsSound
  <2>4. U!Stored(pRxBuffer') < SIZE
    BY <2>1, <2>2, <2>3, Pieces
  <2>5. RingsSound'
    BY Zenon, <1>1, <2>3, <2>4 DEF RingsSound
  <2>6. UartTyped'
    <3>1. <<>> \in Seq(Byte) /\ Len(<<>>) <= FIFO_LEN
      OBVIOUS
    <3>2. rxIntr' \in BOOLEAN
      BY Zenon, <2>1 DEF UartTyped
    <3>. QED BY Zenon, <1>1, <1>2, <2>1, <3>1, <3>2 DEF UartTyped
  <2>7. U!UnderWay' = U!UnderWay
    <3>1. U!UnderWay' = (Ahead \o U!Content(pRxBuffer')) \o <<>>
      BY Zenon, <1>1, <2>1 DEF U!UnderWay, Ahead
    <3>2. /\ Ahead \o U!Content(pRxBuffer') = U!UnderWay /\ U!UnderWay \in Seq(Byte)
      <4>1. /\ Ahead \in Seq(Byte) /\ U!Content(pRxBuffer) \in Seq(Byte)
            /\ U!UnderWay = (Ahead \o U!Content(pRxBuffer)) \o rxFifo /\ U!UnderWay \in Seq(Byte)
        BY Zenon, Pieces
      <4>2. (Ahead \o U!Content(pRxBuffer)) \o rxFifo = Ahead \o (U!Content(pRxBuffer) \o rxFifo)
        BY ZenonT(40), <2>2, <4>1, Joined
      <4>. QED BY Zenon, <2>3, <4>1, <4>2
    <3>. QED BY <3>1, <3>2
  <2>8. U!NeverDeaf'
    <3>1. ~rxIntr' => ~(pRxBuffer'.Space >= FIFO_LEN)
      BY Zenon, <2>1
    <3>2. ~(pRxBuffer'.Space >= FIFO_LEN) => U!Stored(pRxBuffer') > 0
      <4>1. pRxBuffer'.Space \in 0..SIZE /\ U!Stored(pRxBuffer') = SIZE - pRxBuffer'.Space
        <5>1. pRxBuffer'.Space \in 0..SIZE
          BY <2>3 DEF Ring, U!Buffer
        <5>. QED BY Zenon, <5>1 DEF U!Stored
      <4>. QED BY <4>1
    <3>. QED BY Zenon, <3>1, <3>2 DEF U!NeverDeaf
  <2>. QED BY Zenon, <1>1, <2>5, <2>6, <2>7, <2>8 DEF Intact, U!NeverStuck
<1>5. CASE ~U!Fits
  <2>1. UNCHANGED <<pRxBuffer, rxFifo, rxIntr>>
    BY <1>5 DEF U!Uart_rx_buff_enq
  <2>2. U!Stored(pRxBuffer) > 0
    BY <1>5, Pieces DEF U!Fits, UartTyped
  <2>. QED BY Zenon, <1>1, <1>2, <2>1, <2>2 DEF UartTyped, RingsSound, Intact, U!UnderWay, U!NeverDeaf, U!NeverStuck
<1>. QED BY <1>4, <1>5

\* What rx_buff_deq hands to tx_buff_enq.
LEMMA FetchedPiece ==
    ASSUME UartInv, U!uart_test_rx
    PROVE  \E d \in Seq(Byte) :
             /\ Ring(pRxBuffer') /\ U!Content(pRxBuffer) = d \o U!Content(pRxBuffer')
             /\ U!Stored(pRxBuffer') <= U!Stored(pRxBuffer)
             /\ U!tx_buff_enq(d)
<1>1. U!Stored(pRxBuffer) \in 0..SIZE /\ U!Stored(pRxBuffer) < SIZE /\ Ring(pRxBuffer)
  BY Zenon, Pieces DEF UartInv, RingsSound
<1>2. PICK n \in 0..U!Stored(pRxBuffer) : U!Received = U!Deq(pRxBuffer, n)
  <2>1. (IF CHUNK > U!Stored(pRxBuffer) THEN U!Stored(pRxBuffer) ELSE CHUNK) \in 0..U!Stored(pRxBuffer)
    BY <1>1
  <2>. QED BY Zenon, <2>1 DEF U!Received
<1> DEFINE d == SubSeq(U!Content(pRxBuffer), 1, n)
<1>3. U!Received = [data |-> d, buf |-> Taken(pRxBuffer, n)]
  BY Zenon, <1>1, <1>2, DequeuedFrom
<1>4. U!Received.data = d /\ U!Received.buf = Taken(pRxBuffer, n)
  BY Zenon, <1>3
<1>5. pRxBuffer' = Taken(pRxBuffer, n) /\ U!tx_buff_enq(d)
  BY Zenon, <1>4 DEF U!uart_test_rx
<1>6. /\ Ring(Taken(pRxBuffer, n)) /\ U!Stored(Taken(pRxBuffer, n)) = U!Stored(pRxBuffer) - n
      /\ U!Content(pRxBuffer) = d \o U!Content(Taken(pRxBuffer, n))
      /\ d \in Seq(Byte)
  BY Zenon, <1>1, TakenFrom
<1>7. U!Stored(pRxBuffer) - n <= U!Stored(pRxBuffer)
  BY <1>1
<1>. HIDE DEF d
<1>. QED BY Zenon, <1>5, <1>6, <1>7

LEMMA TestKeeps == ASSUME UartInv, U!uart_test_rx PROVE UartInv'
<1> USE DEF UartInv
<1>1. UNCHANGED <<rxFifo, txFifo, events, arrived, gone>> /\ rxIntr' = (rxIntr \/ pRxBuffer'.Space >= FIFO_LEN)
  BY DEF U!uart_test_rx, U!Reenable
<1>2. PICK piece \in Seq(Byte) :
             /\ Ring(pRxBuffer') /\ U!Content(pRxBuffer) = piece \o U!Content(pRxBuffer')
             /\ U!Stored(pRxBuffer') <= U!Stored(pRxBuffer)
             /\ U!tx_buff_enq(piece)
  BY Zenon, FetchedPiece
<1> DEFINE rest == U!Content(pRxBuffer')
           ring == U!Content(pTxBuffer)
           front == gone \o txFifo
<1>3. txIntr' = TRUE
  BY <1>2 DEF U!tx_buff_enq
<1>4. UartTyped'
  <2>1. rxIntr' \in BOOLEAN /\ txIntr' \in BOOLEAN
    BY Zenon, <1>1, <1>3 DEF UartTyped
  <2>. QED BY Zenon, <1>1, <2>1 DEF UartTyped
<1>5. U!Stored(pRxBuffer') < SIZE /\ U!Stored(pRxBuffer') \in 0..SIZE
  <2>1. U!Stored(pRxBuffer') \in 0..SIZE
    BY Zenon, <1>2, ContentIs
  <2>. QED BY <1>2, <2>1, Pieces DEF RingsSound
<1>6. U!NeverDeaf'
  <2>1. ~rxIntr' => ~(pRxBuffer'.Space >= FIFO_LEN)
    BY Zenon, <1>1
  <2>2. ~(pRxBuffer'.Space >= FIFO_LEN) => U!Stored(pRxBuffer') > 0
    <3>1. pRxBuffer'.Space \in 0..SIZE
      BY <1>2 DEF Ring, U!Buffer
    <3>2. U!Stored(pRxBuffer') = SIZE - pRxBuffer'.Space
      BY Zenon DEF U!Stored
    <3>. QED BY <3>1, <3>2
  <2>. QED BY Zenon, <2>1, <2>2 DEF U!NeverDeaf
<1>7. U!NeverStuck'
  BY Zenon, <1>3 DEF U!NeverStuck
<1>8. /\ front \in Seq(Byte) /\ ring \in Seq(Byte) /\ rest \in Seq(Byte) /\ piece \in Seq(Byte)
      /\ Ahead \in Seq(Byte) /\ rxFifo \in Seq(Byte)
  BY Zenon, <1>2, Pieces, ContentIs DEF UartTyped
<1>11. Ahead = front \o ring /\ U!UnderWay = (Ahead \o (piece \o rest)) \o rxFifo
  BY Zenon, <1>2, Pieces DEF Ahead
<1>9. CASE Len(piece) <= pTxBuffer.Space
  <2>1. pTxBuffer' = U!Uart_Buf_Cpy(pTxBuffer, piece) /\ dropped' = dropped
    BY <1>2, <1>9 DEF U!tx_buff_enq
  <2>2. Ring(pTxBuffer') /\ U!Content(pTxBuffer') = ring \o piece
    BY Zenon, <1>9, <2>1, CopiedBehind DEF RingsSound
  <2>3. U!UnderWay' = ((front \o (ring \o piece)) \o rest) \o rxFifo
    BY Zenon, <1>1, <2>2 DEF U!UnderWay
  <2>4. (front \o ring) \o (piece \o rest) = (front \o (ring \o piece)) \o rest
    <3>11. front \in Seq(Byte)
      BY Zenon, <1>8
    <3>12. ring \in Seq(Byte)
      BY Zenon, <1>8
    <3>13. piece \in Seq(Byte)
      BY Zenon, <1>8
    <3>14. rest \in Seq(Byte)
      BY Zenon, <1>8
    <3>15. \A d, r \in Seq(Byte) : (front \o ring) \o (d \o r) = (front \o (ring \o d)) \o r
      BY Zenon, <3>11, <3>12, HandedOn
    <3>. QED BY Zenon, <3>13, <3>14, <3>15
  <2>5. U!UnderWay' = U!UnderWay
    BY Zenon, <1>11, <2>3, <2>4
  <2>6. RingsSound'
    BY Zenon, <1>2, <1>5, <2>2 DEF RingsSound
  <2>. QED BY Zenon, <1>1, <1>4, <1>6, <1>7, <2>1, <2>5, <2>6 DEF Intact
<1>10. CASE ~(Len(piece) <= pTxBuffer.Space)
  <2>1. pTxBuffer' = pTxBuffer /\ dropped' = dropped \cup U!ToSet(piece)
    BY <1>2, <1>10 DEF U!tx_buff_enq
  <2>2. U!ToSet(piece) = Held(piece)
    BY DEF U!ToSet, Held
  <2>3. U!UnderWay' = (Ahead \o rest) \o rxFifo
    BY Zenon, <1>1, <2>1 DEF U!UnderWay, Ahead
  <2>4. /\ (Ahead \o rest) \o rxFifo = Ahead \o (rest \o rxFifo) /\ rest \o rxFifo \in Seq(Byte)
        /\ (Ahead \o (piece \o rest)) \o rxFifo = (Ahead \o piece) \o (rest \o rxFifo)
    <3>1. Ahead \o piece \in Seq(Byte) /\ rest \o rxFifo \in Seq(Byte)
      BY Zenon, <1>8, ConcatProperties
    <3>11. Ahead \in Seq(Byte)
      BY Zenon, <1>8, <3>1
    <3>12. piece \in Seq(Byte)
      BY Zenon, <1>8, <3>1
    <3>13. rest \in Seq(Byte)
      BY Zenon, <1>8, <3>1
    <3>14. rxFifo \in Seq(Byte)
      BY Zenon, <1>8, <3>1
    <3>15. Ahead \o piece \in Seq(Byte)
      BY Zenon, <1>8, <3>1
    <3>2. Ahead \o (piece \o rest) = (Ahead \o piece) \o rest
      BY Zenon, <3>11, <3>12, <3>13, Joined
    <3>3. ((Ahead \o piece) \o rest) \o rxFifo = (Ahead \o piece) \o (rest \o rxFifo)
      BY Zenon, <3>13, <3>14, <3>15, Joined
    <3>4. (Ahead \o rest) \o rxFifo = Ahead \o (rest \o rxFifo)
      BY Zenon, <3>11, <3>13, <3>14, Joined
    <3>. QED BY Zenon, <3>1, <3>2, <3>3, <3>4
  <2>5. /\ Sorted(U!UnderWay') /\ Held(U!UnderWay') = Held(U!UnderWay) \ Held(piece)
        /\ Held(piece) \subseteq Held(U!UnderWay)
    <3>1. U!UnderWay' = Ahead \o (rest \o rxFifo) /\ U!UnderWay = (Ahead \o piece) \o (rest \o rxFifo)
      BY Zenon, <1>11, <2>3, <2>4
    <3>2. Sorted((Ahead \o piece) \o (rest \o rxFifo)) /\ rest \o rxFifo \in Seq(Byte)
      BY Zenon, <2>4, <3>1 DEF Intact
    <3>3. /\ Sorted(Ahead \o (rest \o rxFifo))
          /\ Held(Ahead \o (rest \o rxFifo)) = Held((Ahead \o piece) \o (rest \o rxFifo)) \ Held(piece)
          /\ Held(piece) \subseteq Held((Ahead \o piece) \o (rest \o rxFifo))
      BY Zenon, <1>8, <3>2, CutOut
    <3>. QED BY Zenon, <3>1, <3>3
  <2>6. Held(U!UnderWay') = (1..arrived) \ dropped' /\ dropped' \subseteq 1..arrived
    BY <2>1, <2>2, <2>5 DEF Intact
  <2>7. RingsSound'
    BY Zenon, <1>2, <1>5, <2>1 DEF RingsSound
  <2>. QED BY Zenon, <1>1, <1>4, <1>6, <1>7, <2>5, <2>6, <2>7 DEF Intact
<1>. QED BY <1>9, <1>10

LEMMA TransmitKeeps == ASSUME UartInv, U!tx_start_uart_buffer PROVE UartInv'
<1> USE DEF UartInv
<1>1. UNCHANGED <<rxFifo, rxIntr, events, pRxBuffer, arrived, gone, dropped>>
  BY DEF U!tx_start_uart_buffer
<1>2. PICK n \in 0..U!Stored(pTxBuffer) :
        /\ n <= FIFO_LEN - Len(txFifo)
        /\ txFifo' = txFifo \o SubSeq(U!Content(pTxBuffer), 1, n)
        /\ pTxBuffer' = Taken(pTxBuffer, n)
        /\ txIntr' = (U!Stored(pTxBuffer) > n)
  <2> DEFINE remain == FIFO_LEN - Len(txFifo)
             n == IF U!Stored(pTxBuffer) > remain THEN remain ELSE U!Stored(pTxBuffer)
  <2>1. /\ txFifo' = txFifo \o SubSeq(U!Content(pTxBuffer), 1, n)
        /\ pTxBuffer' = Taken(pTxBuffer, n)
        /\ txIntr' = (U!Stored(pTxBuffer) > n)
    BY Zenon DEF U!tx_start_uart_buffer, U!StillEnabled, Taken
  <2>2. n \in 0..U!Stored(pTxBuffer) /\ n <= remain
    <3>1. U!Stored(pTxBuffer) \in 0..SIZE /\ Len(txFifo) \in Nat /\ Len(txFifo) <= FIFO_LEN
      BY Pieces DEF UartTyped
    <3>. QED BY <3>1
  <2>. HIDE DEF n
  <2>. QED BY Zenon, <2>1, <2>2
<1> DEFINE piece == SubSeq(U!Content(pTxBuffer), 1, n)
           rest == U!Content(pTxBuffer')
<1>3. /\ Ring(pTxBuffer') /\ U!Stored(pTxBuffer') = U!Stored(pTxBuffer) - n
      /\ U!Content(pTxBuffer) = piece \o rest /\ piece \in Seq(Byte) /\ Len(piece) = n
  BY Zenon, <1>2, TakenFrom DEF RingsSound
<1>4. txFifo' = txFifo \o piece /\ rest \in Seq(Byte)
  BY Zenon, <1>2, <1>3, ContentIs
<1>5. UartTyped'
  <2>1. txFifo' \in Seq(Byte) /\ Len(txFifo') <= FIFO_LEN
    BY <1>2, <1>3, <1>4 DEF UartTyped
  <2>2. txIntr' \in BOOLEAN
    <3>. PICK m : m = U!Stored(pTxBuffer)
      OBVIOUS
    <3>. QED BY <1>2
  <2>. QED BY Zenon, <1>1, <2>1, <2>2 DEF UartTyped
<1>6. RingsSound'
  BY Zenon, <1>1, <1>3 DEF RingsSound
<1>7. U!UnderWay' = U!UnderWay
  <2>1. U!UnderWay' = (((gone \o (txFifo \o piece)) \o rest) \o U!Content(pRxBuffer)) \o rxFifo
    BY Zenon, <1>1, <1>4 DEF U!UnderWay, rest
  <2>2. U!UnderWay = (((gone \o txFifo) \o (piece \o rest)) \o U!Content(pRxBuffer)) \o rxFifo
    BY Zenon, <1>3 DEF U!UnderWay
  <2>3. (gone \o txFifo) \o (piece \o rest) = (gone \o (txFifo \o piece)) \o rest
    <3>1. gone \in Seq(Byte) /\ txFifo \in Seq(Byte) /\ piece \in Seq(Byte) /\ rest \in Seq(Byte)
      BY Zenon, <1>3, <1>4 DEF UartTyped
    <3>11. gone \in Seq(Byte)
      BY Zenon, <3>1
    <3>12. txFifo \in Seq(Byte)
      BY Zenon, <3>1
    <3>13. piece \in Seq(Byte)
      BY Zenon, <3>1
    <3>14. rest \in Seq(Byte)
      BY Zenon, <3>1
    <3>15. \A d, r \in Seq(Byte) : (gone \o txFifo) \o (d \o r) = (gone \o (txFifo \o d)) \o r
      BY Zenon, <3>11, <3>12, HandedOn
    <3>. QED BY Zenon, <3>13, <3>14, <3>15
  <2>. QED BY Zenon, <2>1, <2>2, <2>3
<1>8. U!NeverStuck'
  <2>1. U!Stored(pTxBuffer') > 0 => U!Stored(pTxBuffer) > n
    BY <1>2, <1>3, Pieces
  <2>. QED BY Zenon, <1>2, <2>1 DEF U!NeverStuck
<1>. QED BY Zenon, <1>1, <1>5, <1>6, <1>7, <1>8 DEF Intact, U!NeverDeaf

LEMMA LeaveKeeps == ASSUME UartInv, U!Leave PROVE UartInv'
<1> USE DEF UartInv
<1>1. /\ UNCHANGED <<rxFifo, rxIntr, txIntr, events, pRxBuffer, pTxBuffer, arrived, dropped>>
      /\ txFifo # <<>> /\ txFifo' = Tail(txFifo) /\ gone' = Append(gone, Head(txFifo))
  BY DEF U!Leave
<1>2. /\ Head(txFifo) \in Byte /\ Tail(txFifo) \in Seq(Byte) /\ Len(Tail(txFifo)) <= FIFO_LEN
      /\ Append(gone, Head(txFifo)) \in Seq(Byte)
  BY <1>1 DEF UartTyped
<1>3. UartTyped'
  BY Zenon, <1>1, <1>2 DEF UartTyped
<1>4. Append(gone, Head(txFifo)) \o Tail(txFifo) = gone \o txFifo
  <2>. PICK g, t : g = gone /\ t = txFifo
    OBVIOUS
  <2>1. g \in Seq(Byte) /\ t \in Seq(Byte) /\ t # <<>>
    BY <1>1 DEF UartTyped
  <2>2. Append(g, Head(t)) \o Tail(t) = g \o t
    BY <2>1
  <2>. QED BY <2>2
<1>5. U!UnderWay' = U!UnderWay
  BY Zenon, <1>1, <1>4 DEF U!UnderWay
<1>. QED BY Zenon, <1>1, <1>3, <1>5 DEF RingsSound, Intact, U!NeverDeaf, U!NeverStuck

LEMMA UartInductive == UartInv /\ [U!Next]_uartVars => UartInv'
<1> SUFFICES ASSUME UartInv, [U!Next]_uartVars PROVE UartInv'
  OBVIOUS
<1>1. CASE UNCHANGED uartVars
  BY Zenon, <1>1 DEF uartVars, UartInv, UartTyped, RingsSound, Intact, U!UnderWay, U!NeverDeaf, U!NeverStuck
<1>. QED BY Zenon, <1>1, ArriveKeeps, RxInterruptKeeps, EnqueueKeeps, TestKeeps, TransmitKeeps, LeaveKeeps DEF U!Next

\* A step of another part leaves the UART alone.
LEMMA UartAlone == [MCNext]_mcVars => [U!Next]_uartVars
  BY DEF MCNext, Others, mcVars

\* What the driver keeps, whatever the other parts do.
THEOREM UartInvariant == MCSpec => []UartInv
<1>1. MCInit => UartInv
  BY UartInitially DEF MCInit
<1>2. UartInv /\ [MCNext]_mcVars => UartInv'
  BY UartInductive, UartAlone
<1>. QED BY <1>1, <1>2, PTL DEF MCSpec

\* Whatever overflows, and however the rings wrap: what the UART receives is sent
\* on in order, once, or was dropped by a full ring, and neither direction stops.
THEOREM BytesAreEchoed == MCSpec => []EchoIntact
<1>1. UartInv => EchoIntact
  <2> SUFFICES ASSUME UartInv PROVE U!TypeOK /\ U!EchoIntact
    BY DEF EchoIntact
  <2>1. U!TypeOK
    <3>1. pRxBuffer \in U!Buffer /\ pTxBuffer \in U!Buffer
      BY DEF UartInv, RingsSound, Ring
    <3>2. /\ ((pRxBuffer.in - pRxBuffer.out) % SIZE) = ((SIZE - pRxBuffer.Space) % SIZE)
          /\ ((pTxBuffer.in - pTxBuffer.out) % SIZE) = ((SIZE - pTxBuffer.Space) % SIZE)
      BY Zenon, RingTyped DEF UartInv, RingsSound
    <3>3. dropped \subseteq 0..BYTES
      BY DEF UartInv, Intact, UartTyped
    <3>. QED BY Zenon, <3>1, <3>2, <3>3 DEF UartInv, UartTyped, U!TypeOK
  <2>2. U!EchoedInOrder
    <3>1. U!UnderWay \in Seq(Byte)
      BY Zenon, Pieces DEF UartInv
    <3>2. U!ToSet(U!UnderWay) = Held(U!UnderWay)
      <4>. PICK x : x = U!UnderWay
        OBVIOUS
      <4>. QED BY <3>1 DEF U!ToSet, Held
    <3>3. Sorted(U!UnderWay) /\ Held(U!UnderWay) = (1..arrived) \ dropped
      BY Zenon DEF UartInv, Intact
    <3>4. \A i \in 1..(Len(U!UnderWay) - 1) : U!UnderWay[i] < U!UnderWay[i + 1]
      <4>1. \A i \in 1..(Len(U!UnderWay) - 1) : i \in 1..Len(U!UnderWay) /\ i + 1 \in 1..Len(U!UnderWay) /\ i < i + 1
        BY <3>1
      <4>. QED BY Zenon, <3>3, <4>1 DEF Sorted
    <3>. QED BY Zenon, <3>2, <3>3, <3>4 DEF U!EchoedInOrder
  <2>. QED BY <2>1, <2>2 DEF UartInv, U!EchoIntact
<1>. QED BY <1>1, UartInvariant, PTL

-----------------------------------------------------------------------------
(* The key driver.                                                          *)

USE KeyAssumption DEF KeyAssumption, Off

\* Each phase of a press, and the edge it has seen.
UpPhase ==
    key_level = 1 =>
      /\ key_5s = Off /\ key_50ms = Off
      /\ debouncing => "short_press" \in fell
      /\ ~debouncing => intr = "NEGEDGE"
      /\ status => fell = {"short_press", "long_press"}
DownPhase == key_level = 0 => intr # "NEGEDGE" /\ "short_press" \in fell
DebouncePhase ==
    key_50ms # Off \/ debouncing => intr = "DISABLE" /\ ~status
LongPhase == key_5s # Off => "long_press" \in fell
OneOfThem == debouncing => key_50ms = Off
PressInv == /\ UpPhase /\ DownPhase /\ DebouncePhase /\ LongPhase /\ OneOfThem
            /\ InterruptComesBack

LEMMA DownTyped ==
    ASSUME NEW n \in Nat, NEW t \in Off..n, t # 0
    PROVE  Down(t) \in Off..n /\ (Down(t) = Off <=> t = Off)
  BY DEF Down

\* TypeOK in two parts: the counters, and everything else.
CountersTyped ==
    /\ key_5s \in Off..T2S /\ key_50ms \in Off..T50
    /\ high \in 0..(T50 + 1) /\ held \in 0..T2S
FlagsTyped ==
    /\ pin \in {0, 1}
    /\ intr \in {"NEGEDGE", "POSEDGE", "DISABLE"}
    /\ status \in BOOLEAN
    /\ key_level \in {0, 1}
    /\ debouncing \in BOOLEAN
    /\ event \in {"none", "short_press", "long_press"}
    /\ fell \subseteq {"short_press", "long_press"}
    /\ late \in BOOLEAN

LEMMA TypeParts == TypeOK <=> CountersTyped /\ FlagsTyped
  BY Zenon DEF TypeOK, CountersTyped, FlagsTyped

\* Every variable of the driver keeps its type; in particular no timer is
\* armed for longer than its period.
THEOREM KeyTypeCorrect == Spec => []TypeOK
<1>1. Init => TypeOK
  <2>1. Init => CountersTyped
    BY DEF Init, CountersTyped
  <2>2. Init => FlagsTyped
    BY DEF Init, FlagsTyped
  <2>. QED BY <2>1, <2>2, TypeParts
<1>2. TypeOK /\ [Next]_vars => TypeOK'
  <2>0. CountersTyped' /\ FlagsTyped' => TypeOK'
    BY Zenon DEF TypeOK, CountersTyped, FlagsTyped
  <2> SUFFICES ASSUME CountersTyped, FlagsTyped, [Next]_vars
               PROVE  CountersTyped' /\ FlagsTyped'
    BY <2>0, TypeParts
  <2>1. CASE Move
    <3>1. pin' \in {0, 1} /\ status' \in BOOLEAN
      BY <2>1 DEF Move, FlagsTyped
    <3>2. high' \in 0..(T50 + 1)
      BY <2>1 DEF Move
    <3>. QED BY <2>1, <3>1, <3>2 DEF Move, CountersTyped, FlagsTyped
  <2>2. CASE key_intr_handler
    <3>1. key_5s' \in Off..T2S /\ key_50ms' \in Off..T50
      BY <2>2 DEF key_intr_handler, CountersTyped
    <3>2. CountersTyped'
      BY <2>2, <3>1 DEF key_intr_handler, Quiet, CountersTyped
    <3>3. key_level' \in {0, 1} /\ intr' \in {"NEGEDGE", "POSEDGE", "DISABLE"}
      BY <2>2 DEF key_intr_handler, FlagsTyped
    <3>. QED BY <2>2, <3>2, <3>3 DEF key_intr_handler, Quiet, FlagsTyped
  <2>3. CASE key_5s_cb
    <3>1. CountersTyped'
      BY <2>3 DEF key_5s_cb, Calls, Quiet, CountersTyped
    <3>. QED BY <2>3, <3>1 DEF key_5s_cb, Calls, Quiet, FlagsTyped
  <2>4. CASE KeyUp
    <3>1. CountersTyped'
      BY <2>4 DEF KeyUp, Quiet, CountersTyped
    <3>. QED BY <2>4, <3>1 DEF KeyUp, Quiet, FlagsTyped
  <2>5. CASE StillDown
    <3>1. CountersTyped'
      BY <2>5 DEF StillDown, Quiet, CountersTyped
    <3>. QED BY <2>5, <3>1 DEF StillDown, Quiet, FlagsTyped
  <2>6. CASE ArmAgain
    <3>1. CountersTyped'
      BY <2>6 DEF ArmAgain, Quiet, CountersTyped
    <3>. QED BY <2>6, <3>1 DEF ArmAgain, Quiet, FlagsTyped
  <2>7. CASE ArmFalling
    <3>1. CountersTyped'
      BY <2>7 DEF ArmFalling, Calls, CountersTyped
    <3>. QED BY <2>7, <3>1 DEF ArmFalling, Calls, FlagsTyped
  <2>8. CASE Tick
    <3>1. key_5s' \in Off..T2S /\ key_50ms' \in Off..T50
      BY <2>8, DownTyped DEF Tick, CountersTyped
    <3>2. high' \in 0..(T50 + 1)
      BY <2>8 DEF Tick, CountersTyped
    <3>3. held' \in 0..T2S
      BY <2>8 DEF Tick, CountersTyped
    <3>. QED BY <2>8, <3>1, <3>2, <3>3 DEF Tick, CountersTyped, FlagsTyped
  <2>9. CASE UNCHANGED vars
    BY <2>9 DEF vars, driver, CountersTyped, FlagsTyped
  <2>. QED BY <2>1, <2>2, <2>3, <2>4, <2>5, <2>6, <2>7, <2>8, <2>9 DEF Next
<1>. QED BY <1>1, <1>2, PTL DEF Spec

LEMMA PressInductive == TypeOK /\ PressInv /\ [Next]_vars => PressInv'
<1> SUFFICES ASSUME TypeOK, PressInv, [Next]_vars PROVE PressInv'
  OBVIOUS
<1> USE DEF PressInv, UpPhase, DownPhase, DebouncePhase, LongPhase, OneOfThem, InterruptComesBack
<1>1. CASE Move
  BY <1>1 DEF Move, TypeOK
<1>2. CASE key_intr_handler
  BY <1>2 DEF key_intr_handler, Quiet, TypeOK
<1>3. CASE key_5s_cb
  BY <1>3 DEF key_5s_cb, Calls, Quiet, TypeOK
<1>4. CASE KeyUp
  BY <1>4 DEF KeyUp, Quiet, TypeOK
<1>5. CASE ArmFalling
  BY <1>5 DEF ArmFalling, Calls, TypeOK
<1>6. CASE StillDown
  BY <1>6 DEF StillDown, Quiet, TypeOK
<1>7. CASE ArmAgain
  BY <1>7 DEF ArmAgain, Quiet, TypeOK
<1>8. CASE Tick
  <2>1. (key_5s' = Off <=> key_5s = Off) /\ (key_50ms' = Off <=> key_50ms = Off)
    BY <1>8, DownTyped DEF Tick, TypeOK
  <2>. QED BY <1>8, <2>1 DEF Tick
<1>9. CASE UNCHANGED vars
  BY <1>9 DEF vars, driver
<1>. QED BY <1>1, <1>2, <1>3, <1>4, <1>5, <1>6, <1>7, <1>8, <1>9 DEF Next

LEMMA PressInitially == Init => PressInv
  BY DEF Init, PressInv, UpPhase, DownPhase, DebouncePhase, LongPhase, OneOfThem,
     InterruptComesBack

\* The interrupt is never left off without a callback on its way that arms
\* it, wherever the key bounces.
THEOREM NeverDeaf == Spec => []InterruptComesBack
<1>1. PressInv => InterruptComesBack
  BY DEF PressInv
<1>. QED BY <1>1, KeyTypeCorrect, PressInitially, PressInductive, PTL DEF Spec

\* No handler is called twice for one press of the key.
THEOREM PressesAreReal == Spec => NoPhantomPress
<1>1. TypeOK /\ PressInv /\ [Next]_vars => [event' # "none" => event' \in fell]_vars
  <2> SUFFICES ASSUME TypeOK, PressInv, Next, event' # "none" PROVE event' \in fell
    OBVIOUS
  <2>1. CASE key_5s_cb
    BY <2>1 DEF key_5s_cb, Calls, Quiet, PressInv, LongPhase
  <2>2. CASE ArmFalling
    BY <2>2 DEF ArmFalling, Calls, PressInv, UpPhase
  <2>. QED BY <2>1, <2>2 DEF Next, Move, key_intr_handler, KeyUp, StillDown, ArmAgain, Tick, Quiet
<1>. QED BY <1>1, KeyTypeCorrect, PressInitially, PressInductive, PTL DEF Spec, NoPhantomPress

-----------------------------------------------------------------------------
\* A press the driver has kept up with: at a pending interrupt the key is
\* where its edge has put it; once pressed, a key that is up has an interrupt
\* pending or is being debounced, and has not been up for longer than that;
\* so the key has been held for as long as the long-press timer has run.
EdgeSeen == status => IF key_level = 1 THEN pin = 0 ELSE high = 0
UpIsDebounced ==
    key_level = 0 /\ pin = 1 /\ ~status => key_50ms # Off /\ high + key_50ms <= T50
HeldSoFar == key_5s # Off => held + key_5s >= T2S
HeldInv == (~late => EdgeSeen /\ UpIsDebounced /\ HeldSoFar) /\ LongPressWasHeld

LEMMA HeldInitially == Init => HeldInv
  BY DEF Init, HeldInv, EdgeSeen, UpIsDebounced, HeldSoFar, LongPressWasHeld

\* A tick is one on every counter: of a key that is held, or being debounced.
LEMMA TickHolds == TypeOK /\ PressInv /\ HeldInv /\ Tick => HeldInv'
<1> SUFFICES ASSUME TypeOK, PressInv, HeldInv, Tick, ~late'
             PROVE  EdgeSeen' /\ UpIsDebounced' /\ HeldSoFar'
  BY DEF Tick, HeldInv, LongPressWasHeld
<1>1. ~late /\ ~status /\ ~debouncing /\ status' = status /\ pin' = pin /\ key_level' = key_level
  BY DEF Tick, Busy
<1>2. EdgeSeen /\ UpIsDebounced /\ HeldSoFar
  BY <1>1 DEF HeldInv
<1>3. /\ key_5s \in Off..T2S /\ key_50ms \in Off..T50 /\ key_5s # 0 /\ key_50ms # 0
      /\ high \in 0..(T50 + 1) /\ held \in 0..T2S
  BY DEF Tick, TypeOK
<1>4. /\ key_5s' = IF key_5s = Off THEN Off ELSE key_5s - 1
      /\ key_50ms' = IF key_50ms = Off THEN Off ELSE key_50ms - 1
  BY DEF Tick, Down
<1>5. EdgeSeen'
  BY <1>1 DEF EdgeSeen
<1>6. /\ high' = (IF pin = 0 THEN 0 ELSE IF high <= T50 THEN high + 1 ELSE high)
      /\ held' = (IF high' > T50 THEN 0 ELSE IF held < T2S THEN held + 1 ELSE held)
      /\ pin \in {0, 1} /\ key_level \in {0, 1}
  BY DEF Tick, TypeOK
<1>7. CASE key_level = 1
  BY <1>1, <1>4, <1>5, <1>7 DEF PressInv, UpPhase, UpIsDebounced, HeldSoFar
<1>8. CASE key_level = 0 /\ pin = 0
  <2>1. UpIsDebounced'
    BY <1>1, <1>8 DEF UpIsDebounced
  <2>2. HeldSoFar'
    BY <1>2, <1>3, <1>4, <1>6, <1>8 DEF HeldSoFar
  <2>. QED BY <1>5, <2>1, <2>2
<1>9. CASE key_level = 0 /\ pin = 1
  <2>1. key_50ms # Off /\ high + key_50ms <= T50
    BY <1>1, <1>2, <1>9 DEF UpIsDebounced
  <2>2. high' = high + 1 /\ high' <= T50 /\ high' + key_50ms' <= T50 /\ key_50ms' # Off
    BY <2>1, <1>3, <1>4, <1>6, <1>9
  <2>3. UpIsDebounced'
    BY <2>2 DEF UpIsDebounced
  <2>4. HeldSoFar'
    BY <1>2, <1>3, <1>4, <1>6, <2>2 DEF HeldSoFar
  <2>. QED BY <1>5, <2>3, <2>4
<1>. QED BY <1>6, <1>5, <1>7, <1>8, <1>9

LEMMA HeldInductive == TypeOK /\ PressInv /\ HeldInv /\ [Next]_vars => HeldInv'
<1> SUFFICES ASSUME TypeOK, PressInv, HeldInv, [Next]_vars PROVE HeldInv'
  OBVIOUS
<1> USE DEF HeldInv, EdgeSeen, UpIsDebounced, HeldSoFar, LongPressWasHeld
<1>1. CASE Move
  <2> SUFFICES ASSUME ~late' PROVE EdgeSeen' /\ UpIsDebounced' /\ HeldSoFar'
    BY <1>1 DEF Move
  <2>1. /\ ~late /\ ~status /\ ~debouncing
        /\ pin' = 1 - pin /\ high' = 0
        /\ status' <=> (intr = "NEGEDGE" /\ pin = 1) \/ (intr = "POSEDGE" /\ pin = 0)
        /\ UNCHANGED <<intr, key_level, key_5s, key_50ms, held>>
    BY <1>1 DEF Move, Busy
  <2>2. /\ pin \in {0, 1} /\ key_level \in {0, 1} /\ key_50ms \in Off..T50
        /\ intr \in {"NEGEDGE", "POSEDGE", "DISABLE"}
    BY DEF TypeOK
  <2>3. key_level = 0 => intr # "NEGEDGE"
    BY DEF PressInv, DownPhase
  <2>4. intr = "DISABLE" => key_50ms # Off
    BY <2>1 DEF PressInv, InterruptComesBack
  <2>5. EdgeSeen'
    BY <2>1, <2>2 DEF PressInv, UpPhase
  <2>6. UpIsDebounced'
    <3> SUFFICES ASSUME key_level = 0, pin = 0, ~status' PROVE key_50ms # Off /\ key_50ms <= T50
      BY <2>1, <2>2
    <3>. QED BY <2>1, <2>2, <2>3, <2>4
  <2>. QED BY <2>1, <2>5, <2>6
<1>2. CASE key_intr_handler
  BY <1>2 DEF key_intr_handler, Quiet, TypeOK
<1>3. CASE key_5s_cb
  BY <1>3 DEF key_5s_cb, Calls, Quiet, TypeOK
<1>4. CASE KeyUp
  BY <1>4 DEF KeyUp, Quiet, TypeOK, PressInv, DebouncePhase
<1>5. CASE ArmFalling
  BY <1>5 DEF ArmFalling, Calls, TypeOK, PressInv, UpPhase, DebouncePhase
<1>6. CASE StillDown
  BY <1>6 DEF StillDown, Quiet, TypeOK
<1>7. CASE ArmAgain
  BY <1>7 DEF ArmAgain, Quiet, TypeOK
<1>8. CASE Tick
  BY <1>8, TickHolds
<1>9. CASE UNCHANGED vars
  BY <1>9 DEF vars, driver
<1>. QED BY <1>1, <1>2, <1>3, <1>4, <1>5, <1>6, <1>7, <1>8, <1>9 DEF Next

\* A long press has been held for its 2 s, however the key bounced, unless
\* the driver fell behind the key in this very press.
THEOREM LongPressesAreHeld == Spec => []LongPressWasHeld
<1>1. HeldInv => LongPressWasHeld
  BY DEF HeldInv
<1>. QED BY <1>1, KeyTypeCorrect, PressInitially, PressInductive, HeldInitially, HeldInductive,
        PTL DEF Spec

\* What follows names the constants it needs.
HIDE PartsAssumption DEF P!PanelAssumption, W!WatchdogAssumption
HIDE DEF U!UartAssumption
HIDE KeyAssumption DEF KeyAssumption, Off

-----------------------------------------------------------------------------
(* The timeouts of lwIP and the clock of the SNTP client.                   *)

LEMMA LeastExists ==
    ASSUME NEW Z \in SUBSET Nat, Z # {}
    PROVE  \E x \in Z : \A y \in Z : x <= y
<1>1. \E x \in Z : \A y \in Z : ~(<<y, x>> \in OpToRel(<, Nat))
  BY NatLessThanWellFounded, WFMin
<1>2. PICK x \in Z : \A y \in Z : ~(<<y, x>> \in OpToRel(<, Nat))
  BY <1>1
<1>3. \A y \in Z : ~(y < x)
  BY <1>2 DEF OpToRel
<1>. QED BY <1>3

LEMMA TimersNumbers ==
    /\ TCP_TMR_INTERVAL \in Nat \ {0} /\ PERIOD \in Nat \ {0} /\ TICKS \in Nat \ {0} /\ WRAP \in Nat \ {0}
    /\ SINGLES \in Nat /\ DELAYS \subseteq Nat
  BY PartsAssumption DEF T!TimersAssumption

\* What is kept of the list of timeouts: a list of entries that are due one
\* after the other, each after the time that it keeps; that a handler is called
\* when the list says so is not too early; and how many entries each has.
Timeouts == [h : {"period", "tcp", "single"}, time : Nat, left : Nat, soonest : Nat]
Delta(list) ==
    \A i \in 1..Len(list) :
        list[i].left = list[i].time + (IF i = 1 THEN 0 ELSE list[i - 1].left)
Ordered(list) == \A i, j \in 1..Len(list) : i <= j => list[i].left <= list[j].left
TimerList(list) == list \in Seq(Timeouts) /\ Delta(list) /\ Ordered(list)
Positive(n) == IF n > 0 THEN n ELSE 0
\* With over ticks behind the list, none is called too early.
InTime(list, over) ==
    \A i \in 1..Len(list) : list[i].soonest <= Positive(list[i].left * TICKS - over)
Repeating(list) ==
    /\ T!InList(list, "period") = 1
    /\ pcbs => tcpip_tcp_timer_active
    /\ tcpip_tcp_timer_active => T!InList(list, "tcp") >= 1
    /\ T!InList(list, "tcp") <= 1 + (IF tcpip_tcp_timer_active THEN 1 ELSE 0)
Clocks ==
    /\ now \in 0..(WRAP - 1) /\ timeouts_last_time \in 0..(WRAP - 1)
    /\ diff \in -1..(WRAP \div TICKS) /\ pcbs \in BOOLEAN /\ tcpip_tcp_timer_active \in BOOLEAN
TimersInv ==
    /\ Clocks /\ TimerList(next_timeout) /\ InTime(next_timeout, T!Elapsed)
    /\ diff # T!NotChecking => InTime(next_timeout, diff * TICKS)
    /\ Repeating(next_timeout)

\* The times up to an entry add up to what it has left.
LeftAt(list, k) == IF k = 0 THEN 0 ELSE list[k].left
LEMMA LeftIs ==
    ASSUME NEW list, TimerList(list), NEW k \in 1..Len(list)
    PROVE  /\ list[k] \in Timeouts /\ list[k].left \in Nat /\ list[k].time \in Nat
           /\ LeftAt(list, k - 1) \in Nat /\ list[k].left = list[k].time + LeftAt(list, k - 1)
<1>1. \A j \in 1..Len(list) : list[j] \in Timeouts /\ list[j].left \in Nat /\ list[j].time \in Nat
  <2>1. list \in Seq(Timeouts)
    BY DEF TimerList
  <2>2. \A j \in 1..Len(list) : list[j] \in Timeouts
    BY <2>1
  <2>. QED BY <2>2 DEF Timeouts
<1>2. list[k].left = list[k].time + (IF k = 1 THEN 0 ELSE list[k - 1].left)
  BY Zenon DEF TimerList, Delta
<1>3. Len(list) \in Nat
  BY DEF TimerList
<1>4. LeftAt(list, k - 1) = (IF k = 1 THEN 0 ELSE list[k - 1].left) /\ LeftAt(list, k - 1) \in Nat
  <2>1. CASE k = 1
    BY <2>1 DEF LeftAt
  <2>2. CASE k # 1
    <3>1. k - 1 \in 1..Len(list) /\ k - 1 # 0
      BY <1>3, <2>2
    <3>. QED BY <1>1, <2>2, <3>1 DEF LeftAt
  <2>. QED BY <2>1, <2>2
<1>. QED BY <1>1, <1>2, <1>4

LEMMA UptoIs ==
    ASSUME NEW list, TimerList(list)
    PROVE  \A k \in 0..Len(list) : T!Upto(list)[k] = LeftAt(list, k)
<1> DEFINE n == Len(list)
           Added(total) == [k \in 0..n |-> IF k = 0 THEN 0 ELSE total[k - 1] + list[k].time]
           sums == T!Upto(list)
           w == [k \in 0..n |-> LeftAt(list, k)]
<1>1. n \in Nat /\ \A k \in 1..n : list[k] \in Timeouts
  BY DEF TimerList
<1>2. \A k \in 1..n : list[k].left = LeftAt(list, k - 1) + list[k].time
  BY LeftIs
<1>3. w = Added(w)
  <2> SUFFICES ASSUME NEW k \in 0..n PROVE w[k] = IF k = 0 THEN 0 ELSE w[k - 1] + list[k].time
    OBVIOUS
  <2>1. CASE k = 0
    BY <2>1 DEF LeftAt
  <2>2. CASE k # 0
    BY <1>1, <1>2, <2>2 DEF LeftAt
  <2>. QED BY <2>1, <2>2
<1>4. sums = Added(sums)
  <2>1. sums = CHOOSE total : total = Added(total)
    BY DEF T!Upto
  <2>. QED BY <1>3, <2>1
<1>5. \A k \in 0..n : sums[k] = IF k = 0 THEN 0 ELSE sums[k - 1] + list[k].time
  <2> HIDE DEF sums
  <2> SUFFICES ASSUME NEW k \in 0..n PROVE sums[k] = IF k = 0 THEN 0 ELSE sums[k - 1] + list[k].time
    OBVIOUS
  <2>1. Added(sums)[k] = IF k = 0 THEN 0 ELSE sums[k - 1] + list[k].time
    OBVIOUS
  <2>. QED BY <1>4, <2>1
<1> DEFINE Z == {k \in 0..n : sums[k] # LeftAt(list, k)}
<1> HIDE DEF sums, w
<1>6. Z = {}
  <2> SUFFICES ASSUME Z # {} PROVE FALSE
    OBVIOUS
  <2>1. Z \in SUBSET Nat
    OBVIOUS
  <2>2. PICK k \in Z : \A j \in Z : k <= j
    BY <2>1, LeastExists
  <2>3. k # 0
    BY <1>5 DEF LeftAt
  <2>4. k \in 1..n /\ k - 1 \in 0..n /\ k - 1 \notin Z
    BY <1>1, <2>2, <2>3
  <2>5. sums[k - 1] = LeftAt(list, k - 1)
    BY <2>4
  <2>. QED BY <1>2, <1>5, <2>3, <2>4, <2>5 DEF LeftAt
<1>. QED BY <1>6 DEF sums

\* How many there are with an entry more: B is A with one put in at place p.
PutIn(A, B, p) ==
    /\ Len(B) = Len(A) + 1 /\ p \in 1..Len(B)
    /\ \A j \in 1..Len(A) : A[j].h = B[IF j < p THEN j ELSE j + 1].h

LEMMA OneMore ==
    ASSUME NEW A \in Seq(Timeouts), NEW B \in Seq(Timeouts), NEW p, PutIn(A, B, p), NEW x
    PROVE  /\ T!InList(A, x) \in Nat /\ T!InList(B, x) \in Nat
           /\ T!InList(B, x) = T!InList(A, x) + (IF B[p].h = x THEN 1 ELSE 0)
<1> DEFINE n == Len(A)
           Over(j) == IF j < p THEN j ELSE j + 1
           X == {j \in 1..n : A[j].h = x}
           Y == {j \in 1..(n + 1) : B[j].h = x}
           f == [j \in X |-> Over(j)]
<1>1. n \in Nat /\ Len(B) = n + 1 /\ p \in 1..(n + 1)
  BY DEF PutIn
<1>2. T!InList(A, x) = Cardinality(X) /\ T!InList(B, x) = Cardinality(Y)
  <2>1. T!InList(A, x) = T!Cardinality(X) /\ T!InList(B, x) = T!Cardinality(Y)
    BY <1>1 DEF T!InList
  <2>. QED BY Zenon, <2>1 DEF T!Cardinality, Cardinality
<1>3. IsFiniteSet(X) /\ IsFiniteSet(Y)
  <2>1. IsFiniteSet(1..n) /\ IsFiniteSet(1..(n + 1))
    BY <1>1, FS_Interval
  <2>. QED BY <2>1, FS_Subset
<1>4. \A j \in X : Over(j) \in Y \ {p}
  <2> SUFFICES ASSUME NEW j \in X PROVE Over(j) \in Y \ {p}
    OBVIOUS
  <2>1. j \in 1..n /\ A[j].h = x /\ A[j].h = B[Over(j)].h
    BY <1>1 DEF PutIn
  <2>2. Over(j) \in 1..(n + 1) /\ Over(j) # p
    BY <1>1, <2>1
  <2>. QED BY <2>1, <2>2
<1>5. \A y \in Y \ {p} : \E j \in X : Over(j) = y
  <2> SUFFICES ASSUME NEW y \in Y \ {p} PROVE \E j \in X : Over(j) = y
    OBVIOUS
  <2> DEFINE j == IF y < p THEN y ELSE y - 1
  <2>1. j \in 1..n /\ Over(j) = y
    BY <1>1
  <2>2. A[j].h = B[y].h
    BY <1>1, <2>1 DEF PutIn
  <2>3. j \in X
    BY <2>1, <2>2
  <2>. QED BY <2>1, <2>3
<1>6. \A i, j \in X : Over(i) = Over(j) => i = j
  BY <1>1
<1>7. f \in Bijection(X, Y \ {p})
  <2> HIDE DEF X, Y, Over
  <2>1. f \in [X -> Y \ {p}]
    BY <1>4
  <2>2. f \in Injection(X, Y \ {p})
    BY <1>6, <2>1 DEF Injection, IsInjective
  <2>3. f \in Surjection(X, Y \ {p})
    BY <1>5, <2>1 DEF Surjection
  <2>. QED BY <2>2, <2>3 DEF Bijection
<1> HIDE DEF f, X, Y
<1>8. Cardinality(X) = Cardinality(Y \ {p})
  <2>1. ExistsBijection(X, Y \ {p})
    BY <1>7 DEF ExistsBijection
  <2>2. IsFiniteSet(Y \ {p})
    BY <1>3, FS_RemoveElement
  <2>. QED BY <1>3, <2>1, <2>2, FS_Bijection
<1>9. Cardinality(X) \in Nat /\ Cardinality(Y) \in Nat
  BY <1>3, FS_CardinalityType
<1>10. p \in Y <=> B[p].h = x
  BY <1>1 DEF Y
<1>11. CASE p \in Y
  <2>1. Cardinality(Y \ {p}) = Cardinality(Y) - 1
    BY <1>3, <1>11, FS_RemoveElement
  <2>. QED BY <1>2, <1>8, <1>9, <1>10, <1>11, <2>1
<1>12. CASE p \notin Y
  <2>1. Y \ {p} = Y
    BY <1>12
  <2>2. Cardinality(X) = Cardinality(Y) /\ B[p].h # x
    BY <1>8, <1>10, <1>12, <2>1
  <2>. QED BY <1>2, <1>9, <2>2
<1>. QED BY <1>11, <1>12

LEMMA PutInAt ==
    ASSUME NEW L \in Seq(Timeouts), NEW p \in 1..(Len(L) + 1), NEW t \in Timeouts
    PROVE  LET I == T!InsertAt(L, p, t) IN
           /\ I \in Seq(Timeouts) /\ Len(I) = Len(L) + 1 /\ I[p] = t
           /\ \A j \in 1..Len(L) : I[IF j < p THEN j ELSE j + 1] = L[j]
<1> DEFINE n == Len(L)
           s1 == SubSeq(L, 1, p - 1)
           s2 == SubSeq(L, p, n)
           I == T!InsertAt(L, p, t)
<1>1. n \in Nat /\ \A i \in 1..n : L[i] \in Timeouts
  OBVIOUS
<1>2. s1 \in Seq(Timeouts) /\ Len(s1) = p - 1 /\ \A i \in 1..(p - 1) : s1[i] = L[i]
  BY <1>1
<1>3. s2 \in Seq(Timeouts) /\ Len(s2) = n - p + 1 /\ \A i \in 1..(n - p + 1) : s2[i] = L[p + i - 1]
  BY <1>1
<1>4. I = s1 \o <<t>> \o s2
  BY DEF T!InsertAt
<1> DEFINE s3 == s1 \o <<t>>
<1> HIDE DEF s1, s2, I
<1>5a. s3 \in Seq(Timeouts) /\ Len(s3) = p /\ s3[p] = t /\ \A i \in 1..(p - 1) : s3[i] = L[i]
  BY SMTT(40), <1>1, <1>2
<1>5b. I = s3 \o s2
  BY <1>2, <1>3, <1>4
<1> HIDE DEF s3
<1>5. I \in Seq(Timeouts) /\ Len(I) = n + 1
  <2>1. I \in Seq(Timeouts) /\ Len(I) = Len(s3) + Len(s2)
    BY <1>3, <1>5a, <1>5b
  <2>. QED BY <1>1, <1>3, <1>5a, <2>1
<1>6. I[p] = t
  BY <1>1, <1>3, <1>5a, <1>5b
<1>7. ASSUME NEW j \in 1..n PROVE I[IF j < p THEN j ELSE j + 1] = L[j]
  <2>1. CASE j < p
    BY <1>1, <1>3, <1>5a, <1>5b, <2>1
  <2>2. CASE ~(j < p)
    <3>1. I[j + 1] = s2[j + 1 - p]
      BY <1>1, <1>3, <1>5a, <1>5b, <2>2
    <3>. QED BY <1>1, <1>3, <2>2, <3>1
  <2>. QED BY <2>1, <2>2
<1>. QED BY <1>5, <1>6, <1>7 DEF I

\* sys_timeout: one entry more, due msecs from now, and nothing else has moved.
Longer(L, B, hd, over) ==
    /\ TimerList(B)
    /\ \A o \in Int : InTime(L, o) /\ (o <= over) => InTime(B, o)
    /\ \A x : T!InList(B, x) = T!InList(L, x) + (IF hd = x THEN 1 ELSE 0)
    /\ \A x : T!InList(L, x) \in Nat
LEMMA ArmedIs ==
    ASSUME NEW L, TimerList(L), NEW ms \in Nat, NEW hd \in {"period", "tcp", "single"}, NEW over \in Nat
    PROVE  Longer(L, T!sys_timeout(L, ms, hd, over), hd, over)
<1> DEFINE n == Len(L)
           sums == T!Upto(L)
           Behind(i) == sums[i] <= ms /\ (i = n \/ sums[i + 1] > ms)
           k == CHOOSE i \in 0..n : Behind(i)
           t == [h |-> hd, time |-> ms - sums[k], left |-> ms,
                 soonest |-> IF ms * TICKS > over THEN ms * TICKS - over ELSE 0]
           later == IF k = n THEN L ELSE [L EXCEPT ![k + 1].time = @ - t.time]
           B == T!sys_timeout(L, ms, hd, over)
<1>1. n \in Nat /\ \A i \in 1..n : L[i] \in Timeouts
  BY DEF TimerList
<1>2. \A i \in 0..n : sums[i] = LeftAt(L, i) /\ LeftAt(L, i) \in Nat
  BY <1>1, UptoIs DEF LeftAt, Timeouts
<1>3. B = T!InsertAt(later, k + 1, t)
  BY DEF T!sys_timeout
<1> HIDE DEF sums, B
<1>4. k \in 0..n /\ Behind(k)
  <2> DEFINE Z == {i \in 0..n : sums[i] <= ms /\ \A j \in i..n : i # j => sums[j] > ms}
             Y == {i \in 0..n : sums[n - i] <= ms}
  <2>1. n \in Y /\ Y \in SUBSET Nat
    BY <1>1, <1>2 DEF LeftAt
  <2>2. PICK m \in Y : \A i \in Y : m <= i
    BY <2>1, LeastExists
  <2>3. (n - m) \in 0..n /\ sums[n - m] <= ms /\ m \in 0..n
    BY <2>2
  <2>4. m # 0 => sums[n - m + 1] > ms
    <3> SUFFICES ASSUME m # 0 PROVE sums[n - m + 1] > ms
      OBVIOUS
    <3>1. m - 1 \in 0..n /\ m - 1 \notin Y /\ n - (m - 1) = n - m + 1
      BY <1>1, <2>2, <2>3
    <3>2. ~(sums[n - m + 1] <= ms) /\ n - m + 1 \in 0..n
      BY <1>1, <2>3, <3>1
    <3>. QED BY <1>2, <3>2
  <2>5. Behind(n - m)
    BY <1>1, <2>3, <2>4
  <2>. QED BY <2>3, <2>5
<1> HIDE DEF k
<1>5. LeftAt(L, k) <= ms /\ (k # n => L[k + 1].left > ms)
  BY <1>1, <1>2, <1>4 DEF LeftAt
<1>6. t \in Timeouts /\ t.time = ms - LeftAt(L, k)
  BY <1>1, <1>2, <1>4, <1>5, TimersNumbers DEF Timeouts
<1>7. later \in Seq(Timeouts) /\ Len(later) = n
  <2>1. CASE k = n
    BY <2>1 DEF TimerList
  <2>2. CASE k # n
    <3>1. k + 1 \in 1..n /\ L[k + 1].left = L[k + 1].time + LeftAt(L, k)
      BY <1>1, <1>4, <2>2 DEF TimerList, Delta, LeftAt
    <3>2. L[k + 1].time - t.time \in Nat
      BY <1>1, <1>2, <1>4, <1>5, <1>6, <3>1 DEF Timeouts
    <3>3. [L[k + 1] EXCEPT !.time = @ - t.time] \in Timeouts
      BY <1>1, <3>1, <3>2 DEF Timeouts
    <3>. QED BY <1>1, <2>2, <3>1, <3>3 DEF TimerList
  <2>. QED BY <2>1, <2>2
<1>8. \A i \in 1..n : /\ later[i].h = L[i].h /\ later[i].left = L[i].left /\ later[i].soonest = L[i].soonest
                      /\ later[i].time = IF i = k + 1 THEN L[i].time - (ms - LeftAt(L, k)) ELSE L[i].time
  <2> SUFFICES ASSUME NEW i \in 1..n
               PROVE  /\ later[i].h = L[i].h /\ later[i].left = L[i].left /\ later[i].soonest = L[i].soonest
                      /\ later[i].time = IF i = k + 1 THEN L[i].time - (ms - LeftAt(L, k)) ELSE L[i].time
    OBVIOUS
  <2>1. CASE k = n
    BY <1>1, <1>4, <2>1
  <2>2. CASE k # n
    <3> DEFINE r == [L[k + 1] EXCEPT !.time = @ - t.time]
    <3>1. later = [L EXCEPT ![k + 1] = r] /\ k + 1 \in 1..n
      BY <1>1, <1>4, <2>2
    <3>2. r.h = L[k + 1].h /\ r.left = L[k + 1].left /\ r.soonest = L[k + 1].soonest
          /\ r.time = L[k + 1].time - (ms - LeftAt(L, k))
      BY <1>1, <1>6, <3>1 DEF Timeouts
    <3>3. later[i] = IF i = k + 1 THEN r ELSE L[i]
      BY <3>1 DEF TimerList
    <3> HIDE DEF r, later
    <3>. QED BY <3>2, <3>3
  <2>. QED BY <2>1, <2>2
<1> HIDE DEF t, later
<1>9. k + 1 \in 1..(Len(later) + 1)
  BY <1>1, <1>4, <1>7
<1>10. /\ B \in Seq(Timeouts) /\ Len(B) = n + 1 /\ B[k + 1] = t
       /\ \A j \in 1..n : B[IF j < k + 1 THEN j ELSE j + 1] = later[j]
  BY SMTT(40), <1>3, <1>6, <1>7, <1>9, PutInAt
<1>11. /\ t.h = hd /\ t.left = ms
       /\ t.soonest = IF ms * TICKS > over THEN ms * TICKS - over ELSE 0
  BY DEF t
<1>12. \A i \in 1..(n + 1) : /\ i < k + 1 => B[i] = later[i]
                             /\ i > k + 1 => B[i] = later[i - 1]
                             /\ i = k + 1 => B[i] = t
  <2> SUFFICES ASSUME NEW i \in 1..(n + 1)
               PROVE  /\ i < k + 1 => B[i] = later[i]
                      /\ i > k + 1 => B[i] = later[i - 1]
                      /\ i = k + 1 => B[i] = t
    OBVIOUS
  <2>1. CASE i < k + 1
    BY <1>1, <1>4, <1>10, <2>1
  <2>2. CASE i > k + 1
    <3> DEFINE j == i - 1
    <3>1. j \in 1..n /\ ~(j < k + 1) /\ j + 1 = i
      BY <1>1, <1>4, <2>2
    <3> HIDE DEF j
    <3>2. B[j + 1] = later[j]
      BY <1>10, <3>1
    <3>3. B[i] = later[i - 1]
      BY <3>1, <3>2 DEF j
    <3>. QED BY <2>2, <3>3, <1>4
  <2>. QED BY <1>4, <1>10, <2>1, <2>2
<1>13. Delta(B)
  <2> SUFFICES ASSUME NEW i \in 1..(n + 1)
               PROVE  B[i].left = B[i].time + (IF i = 1 THEN 0 ELSE B[i - 1].left)
    BY <1>10 DEF Delta
  <2>0. \A j \in 1..n : L[j].left = L[j].time + LeftAt(L, j - 1) /\ L[j].left \in Nat /\ L[j].time \in Nat
    BY LeftIs
  <2>1. CASE i < k + 1
    <3>1. B[i].left = L[i].left /\ B[i].time = L[i].time
      BY <1>4, <1>8, <1>12, <2>1
    <3>2. i # 1 => B[i - 1].left = L[i - 1].left
      BY <1>1, <1>4, <1>8, <1>12, <2>1
    <3>. QED BY <1>1, <1>4, <2>0, <2>1, <3>1, <3>2 DEF LeftAt
  <2>2. CASE i = k + 1
    <3>1. B[i].left = ms /\ B[i].time = ms - LeftAt(L, k)
      BY <1>6, <1>11, <1>12, <2>2
    <3>2. i # 1 => B[i - 1].left = L[i - 1].left
      BY <1>1, <1>4, <1>8, <1>12, <2>2
    <3>. QED BY <1>1, <1>2, <1>4, <2>2, <3>1, <3>2 DEF LeftAt
  <2>3. CASE i = k + 2
    <3>1. i - 1 \in 1..n /\ B[i] = later[i - 1]
      BY <1>1, <1>4, <1>12, <2>3
    <3>2. B[i].left = L[k + 1].left /\ B[i].time = L[k + 1].time - (ms - LeftAt(L, k))
      BY <1>1, <1>4, <1>8, <2>3, <3>1
    <3>3. i - 1 = k + 1 /\ B[i - 1].left = ms /\ i # 1
      BY <1>4, <1>10, <1>11, <2>3
    <3>4. L[k + 1].left = L[k + 1].time + LeftAt(L, k) /\ L[k + 1].left \in Nat /\ L[k + 1].time \in Nat
      BY <1>4, <2>0, <2>3, <3>1
    <3>. QED BY <1>2, <1>4, <3>2, <3>3, <3>4
  <2>4. CASE i > k + 2
    <3>1. i - 1 \in 1..n /\ i - 2 \in 1..n /\ B[i] = later[i - 1] /\ B[i - 1] = later[i - 2]
      BY <1>1, <1>4, <1>12, <2>4
    <3>2. B[i].left = L[i - 1].left /\ B[i].time = L[i - 1].time /\ B[i - 1].left = L[i - 2].left
      BY <1>1, <1>4, <1>8, <2>4, <3>1
    <3>3. L[i - 1].left = L[i - 1].time + L[i - 2].left
      BY <1>1, <2>0, <3>1 DEF LeftAt
    <3>. QED BY <1>4, <2>4, <3>2, <3>3
  <2>. QED BY <1>4, <2>1, <2>2, <2>3, <2>4
<1>14. Ordered(B)
  <2> SUFFICES ASSUME NEW i \in 1..(n + 1), NEW j \in 1..(n + 1), i <= j PROVE B[i].left <= B[j].left
    BY <1>10 DEF Ordered
  <2> DEFINE From(a) == IF a < k + 1 THEN a ELSE a - 1
  <2>1. \A a \in 1..(n + 1) : a # k + 1 => From(a) \in 1..n /\ B[a].left = L[From(a)].left
    BY <1>1, <1>4, <1>8, <1>12
  <2>2. \A a, b \in 1..n : a <= b => L[a].left <= L[b].left
    BY DEF TimerList, Ordered
  <2>3. \A a \in 1..n : (a < k + 1 => L[a].left <= ms) /\ (a >= k + 1 => ms <= L[a].left)
    <3> SUFFICES ASSUME NEW a \in 1..n PROVE (a < k + 1 => L[a].left <= ms) /\ (a >= k + 1 => ms <= L[a].left)
      OBVIOUS
    <3>1. L[a].left \in Nat
      BY <1>1 DEF Timeouts
    <3>2. CASE a < k + 1
      <4>1. k \in 1..n /\ L[a].left <= L[k].left /\ L[k].left <= ms /\ L[k].left \in Nat
        BY <1>1, <1>4, <1>5, <2>2, <3>2 DEF LeftAt, Timeouts
      <4>. QED BY <1>4, <3>1, <3>2, <4>1
    <3>3. CASE a >= k + 1
      <4>1. k + 1 \in 1..n /\ L[k + 1].left <= L[a].left /\ L[k + 1].left > ms /\ L[k + 1].left \in Nat
        BY <1>1, <1>4, <1>5, <2>2, <3>3 DEF Timeouts
      <4>. QED BY <1>4, <3>1, <3>3, <4>1
    <3>. QED BY <1>4, <3>2, <3>3
  <2>4. CASE i # k + 1 /\ j # k + 1
    <3>1. From(i) <= From(j)
      BY <1>4, <2>4
    <3>. QED BY <2>1, <2>2, <2>4, <3>1
  <2>5. CASE i = k + 1
    <3>1. B[i].left = ms
      BY <1>11, <1>12, <2>5
    <3>2. CASE j = k + 1
      BY <2>5, <3>1, <3>2
    <3>3. CASE j # k + 1
      BY <1>4, <2>1, <2>3, <2>5, <3>1, <3>3
    <3>. QED BY <3>2, <3>3
  <2>6. CASE j = k + 1 /\ i # k + 1
    <3>1. B[j].left = ms /\ i < k + 1
      BY <1>4, <1>11, <1>12, <2>6
    <3>. QED BY <1>4, <2>1, <2>3, <2>6, <3>1
  <2>. QED BY <2>4, <2>5, <2>6
<1>15. ASSUME NEW o \in Int, InTime(L, o), o <= over PROVE InTime(B, o)
  <2> SUFFICES ASSUME NEW i \in 1..(n + 1) PROVE B[i].soonest <= Positive(B[i].left * TICKS - o)
    BY <1>10 DEF InTime
  <2>1. CASE i = k + 1
    <3> DEFINE w == ms * TICKS
    <3>1. B[i].left = ms /\ B[i].soonest = (IF w > over THEN w - over ELSE 0) /\ w \in Nat
      BY <1>11, <1>12, <2>1, TimersNumbers
    <3> HIDE DEF w
    <3>2. (IF w > over THEN w - over ELSE 0) <= Positive(w - o)
      BY <1>15, <3>1 DEF Positive
    <3>. QED BY <3>1, <3>2 DEF w
  <2>2. CASE i # k + 1
    <3> DEFINE a == IF i < k + 1 THEN i ELSE i - 1
    <3>1. a \in 1..n /\ B[i] = later[a]
      BY <1>1, <1>4, <1>12, <2>2
    <3>2. B[i].left = L[a].left /\ B[i].soonest = L[a].soonest
      BY <1>8, <3>1
    <3> HIDE DEF a
    <3>. QED BY <1>15, <3>1, <3>2 DEF InTime
  <2>. QED BY <2>1, <2>2
<1>16. PutIn(L, B, k + 1)
  <2> SUFFICES ASSUME NEW j \in 1..n PROVE L[j].h = B[IF j < k + 1 THEN j ELSE j + 1].h
    BY <1>1, <1>4, <1>10 DEF PutIn
  <2>. QED BY <1>8, <1>10
<1>17. L \in Seq(Timeouts)
  BY DEF TimerList
<1>18. \A x : /\ T!InList(B, x) = T!InList(L, x) + (IF hd = x THEN 1 ELSE 0)
              /\ T!InList(L, x) \in Nat
  <2> TAKE x
  <2>1. B[k + 1].h = hd
    BY <1>10, <1>11
  <2>. QED BY <1>10, <1>16, <1>17, <2>1, OneMore
<1>. QED BY <1>10, <1>13, <1>14, <1>15, <1>18 DEF TimerList, Longer, B

LEMMA TakenOutAt ==
    ASSUME NEW L \in Seq(Timeouts), NEW p \in 1..Len(L)
    PROVE  LET R == T!RemoveAt(L, p) IN
           /\ R \in Seq(Timeouts) /\ Len(R) = Len(L) - 1
           /\ \A j \in 1..(Len(L) - 1) : R[j] = L[IF j < p THEN j ELSE j + 1]
<1> DEFINE n == Len(L)
           s1 == SubSeq(L, 1, p - 1)
           s2 == SubSeq(L, p + 1, n)
           R == T!RemoveAt(L, p)
<1>1. n \in Nat /\ \A i \in 1..n : L[i] \in Timeouts
  OBVIOUS
<1>2. s1 \in Seq(Timeouts) /\ Len(s1) = p - 1 /\ \A i \in 1..(p - 1) : s1[i] = L[i]
  BY <1>1
<1>3. s2 \in Seq(Timeouts) /\ Len(s2) = n - p /\ \A i \in 1..(n - p) : s2[i] = L[p + i]
  BY <1>1
<1>4. R = s1 \o s2
  BY DEF T!RemoveAt
<1> HIDE DEF s1, s2, R
<1>5. R \in Seq(Timeouts) /\ Len(R) = n - 1
  <2>1. R \in Seq(Timeouts) /\ Len(R) = Len(s1) + Len(s2)
    BY <1>2, <1>3, <1>4
  <2>. QED BY <1>1, <1>2, <1>3, <2>1
<1>6. ASSUME NEW j \in 1..(n - 1) PROVE R[j] = L[IF j < p THEN j ELSE j + 1]
  <2>1. CASE j < p
    BY <1>1, <1>2, <1>3, <1>4, <2>1
  <2>2. CASE ~(j < p)
    <3>1. R[j] = s2[j + 1 - p]
      BY SMTT(40), <1>1, <1>2, <1>3, <1>4, <2>2
    <3>2. s2[j + 1 - p] = L[j + 1]
      BY <1>1, <1>3, <2>2
    <3>. QED BY <2>2, <3>1, <3>2
  <2>. QED BY <2>1, <2>2
<1>. QED BY <1>5, <1>6 DEF R

\* With an entry less, after which ticks have gone by.
Shorter(L, R, hd, ticks) ==
    /\ TimerList(R)
    /\ \A o \in Int : InTime(L, o + ticks) => InTime(R, o)
    /\ \A x : T!InList(L, x) = T!InList(R, x) + (IF hd = x THEN 1 ELSE 0)
    /\ \A x : T!InList(R, x) \in Nat
\* sys_untimeout of a handler that is in the list: one entry less.
LEMMA DisarmedIs ==
    ASSUME NEW L, TimerList(L), NEW hd, NEW q \in 1..Len(L), L[q].h = hd
    PROVE  Shorter(L, T!sys_untimeout(L, hd), hd, 0)
<1> DEFINE n == Len(L)
           at == {i \in 1..n : L[i].h = hd}
           k == CHOOSE i \in at : \A j \in at : i <= j
           rest == T!RemoveAt(L, k)
           R == T!sys_untimeout(L, hd)
<1>1. n \in Nat /\ \A i \in 1..n : L[i] \in Timeouts
  BY DEF TimerList
<1>2. k \in at
  <2>1. at \in SUBSET Nat /\ q \in at
    OBVIOUS
  <2>. QED BY <2>1, LeastExists
<1>3. R = IF k > Len(rest) THEN rest ELSE [rest EXCEPT ![k].time = @ + L[k].time]
  <2>1. at # {}
    OBVIOUS
  <2>. QED BY <2>1 DEF T!sys_untimeout
<1>4. k \in 1..n /\ L[k].h = hd
  BY <1>2
<1> HIDE DEF k, at
<1>5. /\ rest \in Seq(Timeouts) /\ Len(rest) = n - 1
      /\ \A j \in 1..(n - 1) : rest[j] = L[IF j < k THEN j ELSE j + 1]
  BY <1>4, TakenOutAt DEF TimerList
<1> HIDE DEF rest, R
<1>6. R \in Seq(Timeouts) /\ Len(R) = n - 1
  <2>1. CASE k > Len(rest)
    BY <1>3, <1>5, <2>1
  <2>2. CASE ~(k > Len(rest))
    <3> DEFINE r == [rest[k] EXCEPT !.time = @ + L[k].time]
    <3>1. R = [rest EXCEPT ![k] = r] /\ k \in 1..Len(rest)
      BY <1>1, <1>3, <1>4, <1>5, <2>2
    <3>2. r \in Timeouts
      <4>1. rest[k] \in Timeouts /\ L[k] \in Timeouts
        BY <1>1, <1>4, <1>5, <3>1
      <4>2. rest[k].time + L[k].time \in Nat
        BY <4>1 DEF Timeouts
      <4>. QED BY <4>1, <4>2 DEF Timeouts
    <3> HIDE DEF r
    <3>. QED BY <1>5, <3>1, <3>2
  <2>. QED BY <2>1, <2>2
<1>7. ASSUME NEW j \in 1..(n - 1)
      PROVE  /\ R[j].h = L[IF j < k THEN j ELSE j + 1].h
             /\ R[j].left = L[IF j < k THEN j ELSE j + 1].left
             /\ R[j].soonest = L[IF j < k THEN j ELSE j + 1].soonest
             /\ R[j].time = L[IF j < k THEN j ELSE j + 1].time + (IF j = k THEN L[k].time ELSE 0)
  <2>1. rest[j] = L[IF j < k THEN j ELSE j + 1] /\ rest[j] \in Timeouts
    BY <1>5
  <2>2. rest[j].time + 0 = rest[j].time
    BY <2>1 DEF Timeouts
  <2>3. CASE k > Len(rest)
    <3>1. R[j] = rest[j] /\ j # k
      BY <1>1, <1>3, <1>4, <1>5, <2>3
    <3>. QED BY <2>1, <2>2, <3>1
  <2>4. CASE ~(k > Len(rest))
    <3> DEFINE r == [rest[k] EXCEPT !.time = @ + L[k].time]
    <3>1. R = [rest EXCEPT ![k] = r] /\ k \in 1..Len(rest)
      BY <1>1, <1>3, <1>4, <1>5, <2>4
    <3>2. rest[k] \in Timeouts
      BY <1>5, <3>1
    <3>3. r.h = rest[k].h /\ r.left = rest[k].left /\ r.soonest = rest[k].soonest
          /\ r.time = rest[k].time + L[k].time
      BY <3>2 DEF Timeouts
    <3>4. R[j] = IF j = k THEN r ELSE rest[j]
      BY <1>5, <3>1
    <3> HIDE DEF r
    <3>5. CASE j = k
      BY <2>1, <3>3, <3>4, <3>5
    <3>6. CASE j # k
      BY <2>1, <2>2, <3>4, <3>6
    <3>. QED BY <3>5, <3>6
  <2>. QED BY <2>3, <2>4
<1>8. \A j \in 1..n : L[j].left = L[j].time + LeftAt(L, j - 1) /\ L[j].left \in Nat /\ L[j].time \in Nat
  BY LeftIs
<1>9. Delta(R)
  <2> SUFFICES ASSUME NEW i \in 1..(n - 1)
               PROVE  R[i].left = R[i].time + (IF i = 1 THEN 0 ELSE R[i - 1].left)
    BY <1>6 DEF Delta
  <2>1. CASE i < k
    <3>0. R[i].left = L[i].left /\ R[i].time = L[i].time + 0 /\ i \in 1..n /\ L[i].time \in Nat
      BY <1>1, <1>4, <1>7, <1>8, <2>1
    <3>1. R[i].left = L[i].left /\ R[i].time = L[i].time
      BY <3>0
    <3>2. i # 1 => R[i - 1].left = L[i - 1].left
      BY <1>1, <1>4, <1>7, <2>1
    <3>. QED BY <1>1, <1>8, <3>1, <3>2 DEF LeftAt
  <2>2. CASE i = k
    <3>1. R[i].left = L[k + 1].left /\ R[i].time = L[k + 1].time + L[k].time
      BY <1>1, <1>4, <1>7, <2>2
    <3>2. i # 1 => R[i - 1].left = L[i - 1].left
      BY <1>1, <1>4, <1>7, <2>2
    <3>3. k + 1 \in 1..n /\ L[k + 1].left = L[k + 1].time + L[k].left
      <4> DEFINE a == k + 1
      <4>1. a \in 1..n /\ a - 1 = k /\ k # 0
        BY <1>1, <1>4, <2>2
      <4> HIDE DEF a
      <4>2. L[a].left = L[a].time + L[k].left
        BY <1>8, <4>1 DEF LeftAt
      <4>. QED BY <4>1, <4>2 DEF a
    <3>4. L[k].left = L[k].time + LeftAt(L, k - 1) /\ LeftAt(L, k - 1) \in Nat
      BY <1>1, <1>4, <1>8 DEF LeftAt
    <3>5. L[k + 1].time \in Nat /\ L[k].time \in Nat
      BY <1>4, <1>8, <3>3
    <3>6. R[i].left = R[i].time + LeftAt(L, k - 1)
      BY <3>1, <3>3, <3>4, <3>5
    <3>7. LeftAt(L, k - 1) = (IF i = 1 THEN 0 ELSE R[i - 1].left)
      BY <1>4, <2>2, <3>2 DEF LeftAt
    <3>. QED BY <3>6, <3>7
  <2>3. CASE i > k
    <3>1. i + 1 \in 1..n /\ i \in 1..n /\ i - 1 \in 1..(n - 1) /\ ~(i < k) /\ ~(i - 1 < k) /\ i # 1
      BY <1>1, <1>4, <2>3
    <3>2. R[i].left = L[i + 1].left /\ R[i].time = L[i + 1].time + 0
      BY <1>7, <2>3, <3>1, <1>4
    <3>3. R[i - 1].left = L[i].left
      BY <1>7, <3>1
    <3>4. L[i + 1].left = L[i + 1].time + L[i].left /\ L[i + 1].time \in Nat
      BY SMTT(40), <1>8, <3>1 DEF LeftAt
    <3>. QED BY <3>1, <3>2, <3>3, <3>4
  <2>. QED BY <1>4, <2>1, <2>2, <2>3
<1>10. Ordered(R)
  <2> SUFFICES ASSUME NEW i \in 1..(n - 1), NEW j \in 1..(n - 1), i <= j PROVE R[i].left <= R[j].left
    BY <1>6 DEF Ordered
  <2> DEFINE From(a) == IF a < k THEN a ELSE a + 1
  <2>1. From(i) \in 1..n /\ From(j) \in 1..n /\ From(i) <= From(j)
    BY <1>1, <1>4
  <2>2. R[i].left = L[From(i)].left /\ R[j].left = L[From(j)].left
    BY <1>7
  <2> HIDE DEF From
  <2>. QED BY <2>1, <2>2 DEF TimerList, Ordered
<1>11. ASSUME NEW o \in Int, InTime(L, o) PROVE InTime(R, o)
  <2> SUFFICES ASSUME NEW i \in 1..(n - 1) PROVE R[i].soonest <= Positive(R[i].left * TICKS - o)
    BY <1>6 DEF InTime
  <2> DEFINE a == IF i < k THEN i ELSE i + 1
  <2>1. a \in 1..n
    BY <1>1, <1>4
  <2>2. R[i].left = L[a].left /\ R[i].soonest = L[a].soonest
    BY <1>7
  <2> HIDE DEF a
  <2>. QED BY <1>11, <2>1, <2>2 DEF InTime
<1>12. PutIn(R, L, k)
  <2> SUFFICES ASSUME NEW j \in 1..(n - 1) PROVE R[j].h = L[IF j < k THEN j ELSE j + 1].h
    BY <1>1, <1>4, <1>6 DEF PutIn
  <2>. QED BY <1>7
<1>13. L \in Seq(Timeouts)
  BY DEF TimerList
<1>14. \A x : /\ T!InList(L, x) = T!InList(R, x) + (IF hd = x THEN 1 ELSE 0)
              /\ T!InList(R, x) \in Nat
  BY <1>4, <1>6, <1>12, <1>13, OneMore
<1>15. \A o \in Int : InTime(L, o + 0) => InTime(R, o)
  BY <1>11
<1>. QED BY <1>6, <1>9, <1>10, <1>14, <1>15 DEF TimerList, Shorter, R

\* Taking out the first entry: the time that it kept has gone by for the rest.
LEMMA AdvancedIs ==
    ASSUME NEW L, TimerList(L), L # <<>>
    PROVE  /\ L[1] \in Timeouts /\ L[1].left = L[1].time
           /\ Shorter(L, T!Advance(L), L[1].h, L[1].time * TICKS)
<1> DEFINE n == Len(L)
           gap == L[1].time
           R == T!Advance(L)
<1>1. n \in Nat /\ n > 0 /\ (\A i \in 1..n : L[i] \in Timeouts) /\ 1 \in 1..n
  BY DEF TimerList
<1>2. gap \in Nat /\ L[1] \in Timeouts
  BY <1>1 DEF Timeouts
<1>3. \A j \in 1..n : L[j].left = L[j].time + LeftAt(L, j - 1) /\ L[j].left \in Nat /\ L[j].time \in Nat
  BY LeftIs
<1>4. L[1].left = gap
  BY <1>1, <1>3 DEF LeftAt
<1>5. \A j \in 1..n : gap <= L[j].left
  BY <1>1, <1>4 DEF TimerList, Ordered
<1>6. R = [i \in 1..(n - 1) |-> [L[i + 1] EXCEPT !.left = @ - gap]]
  BY DEF T!Advance
<1>7. ASSUME NEW i \in 1..(n - 1)
      PROVE  /\ R[i] \in Timeouts /\ R[i].h = L[i + 1].h /\ R[i].left = L[i + 1].left - gap
             /\ R[i].soonest = L[i + 1].soonest /\ R[i].time = L[i + 1].time
  <2>1. i + 1 \in 1..n /\ R[i] = [L[i + 1] EXCEPT !.left = @ - gap]
    BY <1>1, <1>6
  <2>2. L[i + 1] \in Timeouts /\ L[i + 1].left - gap \in Nat
    BY <1>1, <1>2, <1>3, <1>5, <2>1
  <2> HIDE DEF gap, R
  <2>. QED BY <2>1, <2>2 DEF Timeouts
<1>8. R \in Seq(Timeouts) /\ Len(R) = n - 1
  <2>1. \A i \in 1..(n - 1) : [L[i + 1] EXCEPT !.left = @ - gap] \in Timeouts
    BY <1>6, <1>7
  <2>2. n - 1 \in Nat
    BY <1>1
  <2>. QED BY <1>6, <2>1, <2>2
<1> HIDE DEF R, gap
<1>9. Delta(R)
  <2> SUFFICES ASSUME NEW i \in 1..(n - 1)
               PROVE  R[i].left = R[i].time + (IF i = 1 THEN 0 ELSE R[i - 1].left)
    BY <1>8 DEF Delta
  <2>1. i + 1 \in 1..n /\ i \in 1..n /\ L[i + 1].left = L[i + 1].time + L[i].left
    BY <1>1, <1>3 DEF LeftAt
  <2>2. R[i].left = L[i + 1].left - gap /\ R[i].time = L[i + 1].time
    BY <1>7
  <2>3. CASE i = 1
    BY <1>1, <1>2, <1>3, <1>4, <2>1, <2>2, <2>3
  <2>4. CASE i # 1
    <3>1. R[i - 1].left = L[i].left - gap
      <4> DEFINE a == i - 1
      <4>1. a \in 1..(n - 1) /\ a + 1 = i
        BY <1>1, <2>4
      <4> HIDE DEF a
      <4>2. R[a].left = L[a + 1].left - gap
        BY <1>7, <4>1
      <4>. QED BY <4>1, <4>2 DEF a
    <3>. QED BY <1>2, <1>3, <2>1, <2>2, <2>4, <3>1, SMTT(30)
  <2>. QED BY <2>3, <2>4
<1>10. Ordered(R)
  <2> SUFFICES ASSUME NEW i \in 1..(n - 1), NEW j \in 1..(n - 1), i <= j PROVE R[i].left <= R[j].left
    BY <1>8 DEF Ordered
  <2>1. L[i + 1].left <= L[j + 1].left
    BY <1>1 DEF TimerList, Ordered
  <2>2. L[i + 1].left \in Nat /\ L[j + 1].left \in Nat
    BY <1>1, <1>3
  <2>. QED BY <1>2, <1>7, <2>1, <2>2
<1>11. ASSUME NEW o \in Int, InTime(L, o + gap * TICKS) PROVE InTime(R, o)
  <2> SUFFICES ASSUME NEW i \in 1..(n - 1) PROVE R[i].soonest <= Positive(R[i].left * TICKS - o)
    BY <1>8 DEF InTime
  <2>1. i + 1 \in 1..n /\ L[i + 1].left \in Nat
    BY <1>1, <1>3
  <2>2. L[i + 1].soonest <= Positive(L[i + 1].left * TICKS - (o + gap * TICKS))
    BY <1>11, <2>1 DEF InTime
  <2>3. (L[i + 1].left - gap) * TICKS - o = L[i + 1].left * TICKS - (o + gap * TICKS)
    BY <1>2, <1>11, <2>1, TimersNumbers
  <2>. QED BY <1>7, <2>2, <2>3
<1>12. PutIn(R, L, 1)
  BY <1>1, <1>7, <1>8 DEF PutIn
<1>13. \A x : /\ T!InList(L, x) = T!InList(R, x) + (IF L[1].h = x THEN 1 ELSE 0)
              /\ T!InList(R, x) \in Nat
  BY <1>8, <1>12, OneMore DEF TimerList
<1>. QED BY <1>2, <1>4, <1>8, <1>9, <1>10, <1>11, <1>13 DEF TimerList, Shorter, R, gap

-----------------------------------------------------------------------------

LEMMA ElapsedIs ==
    ASSUME NEW a \in 0..(WRAP - 1), NEW b \in 0..(WRAP - 1)
    PROVE  T!U32Diff(a, b) = IF a >= b THEN a - b ELSE a - b + WRAP
<1>1. WRAP \in Nat \ {0}
  BY TimersNumbers
<1>2. CASE a >= b
  <2>1. ((a - b) % WRAP) = a - b
    BY <1>1, <1>2
  <2>. QED BY <1>2, <2>1 DEF T!U32Diff
<1>3. CASE ~(a >= b)
  <2>1. a - b = WRAP * (-1) + (a - b + WRAP) /\ a - b + WRAP \in 0..(WRAP - 1)
    BY <1>1, <1>3
  <2>2. ((a - b) % WRAP) = a - b + WRAP
    BY <1>1, <1>3, <2>1
  <2>. QED BY <1>3, <2>2 DEF T!U32Diff
<1>. QED BY <1>2, <1>3

LEMMA ElapsedTyped == Clocks => T!Elapsed \in 0..(WRAP - 1)
<1> SUFFICES ASSUME Clocks PROVE T!Elapsed \in 0..(WRAP - 1)
  OBVIOUS
<1>1. T!Elapsed = IF now >= timeouts_last_time THEN now - timeouts_last_time ELSE now - timeouts_last_time + WRAP
  BY ElapsedIs DEF Clocks, T!Elapsed
<1>. QED BY <1>1, TimersNumbers DEF Clocks

\* With less time gone by, nothing is too early either.
LEMMA InTimeBefore ==
    ASSUME NEW L, TimerList(L), NEW o \in Int, InTime(L, o), NEW p \in Int, p <= o
    PROVE  InTime(L, p)
<1> SUFFICES ASSUME NEW i \in 1..Len(L) PROVE L[i].soonest <= Positive(L[i].left * TICKS - p)
  BY DEF InTime
<1> DEFINE w == L[i].left * TICKS
<1>1. w \in Int
  BY LeftIs, TimersNumbers
<1>2. L[i].soonest <= Positive(w - o)
  BY DEF InTime
<1>3. L[i].soonest \in Nat
  BY LeftIs DEF Timeouts
<1> HIDE DEF w
<1>4. L[i].soonest <= Positive(w - p)
  BY <1>1, <1>2, <1>3 DEF Positive
<1>. QED BY <1>4 DEF w

LEMMA WholeTicks ==
    ASSUME NEW e \in 0..WRAP
    PROVE  /\ (e \div TICKS) \in 0..(WRAP \div TICKS)
           /\ (e \div TICKS) * TICKS <= e
<1>1. TICKS \in Nat \ {0} /\ WRAP \in Nat
  BY TimersNumbers
<1> DEFINE q == e \div TICKS
           m == WRAP \div TICKS
<1>2. q \in Nat /\ m \in Nat
  BY <1>1
<1>3. q * TICKS <= e /\ WRAP < (m + 1) * TICKS
  BY <1>1
<1> HIDE DEF q, m
<1>4. q <= m
  <2> SUFFICES ASSUME m + 1 <= q PROVE FALSE
    BY <1>2
  <2>1. (q - (m + 1)) * TICKS >= 0
    BY <1>1, <1>2
  <2>2. (q - (m + 1)) * TICKS = q * TICKS - (m + 1) * TICKS
    BY <1>1, <1>2
  <2> DEFINE x == q * TICKS
             y == (m + 1) * TICKS
  <2>3. x \in Int /\ y \in Int
    BY <1>1, <1>2
  <2> HIDE DEF x, y
  <2>4. x - y >= 0 /\ x <= e /\ WRAP < y
    BY <1>3, <2>1, <2>2 DEF x, y
  <2>. QED BY <1>1, <2>3, <2>4
<1>. QED BY <1>2, <1>3, <1>4 DEF q, m

\* How many entries a handler has, as a number of the sets that are known.
LEMMA CountIs ==
    ASSUME NEW L \in Seq(Timeouts), NEW x
    PROVE  /\ T!InList(L, x) = Cardinality({i \in 1..Len(L) : L[i].h = x})
           /\ T!InList(L, x) \in Nat
           /\ T!InList(L, x) > 0 => \E i \in 1..Len(L) : L[i].h = x
<1> DEFINE X == {i \in 1..Len(L) : L[i].h = x}
<1>1. T!InList(L, x) = T!Cardinality(X)
  BY DEF T!InList
<1>2. T!InList(L, x) = Cardinality(X)
  BY Zenon, <1>1 DEF T!Cardinality, Cardinality
<1>3. IsFiniteSet(X)
  <2>1. IsFiniteSet(1..Len(L))
    BY FS_Interval
  <2>. QED BY <2>1, FS_Subset
<1>4. Cardinality(X) \in Nat
  BY <1>3, FS_CardinalityType
<1>5. X = {} => Cardinality(X) = 0
  BY FS_EmptySet
<1>6. Cardinality(X) > 0 => X # {}
  BY <1>5
<1>. QED BY <1>2, <1>4, <1>6

LEMMA TimersInitially == T!Init => TimersInv
<1> SUFFICES ASSUME T!Init PROVE TimersInv
  OBVIOUS
<1> DEFINE p == T!Entry("period", PERIOD, PERIOD)
           q == T!Entry("tcp", TCP_TMR_INTERVAL, TCP_TMR_INTERVAL - PERIOD)
           r == T!Entry("tcp", TCP_TMR_INTERVAL, TCP_TMR_INTERVAL)
           s == T!Entry("period", PERIOD, PERIOD - TCP_TMR_INTERVAL)
           L == next_timeout
<1>1. L = IF PERIOD <= TCP_TMR_INTERVAL THEN <<p, q>> ELSE <<r, s>>
  BY DEF T!Init
<1>2. PERIOD * TICKS \in Nat /\ TCP_TMR_INTERVAL * TICKS \in Nat
  BY TimersNumbers
<1>3. p \in Timeouts /\ r \in Timeouts
  BY <1>2, TimersNumbers DEF T!Entry, Timeouts
<1>4. PERIOD <= TCP_TMR_INTERVAL => q \in Timeouts
  BY <1>2, TimersNumbers DEF T!Entry, Timeouts
<1>5. ~(PERIOD <= TCP_TMR_INTERVAL) => s \in Timeouts
  BY <1>2, TimersNumbers DEF T!Entry, Timeouts
<1>6. /\ p.h = "period" /\ s.h = "period" /\ q.h = "tcp" /\ r.h = "tcp"
      /\ p.left = PERIOD /\ s.left = PERIOD /\ q.left = TCP_TMR_INTERVAL /\ r.left = TCP_TMR_INTERVAL
      /\ p.time = PERIOD /\ r.time = TCP_TMR_INTERVAL
      /\ q.time = TCP_TMR_INTERVAL - PERIOD /\ s.time = PERIOD - TCP_TMR_INTERVAL
      /\ \A e \in {p, q, r, s} : e.soonest = e.left * TICKS
  BY DEF T!Entry
<1> HIDE DEF p, q, r, s, L
<1>7. PICK e1 \in {p, r}, e2 \in {q, s} :
         /\ L = <<e1, e2>> /\ e1 \in Timeouts /\ e2 \in Timeouts
         /\ e1.time = e1.left /\ e2.left = e2.time + e1.left
         /\ \/ e1.h = "period" /\ e2.h = "tcp"
            \/ e1.h = "tcp" /\ e2.h = "period"
  <2>1. CASE PERIOD <= TCP_TMR_INTERVAL
    <3>1. L = <<p, q>> /\ p \in Timeouts /\ q \in Timeouts
      BY <1>1, <1>3, <1>4, <2>1
    <3>2. q.left = q.time + p.left /\ p.time = p.left /\ p.h = "period" /\ q.h = "tcp"
      BY <1>6, TimersNumbers
    <3>. QED BY <3>1, <3>2
  <2>2. CASE ~(PERIOD <= TCP_TMR_INTERVAL)
    <3>1. L = <<r, s>> /\ r \in Timeouts /\ s \in Timeouts
      BY <1>1, <1>3, <1>5, <2>2
    <3>2. s.left = s.time + r.left /\ r.time = r.left /\ r.h = "tcp" /\ s.h = "period"
      BY <1>6, TimersNumbers
    <3>. QED BY <3>1, <3>2
  <2>. QED BY <2>1, <2>2
<1>8. e1.left \in Nat /\ e2.left \in Nat /\ e1.left <= e2.left
  BY <1>7 DEF Timeouts
<1>9. L \in Seq(Timeouts) /\ Len(L) = 2 /\ L[1] = e1 /\ L[2] = e2
  BY <1>7
<1>10. Delta(L) /\ Ordered(L)
  <2>1. \A i \in 1..2 : i = 1 \/ i = 2
    OBVIOUS
  <2>2. Delta(L)
    BY <1>7, <1>8, <1>9, <2>1 DEF Delta
  <2>3. Ordered(L)
    BY <1>8, <1>9, <2>1 DEF Ordered
  <2>. QED BY <2>2, <2>3
<1>11. InTime(L, 0)
  <2> SUFFICES ASSUME NEW i \in 1..2 PROVE L[i].soonest <= Positive(L[i].left * TICKS - 0)
    BY <1>9 DEF InTime
  <2>1. L[i] \in {p, q, r, s} /\ L[i].left \in Nat
    BY <1>8, <1>9
  <2> DEFINE w == L[i].left * TICKS
  <2>2. L[i].soonest = w /\ w \in Nat
    BY <1>6, <2>1, TimersNumbers
  <2> HIDE DEF w
  <2>3. L[i].soonest <= Positive(w - 0)
    BY <2>2 DEF Positive
  <2>. QED BY <2>3 DEF w
<1>12. now = 0 /\ timeouts_last_time = 0 /\ diff = -1 /\ pcbs = FALSE /\ tcpip_tcp_timer_active = FALSE
  BY DEF T!Init, T!NotChecking
<1>13. Clocks /\ T!Elapsed = 0
  <2>1. 0 \in 0..(WRAP - 1) /\ -1 \in -1..(WRAP \div TICKS)
    BY TimersNumbers, WholeTicks
  <2>2. T!U32Diff(0, 0) = 0
    BY <2>1, ElapsedIs
  <2>. QED BY <1>12, <2>1, <2>2 DEF Clocks, T!Elapsed
<1>14. T!InList(L, "period") = 1 /\ T!InList(L, "tcp") = 1
  <2>1. ASSUME NEW x \in {"period", "tcp"} PROVE T!InList(L, x) = 1
    <3>1. PICK k \in 1..2 : {i \in 1..2 : L[i].h = x} = {k}
      <4>1. \A i \in 1..2 : i = 1 \/ i = 2
        OBVIOUS
      <4>2. CASE e1.h = x
        <5>1. {i \in 1..2 : L[i].h = x} = {1}
          BY <1>7, <1>9, <4>1, <4>2
        <5>. QED BY <5>1
      <4>3. CASE e1.h # x
        <5>1. {i \in 1..2 : L[i].h = x} = {2}
          BY <1>7, <1>9, <4>1, <4>3
        <5>. QED BY <5>1
      <4>. QED BY <4>2, <4>3
    <3>2. T!InList(L, x) = Cardinality({k})
      BY <1>9, <3>1, CountIs
    <3>. QED BY <3>2, FS_Singleton
  <2>. QED BY <2>1
<1>15. Repeating(L)
  BY <1>12, <1>14 DEF Repeating
<1>. QED BY <1>9, <1>10, <1>11, <1>12, <1>13, <1>15 DEF TimersInv, TimerList, T!NotChecking, L

LEMMA TickKept == ASSUME TimersInv, T!Tick PROVE TimersInv'
<1> DEFINE L == next_timeout
           B == next_timeout'
<1>1. /\ diff = -1 /\ diff' = diff /\ now' = ((now + 1) % WRAP)
      /\ UNCHANGED <<timeouts_last_time, pcbs, tcpip_tcp_timer_active>>
      /\ B = [i \in 1..Len(L) |-> [L[i] EXCEPT !.soonest = IF @ = 0 THEN 0 ELSE @ - 1]]
  BY DEF T!Tick, T!NotChecking
<1>2. Clocks /\ TimerList(L) /\ InTime(L, T!Elapsed) /\ Repeating(L)
  BY DEF TimersInv
<1> HIDE DEF L, B
<1>3. \A i \in 1..Len(L) : L[i] \in Timeouts
  BY <1>2 DEF TimerList
<1>4. ASSUME NEW i \in 1..Len(L)
      PROVE  /\ B[i] \in Timeouts /\ B[i].h = L[i].h /\ B[i].time = L[i].time /\ B[i].left = L[i].left
             /\ B[i].soonest = IF L[i].soonest = 0 THEN 0 ELSE L[i].soonest - 1
  <2>1. B[i] = [L[i] EXCEPT !.soonest = IF @ = 0 THEN 0 ELSE @ - 1] /\ L[i] \in Timeouts
    BY <1>1, <1>3
  <2>2. (IF L[i].soonest = 0 THEN 0 ELSE L[i].soonest - 1) \in Nat
    BY <2>1 DEF Timeouts
  <2>. QED BY <2>1, <2>2 DEF Timeouts
<1>5. B \in Seq(Timeouts) /\ Len(B) = Len(L)
  <2>1. \A i \in 1..Len(L) : [L[i] EXCEPT !.soonest = IF @ = 0 THEN 0 ELSE @ - 1] \in Timeouts
    BY <1>1, <1>4
  <2>2. Len(L) \in Nat
    BY <1>2 DEF TimerList
  <2>. QED BY <1>1, <2>1, <2>2
<1>6. Delta(B)
  <2> SUFFICES ASSUME NEW i \in 1..Len(L)
               PROVE  B[i].left = B[i].time + (IF i = 1 THEN 0 ELSE B[i - 1].left)
    BY <1>5 DEF Delta
  <2>1. i # 1 => B[i - 1].left = L[i - 1].left
    <3> SUFFICES ASSUME i # 1 PROVE B[i - 1].left = L[i - 1].left
      OBVIOUS
    <3>1. i - 1 \in 1..Len(L)
      BY <1>5
    <3>. QED BY <1>4, <3>1
  <2>2. L[i].left = L[i].time + (IF i = 1 THEN 0 ELSE L[i - 1].left)
    BY Zenon, <1>2 DEF TimerList, Delta
  <2>. QED BY <1>4, <2>1, <2>2
<1>7. Ordered(B)
  BY <1>2, <1>4, <1>5 DEF TimerList, Ordered
<1>8. T!Elapsed \in 0..(WRAP - 1) /\ T!Elapsed' \in 0..(WRAP - 1) /\ T!Elapsed' <= T!Elapsed + 1 /\ Clocks'
  <2>1. now \in 0..(WRAP - 1) /\ timeouts_last_time \in 0..(WRAP - 1) /\ WRAP \in Nat \ {0}
    BY <1>2, TimersNumbers DEF Clocks
  <2>2. now' = IF now = WRAP - 1 THEN 0 ELSE now + 1
    <3>1. CASE now = WRAP - 1
      <4>1. now + 1 = WRAP * 1 + 0 /\ 0 \in 0..(WRAP - 1)
        BY <2>1, <3>1
      <4>. QED BY <1>1, <2>1, <3>1, <4>1
    <3>2. CASE now # WRAP - 1
      <4>1. ((now + 1) % WRAP) = now + 1
        BY <2>1, <3>2
      <4>. QED BY <1>1, <3>2, <4>1
    <3>. QED BY <3>1, <3>2
  <2>3. now' \in 0..(WRAP - 1)
    BY <2>1, <2>2
  <2>4. Clocks'
    BY <1>1, <1>2, <2>3 DEF Clocks
  <2>5. T!Elapsed = IF now >= timeouts_last_time THEN now - timeouts_last_time ELSE now - timeouts_last_time + WRAP
    BY <2>1, ElapsedIs DEF T!Elapsed
  <2>6. T!Elapsed' = T!U32Diff(now', timeouts_last_time)
    BY <1>1 DEF T!Elapsed, T!U32Diff
  <2>7. T!Elapsed' = IF now' >= timeouts_last_time THEN now' - timeouts_last_time ELSE now' - timeouts_last_time + WRAP
    BY <2>1, <2>3, <2>6, ElapsedIs
  <2>. QED BY <2>1, <2>2, <2>4, <2>5, <2>7
<1>9. InTime(B, T!Elapsed')
  <2> DEFINE e == T!Elapsed
             f == T!Elapsed'
  <2> SUFFICES ASSUME NEW i \in 1..Len(L) PROVE B[i].soonest <= Positive(B[i].left * TICKS - f)
    BY <1>5 DEF InTime
  <2> DEFINE w == L[i].left * TICKS
  <2>1. w \in Nat /\ L[i].soonest \in Nat
    BY <1>2, <1>3, LeftIs, TimersNumbers DEF Timeouts
  <2>2. L[i].soonest <= Positive(w - e)
    BY <1>2 DEF InTime
  <2>3. e \in Nat /\ f \in Nat /\ f <= e + 1
    BY <1>8
  <2> HIDE DEF w, e, f
  <2>4. (IF L[i].soonest = 0 THEN 0 ELSE L[i].soonest - 1) <= Positive(w - f)
    BY <2>1, <2>2, <2>3 DEF Positive
  <2>. QED BY <1>4, <2>4 DEF w
<1>10. \A x : T!InList(B, x) = T!InList(L, x)
  <2> TAKE x
  <2>1. {i \in 1..Len(B) : B[i].h = x} = {i \in 1..Len(L) : L[i].h = x}
    BY <1>4, <1>5
  <2>2. T!InList(B, x) = Cardinality({i \in 1..Len(B) : B[i].h = x})
    BY <1>5, CountIs
  <2>3. T!InList(L, x) = Cardinality({i \in 1..Len(L) : L[i].h = x})
    BY <1>2, CountIs DEF TimerList
  <2>. QED BY <2>1, <2>2, <2>3
<1>11. Repeating(next_timeout)'
  <2>1. /\ T!InList(next_timeout', "period") = T!InList(next_timeout, "period")
        /\ T!InList(next_timeout', "tcp") = T!InList(next_timeout, "tcp")
    BY <1>10 DEF B, L
  <2>2. pcbs' = pcbs /\ tcpip_tcp_timer_active' = tcpip_tcp_timer_active
    BY <1>1
  <2>. QED BY <1>2, <2>1, <2>2 DEF Repeating, L
<1>. QED BY <1>1, <1>5, <1>6, <1>7, <1>8, <1>9, <1>11 DEF TimersInv, TimerList, B, T!NotChecking

\* A step that leaves the clocks alone, outside of sys_check_timeouts.
LEMMA AtRest ==
    ASSUME TimersInv, diff = -1, UNCHANGED <<timeouts_last_time, now, diff>>,
           pcbs' \in BOOLEAN, tcpip_tcp_timer_active' \in BOOLEAN
    PROVE  /\ T!Elapsed' = T!Elapsed /\ T!Elapsed \in Nat /\ Clocks'
           /\ TimerList(next_timeout') /\ InTime(next_timeout', T!Elapsed) /\ Repeating(next_timeout)' => TimersInv'
<1>1. T!Elapsed' = T!Elapsed
  BY DEF T!Elapsed, T!U32Diff
<1>2. T!Elapsed \in Nat /\ Clocks'
  BY ElapsedTyped, TimersNumbers DEF TimersInv, Clocks
<1>. QED BY <1>1, <1>2 DEF TimersInv, T!NotChecking

LEMMA ArmKept == ASSUME TimersInv, diff = -1, NEW ms \in DELAYS, T!Arm(ms) PROVE TimersInv'
<1>1. /\ next_timeout' = T!sys_timeout(next_timeout, ms, "single", T!Elapsed) /\ ms \in Nat
      /\ UNCHANGED <<timeouts_last_time, now, diff, pcbs, tcpip_tcp_timer_active>>
  BY TimersNumbers DEF T!Arm
<1>2. pcbs' \in BOOLEAN /\ tcpip_tcp_timer_active' \in BOOLEAN
  BY <1>1 DEF TimersInv, Clocks
<1>3. T!Elapsed \in Nat
  BY <1>1, <1>2, AtRest
<1>4. /\ TimerList(next_timeout') /\ InTime(next_timeout', T!Elapsed)
      /\ T!InList(next_timeout', "period") = T!InList(next_timeout, "period") + 0
      /\ T!InList(next_timeout', "tcp") = T!InList(next_timeout, "tcp") + 0
      /\ T!InList(next_timeout, "period") \in Nat /\ T!InList(next_timeout, "tcp") \in Nat
  <2>1. TimerList(next_timeout) /\ InTime(next_timeout, T!Elapsed) /\ "single" \in {"period", "tcp", "single"}
    BY DEF TimersInv
  <2>2. Longer(next_timeout, next_timeout', "single", T!Elapsed)
    BY <1>1, <1>3, <2>1, ArmedIs
  <2>. QED BY <1>3, <2>1, <2>2 DEF Longer
<1>5. Repeating(next_timeout)'
  BY <1>1, <1>4 DEF TimersInv, Repeating
<1>. QED BY <1>1, <1>2, <1>4, <1>5, AtRest

LEMMA DisarmKept == ASSUME TimersInv, diff = -1, T!Disarm PROVE TimersInv'
<1>1. /\ next_timeout' = T!sys_untimeout(next_timeout, "single") /\ T!InList(next_timeout, "single") > 0
      /\ UNCHANGED <<timeouts_last_time, now, diff, pcbs, tcpip_tcp_timer_active>>
  BY DEF T!Disarm, T!Pending
<1>2. pcbs' \in BOOLEAN /\ tcpip_tcp_timer_active' \in BOOLEAN
  BY <1>1 DEF TimersInv, Clocks
<1>3. T!Elapsed \in Nat
  BY <1>1, <1>2, AtRest
<1>4. PICK q \in 1..Len(next_timeout) : next_timeout[q].h = "single"
  BY <1>1, CountIs DEF TimersInv, TimerList
<1>5. /\ TimerList(next_timeout') /\ InTime(next_timeout', T!Elapsed)
      /\ T!InList(next_timeout, "period") = T!InList(next_timeout', "period") + 0
      /\ T!InList(next_timeout, "tcp") = T!InList(next_timeout', "tcp") + 0
      /\ T!InList(next_timeout', "period") \in Nat /\ T!InList(next_timeout', "tcp") \in Nat
  <2>1. TimerList(next_timeout) /\ InTime(next_timeout, T!Elapsed)
    BY DEF TimersInv
  <2>2. Shorter(next_timeout, next_timeout', "single", 0)
    BY <1>1, <1>4, <2>1, DisarmedIs
  <2>3. T!Elapsed + 0 = T!Elapsed
    BY <1>3
  <2>. QED BY <1>3, <2>1, <2>2, <2>3 DEF Shorter
<1>6. Repeating(next_timeout)'
  BY <1>1, <1>5 DEF TimersInv, Repeating
<1>. QED BY <1>1, <1>2, <1>5, <1>6, AtRest

LEMMA NeededKept == ASSUME TimersInv, diff = -1, T!tcp_timer_needed PROVE TimersInv'
<1>1. pcbs' = TRUE /\ UNCHANGED <<timeouts_last_time, now, diff>>
  BY DEF T!tcp_timer_needed
<1>2. tcpip_tcp_timer_active \in BOOLEAN /\ TimerList(next_timeout) /\ InTime(next_timeout, T!Elapsed) /\ Repeating(next_timeout)
  BY DEF TimersInv, Clocks
<1>3. CASE tcpip_tcp_timer_active
  <2>1. UNCHANGED <<next_timeout, tcpip_tcp_timer_active>>
    BY <1>3 DEF T!tcp_timer_needed
  <2>2. Repeating(next_timeout)'
    BY <1>1, <1>2, <1>3, <2>1 DEF Repeating
  <2>. QED BY <1>1, <1>2, <2>1, <2>2, AtRest
<1>4. CASE ~tcpip_tcp_timer_active
  <2>1. /\ tcpip_tcp_timer_active' = TRUE
        /\ next_timeout' = T!sys_timeout(next_timeout, TCP_TMR_INTERVAL, "tcp", T!Elapsed)
    BY <1>4 DEF T!tcp_timer_needed
  <2>2. T!Elapsed \in Nat
    BY <1>1, <2>1, AtRest
  <2>3. /\ TimerList(next_timeout') /\ InTime(next_timeout', T!Elapsed)
        /\ T!InList(next_timeout', "period") = T!InList(next_timeout, "period") + 0
        /\ T!InList(next_timeout', "tcp") = T!InList(next_timeout, "tcp") + 1
        /\ T!InList(next_timeout, "period") \in Nat /\ T!InList(next_timeout, "tcp") \in Nat
    <3>1. Longer(next_timeout, next_timeout', "tcp", T!Elapsed)
      BY <1>2, <2>1, <2>2, ArmedIs, TimersNumbers
    <3>. QED BY <1>2, <2>2, <3>1 DEF Longer
  <2>4. Repeating(next_timeout)'
    BY <1>1, <1>2, <1>4, <2>1, <2>3 DEF Repeating
  <2>. QED BY <1>1, <2>1, <2>3, <2>4, AtRest
<1>. QED BY <1>2, <1>3, <1>4

\* The list and the clocks when a handler is called.
LEMMA DueCleared ==
    ASSUME TimersInv, T!Due
    PROVE  LET L == next_timeout
               R == T!Advance(L)
               h == L[1].h
           IN /\ diff' \in Nat /\ Clocks' /\ T!Elapsed' = 0 /\ diff' * TICKS \in Nat
              /\ h \in {"period", "tcp", "single"}
              /\ TimerList(R) /\ InTime(R, diff' * TICKS) /\ InTime(R, 0)
              /\ Shorter(L, R, h, L[1].time * TICKS)
<1> DEFINE L == next_timeout
           R == T!Advance(L)
<1>1. /\ diff # -1 /\ L[1].time <= diff /\ timeouts_last_time' = now /\ diff' = diff - L[1].time
      /\ UNCHANGED <<now, pcbs>>
  BY DEF T!Due, T!NotChecking
<1>2. TimerList(L) /\ InTime(L, diff * TICKS) /\ T!InList(L, "period") = 1 /\ Clocks
  BY <1>1 DEF TimersInv, Repeating, T!NotChecking
<1>3. L # <<>>
  <2>1. L \in Seq(Timeouts) /\ T!InList(L, "period") > 0
    BY <1>2 DEF TimerList
  <2>2. \E i \in 1..Len(L) : L[i].h = "period"
    BY <2>1, CountIs
  <2>. QED BY <2>1, <2>2
<1>4. /\ L[1] \in Timeouts /\ L[1].left = L[1].time
      /\ Shorter(L, R, L[1].h, L[1].time * TICKS)
  BY <1>2, <1>3, AdvancedIs
<1>5. diff \in Nat /\ L[1].time \in Nat /\ TICKS \in Nat /\ L[1].h \in {"period", "tcp", "single"}
  BY <1>1, <1>2, <1>4, TimersNumbers DEF Clocks, Timeouts
<1>6. diff' \in Nat /\ diff' * TICKS \in Nat
  BY <1>1, <1>5
<1>7. diff' * TICKS + L[1].time * TICKS = diff * TICKS
  BY <1>1, <1>5
<1>8. InTime(R, diff' * TICKS) /\ TimerList(R)
  BY <1>2, <1>4, <1>6, <1>7 DEF Shorter
<1>9. InTime(R, 0)
  BY <1>6, <1>8, InTimeBefore
<1>10. now \in 0..(WRAP - 1) /\ diff' \in -1..(WRAP \div TICKS)
  <2> DEFINE m == WRAP \div TICKS
  <2>1. m \in Int /\ diff \in -1..m /\ now \in 0..(WRAP - 1)
    BY <1>2, TimersNumbers DEF Clocks
  <2> HIDE DEF m
  <2>2. diff' \in -1..m
    BY <1>1, <1>5, <1>6, <2>1
  <2>. QED BY <2>1, <2>2 DEF m
<1>11. tcpip_tcp_timer_active' \in BOOLEAN
  <2>1. tcpip_tcp_timer_active \in BOOLEAN
    BY <1>2 DEF Clocks
  <2>2. tcpip_tcp_timer_active' = tcpip_tcp_timer_active \/ tcpip_tcp_timer_active' = FALSE
    BY <1>5 DEF T!Due
  <2>. QED BY <2>1, <2>2
<1>12. T!Elapsed' = 0
  <2>1. T!U32Diff(now, now) = 0
    BY <1>10, ElapsedIs
  <2>. QED BY <1>1, <2>1 DEF T!Elapsed, T!U32Diff
<1>13. Clocks'
  BY <1>1, <1>2, <1>10, <1>11 DEF Clocks
<1>. QED BY <1>4, <1>5, <1>6, <1>8, <1>9, <1>12, <1>13

LEMMA DueKept == ASSUME TimersInv, T!Due PROVE TimersInv'
<1> DEFINE R == T!Advance(next_timeout)
           h == next_timeout[1].h
           over == diff' * TICKS
           Again(ms) == T!sys_timeout(R, ms, h, over)
<1>1. /\ diff' \in Nat /\ Clocks' /\ T!Elapsed' = 0 /\ over \in Nat
      /\ h \in {"period", "tcp", "single"}
      /\ TimerList(R) /\ InTime(R, over) /\ InTime(R, 0)
      /\ Shorter(next_timeout, R, h, next_timeout[1].time * TICKS)
  BY DueCleared
<1>2. Repeating(next_timeout) /\ pcbs \in BOOLEAN /\ tcpip_tcp_timer_active \in BOOLEAN /\ pcbs' = pcbs
  BY DEF TimersInv, Clocks, T!Due
<1>3. \A x : /\ T!InList(next_timeout, x) = T!InList(R, x) + (IF h = x THEN 1 ELSE 0)
             /\ T!InList(R, x) \in Nat
  BY <1>1 DEF Shorter
<1> HIDE DEF R
<1>4. \/ /\ \E ms \in Nat : next_timeout' = Again(ms)
         /\ UNCHANGED tcpip_tcp_timer_active
      \/ next_timeout' = R /\ h = "single" /\ UNCHANGED tcpip_tcp_timer_active
      \/ next_timeout' = R /\ h = "tcp" /\ ~pcbs /\ tcpip_tcp_timer_active' = FALSE
  <2>1. CASE h = "period"
    <3>1. next_timeout' = Again(PERIOD) /\ UNCHANGED tcpip_tcp_timer_active
      BY <2>1 DEF T!Due, R
    <3>. QED BY <3>1, TimersNumbers
  <2>2. CASE h = "tcp" /\ pcbs
    <3>1. next_timeout' = Again(TCP_TMR_INTERVAL) /\ UNCHANGED tcpip_tcp_timer_active
      BY <2>2 DEF T!Due, R
    <3>. QED BY <3>1, TimersNumbers
  <2>3. CASE h = "tcp" /\ ~pcbs
    BY <2>3 DEF T!Due, R
  <2>4. CASE h = "single"
    <3>1. UNCHANGED tcpip_tcp_timer_active /\ (next_timeout' = R \/ \E ms \in DELAYS : next_timeout' = Again(ms))
      BY <2>4 DEF T!Due, R
    <3>. QED BY <2>4, <3>1, TimersNumbers
  <2>. QED BY <1>1, <2>1, <2>2, <2>3, <2>4
<1> HIDE DEF h, over
<1>5. TimerList(next_timeout') /\ InTime(next_timeout', over) /\ InTime(next_timeout', 0)
  <2>1. CASE next_timeout' = R
    BY <1>1, <2>1
  <2>2. ASSUME NEW ms \in Nat, next_timeout' = Again(ms)
        PROVE  TimerList(next_timeout') /\ InTime(next_timeout', over) /\ InTime(next_timeout', 0)
    <3>1. Longer(R, next_timeout', h, over)
      BY <1>1, <2>2, ArmedIs
    <3>. QED BY <1>1, <3>1 DEF Longer
  <2>. QED BY <1>4, <2>1, <2>2
<1>6. Repeating(next_timeout)'
  <2>1. CASE next_timeout' = R /\ h = "single" /\ UNCHANGED tcpip_tcp_timer_active
    <3>1. /\ T!InList(next_timeout, "period") = T!InList(next_timeout', "period") + 0
          /\ T!InList(next_timeout, "tcp") = T!InList(next_timeout', "tcp") + 0
          /\ T!InList(next_timeout', "period") \in Nat /\ T!InList(next_timeout', "tcp") \in Nat
      BY <1>3, <2>1
    <3>. QED BY <1>2, <2>1, <3>1 DEF Repeating
  <2>2. CASE next_timeout' = R /\ h = "tcp" /\ ~pcbs /\ tcpip_tcp_timer_active' = FALSE
    <3>1. /\ T!InList(next_timeout, "period") = T!InList(next_timeout', "period") + 0
          /\ T!InList(next_timeout, "tcp") = T!InList(next_timeout', "tcp") + 1
          /\ T!InList(next_timeout', "period") \in Nat /\ T!InList(next_timeout', "tcp") \in Nat
      BY <1>3, <2>2
    <3>. QED BY <1>2, <2>2, <3>1 DEF Repeating
  <2>3. ASSUME NEW ms \in Nat, next_timeout' = Again(ms), UNCHANGED tcpip_tcp_timer_active
        PROVE  Repeating(next_timeout)'
    <3>1. Longer(R, next_timeout', h, over)
      BY <1>1, <2>3, ArmedIs
    <3>2. \A x : T!InList(next_timeout', x) = T!InList(R, x) + (IF h = x THEN 1 ELSE 0)
      BY <3>1 DEF Longer
    <3>3. T!InList(next_timeout', "period") = T!InList(next_timeout, "period") /\ T!InList(next_timeout', "tcp") = T!InList(next_timeout, "tcp")
      BY <1>3, <3>2
    <3>. QED BY <1>2, <2>3, <3>3 DEF Repeating
  <2>. QED BY <1>4, <2>1, <2>2, <2>3
<1>. QED BY <1>1, <1>5, <1>6 DEF TimersInv, over

LEMMA CheckKept == ASSUME TimersInv, T!Check PROVE TimersInv'
<1>1. /\ diff' = (T!Elapsed \div TICKS)
      /\ UNCHANGED <<next_timeout, timeouts_last_time, now, pcbs, tcpip_tcp_timer_active>>
  BY DEF T!Check, T!Elapsed
<1>2. T!Elapsed' = T!Elapsed /\ T!Elapsed \in 0..WRAP
  BY <1>1, ElapsedTyped, TimersNumbers DEF TimersInv, T!Elapsed, T!U32Diff
<1>3. diff' \in 0..(WRAP \div TICKS) /\ diff' * TICKS <= T!Elapsed
  BY <1>1, <1>2, WholeTicks
<1>4. diff' * TICKS \in Int
  BY <1>3, TimersNumbers
<1>5. InTime(next_timeout, diff' * TICKS)
  BY <1>2, <1>3, <1>4, InTimeBefore DEF TimersInv
<1>6. Clocks'
  BY <1>1, <1>3 DEF TimersInv, Clocks
<1>7. Repeating(next_timeout)'
  BY <1>1 DEF TimersInv, Repeating
<1>. QED BY <1>1, <1>2, <1>5, <1>6, <1>7 DEF TimersInv

LEMMA RestartKept == ASSUME TimersInv, T!sys_restart_timeouts PROVE TimersInv'
<1>1. /\ diff = -1 /\ timeouts_last_time' = now
      /\ UNCHANGED <<next_timeout, now, diff, pcbs, tcpip_tcp_timer_active>>
  BY DEF T!sys_restart_timeouts, T!NotChecking
<1>2. now \in 0..(WRAP - 1) /\ Clocks'
  BY <1>1 DEF TimersInv, Clocks
<1>3. T!Elapsed' = 0
  <2>1. T!U32Diff(now, now) = 0
    BY <1>2, ElapsedIs
  <2>. QED BY <1>1, <2>1 DEF T!Elapsed, T!U32Diff
<1>4. T!Elapsed \in Nat
  BY ElapsedTyped DEF TimersInv
<1>5. InTime(next_timeout, 0)
  BY <1>4, InTimeBefore DEF TimersInv
<1>6. Repeating(next_timeout)'
  BY <1>1 DEF TimersInv, Repeating
<1>. QED BY <1>1, <1>2, <1>3, <1>5, <1>6 DEF TimersInv, T!NotChecking

LEMMA CheckedKept == ASSUME TimersInv, T!Checked PROVE TimersInv'
<1>1. /\ diff' = -1
      /\ UNCHANGED <<next_timeout, timeouts_last_time, now, pcbs, tcpip_tcp_timer_active>>
  BY DEF T!Checked, T!NotChecking
<1>2. -1 \in -1..(WRAP \div TICKS)
  BY TimersNumbers, WholeTicks
<1>3. Clocks' /\ T!Elapsed' = T!Elapsed
  BY <1>1, <1>2 DEF TimersInv, Clocks, T!Elapsed, T!U32Diff
<1>4. Repeating(next_timeout)'
  BY <1>1 DEF TimersInv, Repeating
<1>. QED BY <1>1, <1>3, <1>4 DEF TimersInv, T!NotChecking

LEMMA TimersInductive == TimersInv /\ [T!Next]_timeoutsVars => TimersInv'
<1> SUFFICES ASSUME TimersInv, [T!Next]_timeoutsVars PROVE TimersInv'
  OBVIOUS
<1>1. ASSUME diff = -1, T!LastConnectionGone PROVE TimersInv'
  <2>1. pcbs' = FALSE /\ UNCHANGED <<next_timeout, timeouts_last_time, now, diff, tcpip_tcp_timer_active>>
    BY <1>1 DEF T!LastConnectionGone
  <2>2. Repeating(next_timeout)' /\ tcpip_tcp_timer_active' \in BOOLEAN /\ TimerList(next_timeout') /\ InTime(next_timeout', T!Elapsed)
    BY <2>1 DEF TimersInv, Repeating, Clocks
  <2>. QED BY <1>1, <2>1, <2>2, AtRest
<1>2. CASE T!User
  <2>1. diff = -1
    BY <1>2 DEF T!User, T!NotChecking
  <2>. QED BY <1>1, <1>2, <2>1, NeededKept, DisarmKept, ArmKept DEF T!User
<1>3. CASE UNCHANGED timeoutsVars
  <2>1. T!Elapsed' = T!Elapsed
    BY <1>3 DEF timeoutsVars, T!Elapsed, T!U32Diff
  <2>2. Clocks' /\ Repeating(next_timeout)'
    BY <1>3 DEF timeoutsVars, TimersInv, Clocks, Repeating
  <2>. QED BY <1>3, <2>1, <2>2 DEF timeoutsVars, TimersInv
<1>. QED BY <1>2, <1>3, TickKept, RestartKept, CheckKept, DueKept, CheckedKept DEF T!Next

LEMMA TimesAreKept == TimersInv => T!TypeOK /\ T!TimersSound
<1> SUFFICES ASSUME TimersInv PROVE T!TypeOK /\ T!TimersSound
  OBVIOUS
<1> DEFINE L == next_timeout
<1>1. TimerList(L) /\ L \in Seq(Timeouts) /\ Clocks /\ Repeating(L)
  BY DEF TimersInv, TimerList
<1>2. T!TypeOK
  <2>1. \A i \in 1..Len(L) : L[i] \in Timeouts
    BY <1>1
  <2>2. \A i \in 1..Len(L) : L[i].h \in {"period", "tcp", "single"}
    BY <2>1 DEF Timeouts
  <2>. QED BY <1>1, <2>2 DEF T!TypeOK, Clocks
<1>3. T!DueAsAsked
  <2> SUFFICES ASSUME NEW i \in 1..Len(L) PROVE L[i].time >= 0 /\ T!Upto(L)[i] = L[i].left
    BY DEF T!DueAsAsked
  <2>1. i \in 0..Len(L) /\ i # 0
    BY <1>1
  <2>2. T!Upto(L)[i] = L[i].left
    BY <1>1, <2>1, UptoIs DEF LeftAt
  <2>. QED BY <1>1, <2>2, LeftIs
<1>4. T!NotEarly
  <2> SUFFICES ASSUME diff # -1, L[1].time <= diff PROVE L[1].soonest = 0
    BY DEF T!NotEarly, T!NotChecking
  <2>1. InTime(L, diff * TICKS)
    BY DEF TimersInv, T!NotChecking
  <2>2. T!InList(L, "period") > 0
    BY <1>1 DEF Repeating
  <2>3. 1 \in 1..Len(L)
    <3>1. \E i \in 1..Len(L) : L[i].h = "period"
      BY <1>1, <2>2, CountIs
    <3>. QED BY <1>1, <3>1
  <2>4. L[1].left = L[1].time /\ L[1].time \in Nat /\ L[1].soonest \in Nat
    <3>1. L[1].left = L[1].time + LeftAt(L, 1 - 1) /\ L[1].time \in Nat /\ L[1] \in Timeouts
      BY <1>1, <2>3, LeftIs
    <3>. QED BY <3>1 DEF LeftAt, Timeouts
  <2>5. L[1].soonest <= Positive(L[1].left * TICKS - diff * TICKS)
    BY <2>1, <2>3 DEF InTime
  <2>6. diff \in Nat /\ TICKS \in Nat
    BY <1>1, TimersNumbers DEF Clocks
  <2>7. (diff - L[1].time) * TICKS >= 0
    BY <2>4, <2>6
  <2>8. L[1].left * TICKS - diff * TICKS = -((diff - L[1].time) * TICKS)
    BY <2>4, <2>6
  <2> DEFINE w == (diff - L[1].time) * TICKS
  <2>9. w \in Nat /\ L[1].soonest <= Positive(-w)
    BY <2>4, <2>5, <2>6, <2>7, <2>8
  <2> HIDE DEF w
  <2>. QED BY <2>4, <2>9 DEF Positive
<1>5. T!HandlersRepeat
  BY <1>1, CountIs DEF Repeating, T!HandlersRepeat, T!Pending, Clocks
<1>. QED BY <1>2, <1>3, <1>4, <1>5 DEF T!TimersSound

-----------------------------------------------------------------------------
(* The SNTP client.                                                         *)

LEMMA SntpNumbers ==
    /\ SNTP_MAX_SERVERS \in Nat \ {0} /\ GOOD # BAD
    /\ SNTP_RETRY_TIMEOUT_MAX \in Nat \ {0}
    /\ DAYS \subseteq Nat /\ \A d \in DAYS : d < 49710
    /\ SECONDS \subseteq Nat /\ \A s \in SECONDS : s < 86400
    /\ TIME_ZONE \in -128..127
  BY PartsAssumption DEF N!SntpAssumption

Clients ==
    [pcb : BOOLEAN, name : [N!Servers -> BOOLEAN], addr : [N!Servers -> N!Addresses \cup {N!ANY}],
     current : N!Servers, retry : 1..SNTP_RETRY_TIMEOUT_MAX, request : Nat, next : Nat, lookups : Nat,
     asked : SUBSET N!Addresses, fails : Nat, nullUsed : BOOLEAN]
\* realtime_stamp holds 32 bits: 2^32 seconds.
Stamps ==
    {c \in [day : Nat, second : Nat, counted : Nat] :
        c.day <= 49710 /\ c.second < 86400 /\ (c.day = 49710 => c.second < 23296)}

WaitsOf(c) == c.request + c.next + c.lookups
\* What the client waits for, while no message came unasked: one thing, and an
\* answer only until sntp_try_next_server is called.
OnlyOne(c) ==
    WaitsOf(c) = 1 /\ (c.asked = {} \/ (c.next = 1 /\ \E a \in N!Addresses : c.asked = {a}))
Chained ==
    /\ client.pcb => WaitsOf(client) >= 1
    /\ ~client.pcb => client.asked = {}
    /\ ~client.pcb /\ ~waiting => WaitsOf(client) = 0
    /\ client.pcb /\ strays = 0 /\ ~waiting => OnlyOne(client)
SntpInv ==
    /\ client \in Clients /\ strays \in Nat /\ waiting \in BOOLEAN
    /\ clock = N!NotSet \/ clock \in Stamps
    /\ client.nullUsed => waiting
    /\ ~client.nullUsed => Chained

\* Every way on leaves the client waiting for one thing more: a server asked
\* waits for its answer.  Without a pcb nothing is asked.
Goes(c, d) ==
    /\ d \in Clients /\ d.pcb = c.pcb
    /\ c.pcb => d.nullUsed = c.nullUsed
    /\ ~d.nullUsed => WaitsOf(d) = WaitsOf(c) + 1
    /\ d.asked = c.asked \/ (c.pcb /\ d.next = c.next + 1 /\ \E a \in N!Addresses : d.asked = c.asked \cup {a})

LEMMA SendGoes ==
    ASSUME NEW c \in Clients, ~c.nullUsed, NEW a \in N!Addresses, NEW d \in N!sntp_send_request(c, a)
    PROVE  Goes(c, d)
<1>1. CASE ~c.pcb
  <2>1. d = [c EXCEPT !.nullUsed = TRUE]
    BY <1>1 DEF N!sntp_send_request
  <2>. QED BY <1>1, <2>1 DEF Goes, Clients
<1>2. CASE c.pcb /\ d = [c EXCEPT !.next = @ + 1, !.asked = @ \cup {a}]
  <2>1. c.next + 1 \in Nat /\ c.asked \cup {a} \in SUBSET N!Addresses
    BY DEF Clients
  <2>2. d \in Clients /\ d.pcb = c.pcb /\ d.nullUsed = c.nullUsed /\ d.next = c.next + 1 /\ d.asked = c.asked \cup {a}
        /\ d.request = c.request /\ d.lookups = c.lookups
    BY <1>2, <2>1 DEF Clients
  <2>3. WaitsOf(d) = WaitsOf(c) + 1
    BY <2>2 DEF WaitsOf, Clients
  <2>. QED BY <1>2, <2>2, <2>3 DEF Goes
<1>3. CASE c.pcb /\ c.fails > 0 /\ d = [c EXCEPT !.request = @ + 1, !.fails = @ - 1]
  <2>1. c.request + 1 \in Nat /\ c.fails - 1 \in Nat
    BY <1>3 DEF Clients
  <2>2. d \in Clients /\ d.pcb = c.pcb /\ d.nullUsed = c.nullUsed /\ d.next = c.next /\ d.asked = c.asked
        /\ d.request = c.request + 1 /\ d.lookups = c.lookups
    BY <1>3, <2>1 DEF Clients
  <2>3. WaitsOf(d) = WaitsOf(c) + 1
    BY <2>2 DEF WaitsOf, Clients
  <2>. QED BY <2>2, <2>3 DEF Goes
<1>. QED BY <1>1, <1>2, <1>3 DEF N!sntp_send_request

LEMMA RetryGoes ==
    ASSUME NEW c \in Clients, NEW d \in N!sntp_retry(c)
    PROVE  Goes(c, d)
<1> DEFINE r == IF 2 * c.retry <= SNTP_RETRY_TIMEOUT_MAX THEN 2 * c.retry ELSE c.retry
<1>1. d = [c EXCEPT !.request = @ + 1, !.retry = r]
  BY DEF N!sntp_retry
<1>2. r \in 1..SNTP_RETRY_TIMEOUT_MAX /\ c.request + 1 \in Nat
  <2>1. c.retry \in 1..SNTP_RETRY_TIMEOUT_MAX /\ c.request \in Nat /\ SNTP_RETRY_TIMEOUT_MAX \in Nat
    BY SntpNumbers DEF Clients
  <2>. QED BY <2>1
<1> HIDE DEF r
<1>3. d \in Clients /\ d.pcb = c.pcb /\ d.nullUsed = c.nullUsed /\ d.next = c.next /\ d.asked = c.asked
      /\ d.request = c.request + 1 /\ d.lookups = c.lookups
  BY <1>1, <1>2 DEF Clients
<1>4. WaitsOf(d) = WaitsOf(c) + 1
  BY <1>3 DEF WaitsOf, Clients
<1>. QED BY <1>3, <1>4 DEF Goes

LEMMA LaterGoes ==
    ASSUME NEW c \in Clients, NEW d, \/ d = [c EXCEPT !.next = @ + 1]
                                     \/ d = [c EXCEPT !.lookups = @ + 1]
    PROVE  Goes(c, d)
<1>1. c.next + 1 \in Nat /\ c.lookups + 1 \in Nat
  BY DEF Clients
<1>2. d \in Clients /\ d.pcb = c.pcb /\ d.nullUsed = c.nullUsed /\ d.asked = c.asked
  BY <1>1 DEF Clients
<1>3. WaitsOf(d) = WaitsOf(c) + 1
  BY DEF WaitsOf, Clients
<1>. QED BY <1>2, <1>3 DEF Goes

\* The address of a server by name is forgotten and found without a change of
\* anything else.
LEMMA SameServers ==
    ASSUME NEW c \in Clients, NEW i \in N!Servers, NEW a \in N!Addresses \cup {N!ANY}, NEW b \in BOOLEAN
    PROVE  /\ [c EXCEPT !.addr[i] = a] \in Clients
           /\ [c EXCEPT !.addr[i] = a, !.name[i] = b] \in Clients
           /\ [c EXCEPT !.name[i] = b] \in Clients
<1>1. [c.addr EXCEPT ![i] = a] \in [N!Servers -> N!Addresses \cup {N!ANY}]
  BY DEF Clients
<1>2. [c.name EXCEPT ![i] = b] \in [N!Servers -> BOOLEAN]
  BY DEF Clients
<1>. QED BY <1>1, <1>2 DEF Clients

LEMMA RequestGoes ==
    ASSUME NEW c \in Clients, ~c.nullUsed, NEW d \in N!sntp_request(c)
    PROVE  Goes(c, d)
<1> DEFINE i == c.current
           e == [c EXCEPT !.addr[i] = N!ANY]
           Like(x) == /\ x \in Clients /\ x.pcb = c.pcb /\ x.nullUsed = c.nullUsed /\ x.request = c.request
                      /\ x.next = c.next /\ x.lookups = c.lookups /\ x.asked = c.asked
<1>1. i \in N!Servers
  BY DEF Clients
<1>2. Like(e)
  BY <1>1, SameServers DEF Clients
<1>3. ASSUME NEW x, Like(x), Goes(x, d) PROVE Goes(c, d)
  BY <1>3 DEF Goes, WaitsOf
<1>4. CASE c.name[i]
  <2>1. ASSUME NEW a \in N!Addresses, d \in N!sntp_send_request([e EXCEPT !.addr[i] = a], a)
        PROVE  Goes(c, d)
    <3> DEFINE x == [e EXCEPT !.addr[i] = a]
    <3>1. Like(x)
      BY <1>1, <1>2, SameServers DEF Clients
    <3> HIDE DEF x
    <3>2. Goes(x, d)
      BY <2>1, <3>1, SendGoes DEF x
    <3>. QED BY <1>3, <3>1, <3>2
  <2>2. CASE d = [e EXCEPT !.lookups = @ + 1] \/ d = [e EXCEPT !.next = @ + 1]
    <3> HIDE DEF e
    <3>1. Goes(e, d)
      BY <1>2, <2>2, LaterGoes
    <3>. QED BY <1>2, <1>3, <3>1
  <2>3. \/ \E a \in N!Addresses : d \in N!sntp_send_request([e EXCEPT !.addr[i] = a], a)
        \/ d = [e EXCEPT !.lookups = @ + 1] \/ d = [e EXCEPT !.next = @ + 1]
    BY Zenon, <1>4 DEF N!sntp_request
  <2> HIDE DEF e
  <2>. QED BY <2>1, <2>2, <2>3
<1>5. CASE ~c.name[i] /\ c.addr[i] = N!ANY
  <2>1. d = [c EXCEPT !.next = @ + 1]
    BY Zenon, <1>5 DEF N!sntp_request
  <2>. QED BY <2>1, LaterGoes
<1>6. CASE ~c.name[i] /\ c.addr[i] # N!ANY
  <2>1. d \in N!sntp_send_request(c, c.addr[i])
    BY <1>6 DEF N!sntp_request
  <2>2. c.addr[i] \in N!Addresses
    BY <1>1, <1>6 DEF Clients
  <2>. QED BY <2>1, <2>2, SendGoes
<1>. QED BY <1>4, <1>5, <1>6

LEMMA TryNextGoes ==
    ASSUME NEW c \in Clients, ~c.nullUsed, NEW d \in N!sntp_try_next_server(c)
    PROVE  Goes(c, d)
<1> DEFINE after == {k \in 1..(SNTP_MAX_SERVERS - 1) : N!Usable(c, (c.current + k) % SNTP_MAX_SERVERS)}
           k0 == CHOOSE k \in after : \A l \in after : k <= l
           to == (c.current + k0) % SNTP_MAX_SERVERS
           x == [c EXCEPT !.current = to, !.retry = 1]
<1>1. CASE after = {}
  BY <1>1, RetryGoes DEF N!sntp_try_next_server
<1>2. CASE after # {}
  <2>1. d \in N!sntp_request(x)
    BY <1>2 DEF N!sntp_try_next_server
  <2>2. k0 \in after
    <3>1. after \in SUBSET Nat
      OBVIOUS
    <3>. QED BY <1>2, <3>1, LeastExists
  <2>0. SNTP_MAX_SERVERS \in Nat \ {0} /\ SNTP_RETRY_TIMEOUT_MAX \in Nat \ {0}
    BY SntpNumbers
  <2>3. k0 \in Nat /\ c.current \in Nat
    BY <2>0, <2>2 DEF Clients, N!Servers
  <2> HIDE DEF k0
  <2>4. to \in N!Servers
    BY <2>0, <2>3 DEF N!Servers
  <2>5. 1 \in 1..SNTP_RETRY_TIMEOUT_MAX
    BY <2>0
  <2> HIDE DEF to
  <2>6. /\ x \in Clients /\ x.pcb = c.pcb /\ x.nullUsed = c.nullUsed /\ x.request = c.request
        /\ x.next = c.next /\ x.lookups = c.lookups /\ x.asked = c.asked
    BY <2>4, <2>5 DEF Clients
  <2> HIDE DEF x
  <2>7. Goes(x, d)
    BY <2>1, <2>6, RequestGoes
  <2>. QED BY <2>6, <2>7 DEF Goes, WaitsOf
<1>. QED BY <1>1, <1>2

-----------------------------------------------------------------------------
(* realtime_stamp.                                                          *)

Moments == {c \in [day : Int, second : Nat, counted : Nat] : c.second < 86400}

LEMMA MovedIs ==
    ASSUME NEW c \in [day : Int, second : Nat, counted : Nat], NEW days \in Int, NEW secs \in Int
    PROVE  LET m == N!Moved(c, days, secs) IN
           /\ m \in Moments /\ m.counted = c.counted
           /\ m.day = c.day + days + ((c.second + secs) \div 86400)
           /\ m.second = ((c.second + secs) % 86400)
<1> DEFINE q == (c.second + secs) \div 86400
           r == (c.second + secs) % 86400
           m == N!Moved(c, days, secs)
<1>1. c.day \in Int /\ c.second \in Nat /\ c.counted \in Nat
  OBVIOUS
<1>2. q \in Int /\ r \in Nat /\ r < 86400
  BY <1>1
<1> DEFINE e == c.day + days + q
<1>3. m = [c EXCEPT !.day = e, !.second = r]
  BY DEF N!Moved
<1>4. e \in Int
  BY <1>1, <1>2
<1> HIDE DEF q, r, m, e
<1>5. m \in Moments /\ m.counted = c.counted /\ m.day = e /\ m.second = r
  <2>1. e \in Int /\ r \in Nat /\ c.counted \in Nat
    BY <1>1, <1>2, <1>4
  <2>2. m = [day |-> e, second |-> r, counted |-> c.counted]
    BY <1>3
  <2>3. m.counted = c.counted /\ m.day = e /\ m.second = r
    BY <2>2
  <2>4. m \in [day : Int, second : Nat, counted : Nat]
    BY <2>1, <2>2
  <2>. QED BY <1>2, <2>3, <2>4 DEF Moments
<1>. QED BY <1>5 DEF q, r, m, e

LEMMA UnsignedStamp ==
    ASSUME NEW c \in Moments, -10 <= c.day, c.day <= 49720
    PROVE  N!Unsigned(c) \in Stamps
<1>1. c \in [day : Int, second : Nat, counted : Nat] /\ c.second < 86400
  BY DEF Moments
<1>2. c.day \in Int /\ c.second \in Nat
  BY <1>1
<1>3. ASSUME NEW m \in Moments, m.day >= 0, m.day <= 49710, m.day = 49710 => m.second < 23296
      PROVE  m \in Stamps
  <2>1. m \in [day : Int, second : Nat, counted : Nat] /\ m.second < 86400
    BY DEF Moments
  <2>2. m \in [day : Nat, second : Nat, counted : Nat]
    BY <1>3, <2>1
  <2>. QED BY <1>3, <2>1, <2>2 DEF Stamps
<1>4. CASE c.day < 0
  <2> DEFINE m == N!Moved(c, 49710, 23296)
  <2>1. /\ m \in Moments /\ m.day = c.day + 49710 + ((c.second + 23296) \div 86400)
        /\ m.second = ((c.second + 23296) % 86400)
    BY <1>1, MovedIs
  <2>2. N!Unsigned(c) = m
    BY <1>4 DEF N!Unsigned
  <2> HIDE DEF m
  <2>3. m.day >= 0 /\ m.day <= 49710 /\ (m.day = 49710 => m.second < 23296)
    BY <1>1, <1>2, <1>4, <2>1
  <2>. QED BY <1>3, <2>1, <2>2, <2>3
<1>5. CASE c.day > 49710 \/ (c.day = 49710 /\ c.second >= 23296)
  <2> DEFINE m == N!Moved(c, -49710, -23296)
  <2>1. /\ m \in Moments /\ m.day = c.day + (-49710) + ((c.second + (-23296)) \div 86400)
        /\ m.second = ((c.second + (-23296)) % 86400)
    BY <1>1, MovedIs
  <2>2. N!Unsigned(c) = m
    BY <1>2, <1>5 DEF N!Unsigned
  <2> HIDE DEF m
  <2>3. m.day >= 0 /\ m.day <= 49710 /\ (m.day = 49710 => m.second < 23296)
    BY <1>1, <1>2, <1>5, <2>1
  <2>. QED BY <1>3, <2>1, <2>2, <2>3
<1>6. CASE ~(c.day < 0) /\ ~(c.day > 49710 \/ (c.day = 49710 /\ c.second >= 23296))
  <2>1. N!Unsigned(c) = c
    BY <1>6 DEF N!Unsigned
  <2>2. c.day >= 0 /\ c.day <= 49710 /\ (c.day = 49710 => c.second < 23296)
    BY <1>2, <1>6
  <2>. QED BY <1>3, <2>1, <2>2
<1>. QED BY <1>4, <1>5, <1>6

LocalTime(d, s) == N!Unsigned(N!Moved([day |-> d, second |-> s, counted |-> 0], 0, TIME_ZONE * 3600))
LEMMA TimedStamp ==
    ASSUME NEW d \in DAYS, NEW s \in SECONDS
    PROVE  LocalTime(d, s) \in Stamps
<1> DEFINE c == [day |-> d, second |-> s, counted |-> 0]
           t == TIME_ZONE * 3600
           m == N!Moved(c, 0, t)
<1>1. d \in Nat /\ d < 49710 /\ s \in Nat /\ s < 86400 /\ t \in Int /\ -500000 <= t /\ t <= 500000
  BY SntpNumbers
<1>2. c \in [day : Int, second : Nat, counted : Nat] /\ c.day = d /\ c.second = s
  BY <1>1
<1> HIDE DEF c, t
<1>3. m \in Moments /\ m.day = d + 0 + ((s + t) \div 86400)
  BY <1>1, <1>2, MovedIs
<1> HIDE DEF m
<1>4. -10 <= m.day /\ m.day <= 49720
  BY <1>1, <1>3
<1>5. N!Unsigned(m) \in Stamps
  BY <1>3, <1>4, UnsignedStamp
<1>. QED BY <1>5 DEF m, c, t, LocalTime

LEMMA CountedStamp ==
    ASSUME NEW c \in Stamps
    PROVE  N!Unsigned(N!Moved([c EXCEPT !.counted = @ + 1], 0, 1)) \in Stamps
<1> DEFINE e == [c EXCEPT !.counted = @ + 1]
           m == N!Moved(e, 0, 1)
<1>1. c \in [day : Nat, second : Nat, counted : Nat] /\ c.day <= 49710 /\ c.second < 86400
  BY DEF Stamps
<1>2. e \in [day : Int, second : Nat, counted : Nat] /\ e.day = c.day /\ e.second = c.second
  BY <1>1
<1> HIDE DEF e
<1>3. m \in Moments /\ m.day = e.day + 0 + ((e.second + 1) \div 86400)
  BY <1>2, MovedIs
<1> HIDE DEF m
<1>4. -10 <= m.day /\ m.day <= 49720
  BY <1>1, <1>2, <1>3
<1>5. N!Unsigned(m) \in Stamps
  BY <1>3, <1>4, UnsignedStamp
<1>. QED BY <1>5 DEF m, e

-----------------------------------------------------------------------------

LEMMA SntpInitially == N!Init => SntpInv
<1> SUFFICES ASSUME N!Init PROVE SntpInv
  OBVIOUS
<1>1. 0 \in N!Servers /\ 1 \in 1..SNTP_RETRY_TIMEOUT_MAX /\ FAILS \in Nat
  <2>1. FAILS \in Nat
    BY PartsAssumption DEF N!SntpAssumption
  <2>. QED BY <2>1, SntpNumbers DEF N!Servers
<1>2. [i \in N!Servers |-> FALSE] \in [N!Servers -> BOOLEAN]
  OBVIOUS
<1>3. [i \in N!Servers |-> N!ANY] \in [N!Servers -> N!Addresses \cup {N!ANY}]
  OBVIOUS
<1>4. client \in Clients
  BY <1>1, <1>2, <1>3 DEF N!Init, Clients
<1>5. client.nullUsed = FALSE /\ client.pcb = FALSE /\ client.asked = {} /\ WaitsOf(client) = 0
  BY DEF N!Init, WaitsOf
<1>6. clock = N!NotSet /\ strays = 0 /\ waiting = FALSE
  BY DEF N!Init
<1>. QED BY <1>4, <1>5, <1>6 DEF SntpInv, Chained

\* A handler that finds the client waiting for it, and goes on.
LEMMA Stepped ==
    ASSUME SntpInv, NEW x \in Clients, ~x.nullUsed, Goes(x, client'),
           ~x.pcb => x.asked = {} /\ waiting,
           x.pcb /\ strays' = 0 /\ ~waiting => WaitsOf(x) = 0 /\ x.asked = {},
           strays' \in Nat, waiting' = waiting, clock' = N!NotSet \/ clock' \in Stamps
    PROVE  SntpInv'
<1>1. client' \in Clients /\ waiting' \in BOOLEAN
  BY DEF Goes, SntpInv
<1>2. client'.nullUsed => waiting'
  BY DEF Goes
<1>3. ASSUME ~client'.nullUsed PROVE Chained'
  <2>1. client'.pcb = x.pcb /\ WaitsOf(client') = WaitsOf(x) + 1
    BY <1>3 DEF Goes
  <2>2. WaitsOf(x) \in Nat /\ x.next \in Nat /\ x.request \in Nat /\ x.lookups \in Nat
    BY DEF WaitsOf, Clients
  <2>3. client'.pcb => WaitsOf(client') >= 1
    BY <2>1, <2>2
  <2>4. ~client'.pcb => client'.asked = {} /\ waiting
    BY <2>1 DEF Goes
  <2>5. ASSUME client'.pcb, strays' = 0, ~waiting PROVE OnlyOne(client')
    <3>1. WaitsOf(x) = 0 /\ x.asked = {}
      BY <2>1, <2>5
    <3>2. x.next = 0
      BY <2>2, <3>1 DEF WaitsOf
    <3>3. client'.asked = {} \/ (client'.next = 1 /\ \E a \in N!Addresses : client'.asked = {a})
      BY <3>1, <3>2 DEF Goes
    <3>. QED BY <2>1, <3>1, <3>3 DEF OnlyOne
  <2>. QED BY <2>3, <2>4, <2>5 DEF Chained
<1>. QED BY <1>1, <1>2, <1>3 DEF SntpInv

\* Without what was to be waited for.
LEMMA Less1 == \A n \in Nat : N!Less(n) \in Nat /\ (n <= 1 => N!Less(n) = 0)
  BY DEF N!Less

LEMMA UntimedIs ==
    ASSUME NEW c \in Clients
    PROVE  LET x == N!Untimed(c) IN
           /\ x \in Clients /\ x.pcb = c.pcb /\ x.nullUsed = c.nullUsed /\ x.asked = c.asked
           /\ WaitsOf(c) = 1 /\ c.next = 1 => WaitsOf(x) = 0
<1> DEFINE a == N!Less(c.request)
           b == N!Less(c.next)
           x == N!Untimed(c)
<1>1. c.request \in Nat /\ c.next \in Nat /\ c.lookups \in Nat
  BY DEF Clients
<1>2. a \in Nat /\ b \in Nat
  BY <1>1, Less1
<1>3. x = [c EXCEPT !.request = a, !.next = b]
  BY DEF N!Untimed
<1>4. WaitsOf(c) = 1 /\ c.next = 1 => a = 0 /\ b = 0 /\ c.lookups = 0
  BY <1>1, Less1 DEF WaitsOf
<1> HIDE DEF a, b, x
<1>5. x \in Clients /\ x.pcb = c.pcb /\ x.nullUsed = c.nullUsed /\ x.asked = c.asked
      /\ x.request = a /\ x.next = b /\ x.lookups = c.lookups
  BY <1>2, <1>3 DEF Clients
<1>6. WaitsOf(c) = 1 /\ c.next = 1 => WaitsOf(x) = 0
  BY <1>4, <1>5 DEF WaitsOf
<1>. QED BY <1>5, <1>6 DEF x

LEMMA TimedGoes ==
    ASSUME NEW c \in Clients, NEW d, d = [c EXCEPT !.retry = 1, !.request = @ + 1]
    PROVE  Goes(c, d)
<1>1. c.request + 1 \in Nat /\ 1 \in 1..SNTP_RETRY_TIMEOUT_MAX
  BY SntpNumbers DEF Clients
<1>2. d \in Clients /\ d.pcb = c.pcb /\ d.nullUsed = c.nullUsed /\ d.asked = c.asked
      /\ d.request = c.request + 1 /\ d.next = c.next /\ d.lookups = c.lookups
  BY <1>1 DEF Clients
<1>3. WaitsOf(d) = WaitsOf(c) + 1
  BY <1>2 DEF WaitsOf, Clients
<1>. QED BY <1>2, <1>3 DEF Goes

\* A message, from whoever it is, at c.
LEMMA ReceivedKeeps ==
    ASSUME SntpInv, ~client.nullUsed, NEW c \in Clients, c.pcb = client.pcb, ~c.nullUsed,
           strays' \in Nat, NEW answer \in {"time", "kiss of death", "unusable"}, N!sntp_recv(answer, c),
           strays' = 0 /\ ~waiting => WaitsOf(c) = 1 /\ c.next = 1 /\ c.asked = {}
    PROVE  SntpInv'
<1> DEFINE x == N!Untimed(c)
<1>1. client.pcb /\ UNCHANGED waiting
  BY DEF N!sntp_recv
<1>2. x \in Clients /\ x.pcb /\ ~x.nullUsed /\ x.asked = c.asked
      /\ (WaitsOf(c) = 1 /\ c.next = 1 => WaitsOf(x) = 0)
  BY <1>1, UntimedIs
<1> HIDE DEF x
<1>3. strays' = 0 /\ ~waiting => WaitsOf(x) = 0 /\ x.asked = {}
  BY <1>2
<1>4. Goes(x, client') /\ (clock' = N!NotSet \/ clock' \in Stamps)
  <2>1. CASE answer = "time" /\ \E d \in DAYS, s \in SECONDS : N!Timed(c, d, s)
    <3>1. PICK d \in DAYS, s \in SECONDS : N!Timed(c, d, s)
      BY <2>1
    <3>2. clock' \in Stamps
      <4>1. clock' = LocalTime(d, s)
        BY <3>1 DEF N!Timed, LocalTime
      <4>. QED BY <4>1, TimedStamp
    <3>3. client' = [x EXCEPT !.retry = 1, !.request = @ + 1]
      BY <3>1 DEF N!Timed, x
    <3>. QED BY <1>2, <3>2, <3>3, TimedGoes
  <2>2. CASE client' \in N!sntp_try_next_server(x) /\ UNCHANGED clock
    BY <1>2, <2>2, TryNextGoes DEF SntpInv
  <2>3. CASE client' \in N!sntp_retry(x) /\ UNCHANGED clock
    BY <1>2, <2>3, RetryGoes DEF SntpInv
  <2>. QED BY Zenon, <2>1, <2>2, <2>3 DEF N!sntp_recv, x
<1>. QED BY <1>1, <1>2, <1>3, <1>4, Stepped

LEMMA AnsweredKeeps == ASSUME SntpInv, ~client.nullUsed, N!Answered \/ N!Refused PROVE SntpInv'
<1>1. PICK a \in N!Addresses, answer \in {"time", "kiss of death"} :
         /\ a \in client.asked /\ N!sntp_recv(answer, [client EXCEPT !.asked = @ \ {a}])
         /\ UNCHANGED strays
  BY DEF N!Answered, N!Refused, N!Addresses
<1> DEFINE c == [client EXCEPT !.asked = @ \ {a}]
<1>2. client \in Clients /\ strays \in Nat /\ client.pcb /\ UNCHANGED waiting
  BY <1>1 DEF SntpInv, N!sntp_recv
<1>3. c \in Clients /\ c.pcb = client.pcb /\ ~c.nullUsed /\ c.asked = client.asked \ {a} /\ c.next = client.next
      /\ WaitsOf(c) = WaitsOf(client)
  BY <1>2 DEF Clients, WaitsOf
<1>4. strays' = 0 /\ ~waiting => WaitsOf(c) = 1 /\ c.next = 1 /\ c.asked = {}
  <2> SUFFICES ASSUME strays' = 0, ~waiting PROVE WaitsOf(c) = 1 /\ c.next = 1 /\ c.asked = {}
    OBVIOUS
  <2>1. OnlyOne(client)
    BY <1>1, <1>2 DEF SntpInv, Chained
  <2>. QED BY <1>1, <1>3, <2>1 DEF OnlyOne
<1> HIDE DEF c
<1>5. N!sntp_recv(answer, c) /\ strays' \in Nat
  BY <1>1, <1>2 DEF c
<1>. QED BY <1>3, <1>4, <1>5, ReceivedKeeps

LEMMA DisturbedKeeps == ASSUME SntpInv, ~client.nullUsed, N!Disturbed PROVE SntpInv'
<1>1. client \in Clients /\ strays \in Nat
  BY DEF SntpInv
<1>2. strays' \in Nat /\ strays' # 0
  <2>1. strays' = strays + 1
    BY Zenon DEF N!Disturbed
  <2>. QED BY <1>1, <2>1
<1>3. ASSUME NEW answer \in {"time", "kiss of death", "unusable"}, N!sntp_recv(answer, client) PROVE SntpInv'
  BY Zenon, <1>1, <1>2, <1>3, ReceivedKeeps
<1>. QED BY Zenon, <1>3 DEF N!Disturbed

LEMMA TimersKeep ==
    ASSUME SntpInv, ~client.nullUsed,
           N!RequestTimer \/ N!NextTimer \/ \E a \in N!Addresses \cup {N!ANY} : N!Found(a)
    PROVE  SntpInv'
<1>1. /\ client \in Clients /\ Chained /\ strays \in Nat
      /\ UNCHANGED <<clock, strays, waiting>> /\ (clock' = N!NotSet \/ clock' \in Stamps)
  BY DEF SntpInv, N!RequestTimer, N!NextTimer, N!Found
<1>2. client.request \in Nat /\ client.next \in Nat /\ client.lookups \in Nat /\ client.asked \subseteq N!Addresses
  BY <1>1 DEF Clients
<1>3. ASSUME NEW x \in Clients, x.pcb = client.pcb, ~x.nullUsed, WaitsOf(x) = WaitsOf(client) - 1,
             x.asked = {} \/ (x.asked = client.asked /\ x.next = client.next), Goes(x, client'),
             WaitsOf(client) > 0, WaitsOf(client) > client.next \/ x.asked = {}
      PROVE  SntpInv'
  <2>1. ~x.pcb => x.asked = {} /\ waiting
    BY <1>1, <1>3 DEF Chained
  <2>2. ASSUME x.pcb, strays' = 0, ~waiting PROVE WaitsOf(x) = 0 /\ x.asked = {}
    <3>1. OnlyOne(client)
      BY <1>1, <1>3, <2>2 DEF Chained
    <3>. QED BY <1>2, <1>3, <3>1 DEF OnlyOne
  <2>. QED BY <1>1, <1>3, <2>1, <2>2, Stepped
<1>4. CASE N!RequestTimer
  <2> DEFINE x == [client EXCEPT !.request = @ - 1]
  <2>1. client.request > 0 /\ client' \in N!sntp_request(x)
    BY <1>4 DEF N!RequestTimer
  <2>2. client.request - 1 \in Nat
    BY <1>2, <2>1
  <2>3. x \in Clients /\ x.pcb = client.pcb /\ ~x.nullUsed /\ x.asked = client.asked /\ x.next = client.next
        /\ x.request = client.request - 1 /\ x.lookups = client.lookups
    BY <1>1, <2>2 DEF Clients
  <2> HIDE DEF x
  <2>4. Goes(x, client')
    BY <2>1, <2>3, RequestGoes
  <2>5. WaitsOf(x) = WaitsOf(client) - 1 /\ WaitsOf(client) > 0 /\ WaitsOf(client) > client.next
    BY <1>2, <2>1, <2>3 DEF WaitsOf
  <2>. QED BY <1>3, <2>3, <2>4, <2>5
<1>5. CASE N!NextTimer
  <2> DEFINE x == [client EXCEPT !.next = @ - 1, !.asked = {}]
  <2>1. client.next > 0 /\ client' \in N!sntp_try_next_server(x)
    BY <1>5 DEF N!NextTimer
  <2>2. client.next - 1 \in Nat
    BY <1>2, <2>1
  <2>3. x \in Clients /\ x.pcb = client.pcb /\ ~x.nullUsed /\ x.asked = {} /\ x.next = client.next - 1
        /\ x.request = client.request /\ x.lookups = client.lookups
    BY <1>1, <2>2 DEF Clients
  <2> HIDE DEF x
  <2>4. Goes(x, client')
    BY <2>1, <2>3, TryNextGoes
  <2>5. WaitsOf(x) = WaitsOf(client) - 1 /\ WaitsOf(client) > 0
    BY <1>2, <2>1, <2>3 DEF WaitsOf
  <2>. QED BY <1>3, <2>3, <2>4, <2>5
<1>6. CASE \E a \in N!Addresses \cup {N!ANY} : N!Found(a)
  <2> DEFINE x == [client EXCEPT !.lookups = @ - 1]
  <2>1. PICK a \in N!Addresses \cup {N!ANY} : N!Found(a)
    BY <1>6
  <2>2. client.lookups > 0 /\ client' \in IF a # N!ANY THEN N!sntp_send_request(x, a) ELSE N!sntp_try_next_server(x)
    BY <2>1 DEF N!Found
  <2>3. client.lookups - 1 \in Nat
    BY <1>2, <2>2
  <2>4. x \in Clients /\ x.pcb = client.pcb /\ ~x.nullUsed /\ x.asked = client.asked /\ x.next = client.next
        /\ x.request = client.request /\ x.lookups = client.lookups - 1
    BY <1>1, <2>3 DEF Clients
  <2> HIDE DEF x
  <2>5. Goes(x, client')
    <3>1. CASE a # N!ANY
      BY <2>2, <2>4, <3>1, SendGoes
    <3>2. CASE a = N!ANY
      BY <2>2, <2>4, <3>2, TryNextGoes
    <3>. QED BY <3>1, <3>2
  <2>6. WaitsOf(x) = WaitsOf(client) - 1 /\ WaitsOf(client) > 0 /\ WaitsOf(client) > client.next
    BY <1>2, <2>2, <2>4 DEF WaitsOf
  <2>. QED BY <1>3, <2>4, <2>5, <2>6
<1>. QED BY <1>4, <1>5, <1>6

LEMMA UsesKeep == ASSUME SntpInv, ~client.nullUsed, N!User PROVE SntpInv'
<1>1. client \in Clients /\ Chained /\ strays \in Nat /\ strays' = strays /\ waiting \in BOOLEAN
  BY DEF SntpInv, N!User, N!Use, N!sntp_init, N!sntp_stop, N!sntp_setserver, N!sntp_setservername
<1>2. client.request \in Nat /\ client.next \in Nat /\ client.lookups \in Nat
  BY <1>1 DEF Clients
<1>3. CASE N!sntp_init
  <2> DEFINE x == [client EXCEPT !.pcb = TRUE, !.retry = 1]
  <2>1. ~client.pcb /\ client' \in N!sntp_request(x) /\ UNCHANGED <<clock, waiting>>
    BY <1>3 DEF N!sntp_init
  <2>2. 1 \in 1..SNTP_RETRY_TIMEOUT_MAX
    BY SntpNumbers
  <2>3. x \in Clients /\ x.pcb /\ ~x.nullUsed /\ x.asked = client.asked /\ WaitsOf(x) = WaitsOf(client)
    BY <1>1, <2>2 DEF Clients, WaitsOf
  <2> HIDE DEF x
  <2>4. Goes(x, client')
    BY <2>1, <2>3, RequestGoes
  <2>5. clock' = N!NotSet \/ clock' \in Stamps
    BY <2>1 DEF SntpInv
  <2>6. ~waiting => WaitsOf(x) = 0 /\ x.asked = {}
    BY <1>1, <2>1, <2>3 DEF Chained
  <2>. QED BY <1>1, <2>1, <2>3, <2>4, <2>5, <2>6, Stepped
<1>4. CASE N!sntp_stop
  <2> DEFINE a == N!Less(client.request)
  <2>1. clock' = N!NotSet /\ waiting' = (waiting \/ (client.pcb /\ a + client.next + client.lookups > 0))
    BY <1>4 DEF N!sntp_stop
  <2>2. a \in Nat
    BY <1>2, Less1
  <2>3. CASE ~client.pcb
    <3>1. client' = client
      BY <1>4, <2>3 DEF N!sntp_stop
    <3>2. waiting' = waiting
      BY Zenon, <1>1, <2>1, <2>3
    <3>3. Chained'
      BY <1>1, <2>3, <3>1, <3>2 DEF Chained
    <3>. QED BY <1>1, <2>1, <3>1, <3>2, <3>3 DEF SntpInv
  <2>4. CASE client.pcb
    <3>1. client' = [client EXCEPT !.pcb = FALSE, !.request = a, !.asked = {}]
      BY <1>4, <2>4 DEF N!sntp_stop
    <3> HIDE DEF a
    <3>2. client' \in Clients /\ ~client'.pcb /\ client'.asked = {} /\ ~client'.nullUsed
          /\ client'.request = a /\ client'.next = client.next /\ client'.lookups = client.lookups
      BY <1>1, <2>2, <3>1 DEF Clients
    <3>3. waiting' \in BOOLEAN /\ (~waiting' => ~(a + client.next + client.lookups > 0))
      BY Zenon, <1>1, <2>1, <2>4
    <3>4. ~waiting' => WaitsOf(client') = 0
      BY <1>2, <2>2, <3>2, <3>3 DEF WaitsOf
    <3>. QED BY <1>1, <2>1, <3>2, <3>3, <3>4 DEF SntpInv, Chained
  <2>. QED BY <1>1, <2>3, <2>4
<1>5. CASE \E i \in N!Servers : N!sntp_setservername(i) \/ \E a \in N!Addresses \cup {N!ANY} : N!sntp_setserver(i, a)
  <2>1. PICK i \in N!Servers : N!sntp_setservername(i) \/ \E a \in N!Addresses \cup {N!ANY} : N!sntp_setserver(i, a)
    BY <1>5
  <2>2. UNCHANGED <<clock, waiting>>
    BY <2>1 DEF N!sntp_setservername, N!sntp_setserver
  <2>3. client' \in Clients /\ client'.pcb = client.pcb /\ client'.nullUsed = client.nullUsed /\ client'.asked = client.asked
        /\ client'.request = client.request /\ client'.next = client.next /\ client'.lookups = client.lookups
    <3>1. CASE N!sntp_setservername(i)
      <4>1. client' = [client EXCEPT !.name[i] = TRUE]
        BY <3>1 DEF N!sntp_setservername
      <4>2. client' \in Clients
        BY <1>1, <4>1, SameServers
      <4>. QED BY <1>1, <4>1, <4>2 DEF Clients
    <3>2. ASSUME NEW a \in N!Addresses \cup {N!ANY}, N!sntp_setserver(i, a)
          PROVE  client' \in Clients /\ client'.pcb = client.pcb /\ client'.nullUsed = client.nullUsed /\ client'.asked = client.asked
                 /\ client'.request = client.request /\ client'.next = client.next /\ client'.lookups = client.lookups
      <4>1. client' = [client EXCEPT !.addr[i] = a, !.name[i] = FALSE]
        BY <3>2 DEF N!sntp_setserver
      <4>2. client' \in Clients
        BY <1>1, <4>1, SameServers
      <4>. QED BY <1>1, <4>1, <4>2 DEF Clients
    <3>. QED BY <2>1, <3>1, <3>2
  <2>. QED BY <1>1, <2>2, <2>3 DEF SntpInv, Chained, OnlyOne, WaitsOf
<1>. QED BY Zenon, <1>3, <1>4, <1>5 DEF N!User

LEMMA SntpInductive == SntpInv /\ [N!Next]_sntpVars => SntpInv'
<1> SUFFICES ASSUME SntpInv, [N!Next]_sntpVars PROVE SntpInv'
  OBVIOUS
<1>1. CASE UNCHANGED sntpVars
  BY <1>1 DEF sntpVars, SntpInv, Chained
<1>2. CASE ~client.nullUsed /\ N!sntp_time_inc
  <2>1. UNCHANGED <<client, uses, strays, waiting>> /\ clock # N!NotSet
        /\ clock' = N!Unsigned(N!Moved([clock EXCEPT !.counted = @ + 1], 0, 1))
    BY <1>2 DEF N!sntp_time_inc
  <2>2. clock' \in Stamps
    BY <2>1, CountedStamp DEF SntpInv
  <2>. QED BY <2>1, <2>2 DEF SntpInv, Chained
<1>3. CASE ~client.nullUsed /\ (N!User \/ N!Client \/ N!Disturbed)
  BY <1>3, UsesKeep, AnsweredKeeps, TimersKeep, DisturbedKeeps DEF N!Client
<1>. QED BY <1>1, <1>2, <1>3 DEF N!Next

-----------------------------------------------------------------------------
(* The calendar.                                                            *)

\* The leap years of 1901 to 2099 are every fourth.
LEMMA LeapYears ==
    ASSUME NEW y \in Int, 1901 <= y, y <= 2099
    PROVE  N!isleap(y) <=> (y % 4) = 0
  BY DEF N!isleap

Leaps(from, to) == Cardinality({l \in from..to : N!isleap(l)})

LEMMA LeapsFinite ==
    ASSUME NEW a \in Int, NEW b \in Int
    PROVE  IsFiniteSet({l \in a..b : N!isleap(l)}) /\ Leaps(a, b) \in Nat
<1>1. IsFiniteSet(a..b)
  BY FS_Interval
<1>2. IsFiniteSet({l \in a..b : N!isleap(l)})
  BY <1>1, FS_Subset
<1>. QED BY <1>2, FS_CardinalityType DEF Leaps

\* The count grows at either end of the years counted.
Grows(a, b) == Leaps(a, b + 1) = Leaps(a, b) + (IF (b + 1) % 4 = 0 THEN 1 ELSE 0)
GrowsDown(a, b) == Leaps(a - 1, b) = Leaps(a, b) + (IF (a - 1) % 4 = 0 THEN 1 ELSE 0)
LEMMA OneMoreYear ==
    ASSUME NEW a \in Int, NEW b \in Int, 1902 <= a, a <= b + 1, b <= 2098
    PROVE  Grows(a, b) /\ GrowsDown(a, b)
<1> DEFINE A == {l \in a..b : N!isleap(l)}
           B == {l \in a..(b + 1) : N!isleap(l)}
           C == {l \in (a - 1)..b : N!isleap(l)}
<1>1. IsFiniteSet(A) /\ Cardinality(A) \in Nat /\ Leaps(a, b) = Cardinality(A)
  BY LeapsFinite DEF Leaps
<1>2. Leaps(a, b + 1) = Cardinality(B) /\ Leaps(a - 1, b) = Cardinality(C)
  BY DEF Leaps
<1>3. (N!isleap(b + 1) <=> ((b + 1) % 4) = 0) /\ (N!isleap(a - 1) <=> ((a - 1) % 4) = 0)
  BY LeapYears
<1>4. b + 1 \notin A /\ a - 1 \notin A
  OBVIOUS
<1>5. (N!isleap(b + 1) => B = A \cup {b + 1}) /\ (~N!isleap(b + 1) => B = A)
  OBVIOUS
<1>6. (N!isleap(a - 1) => C = A \cup {a - 1}) /\ (~N!isleap(a - 1) => C = A)
  OBVIOUS
<1> HIDE DEF A, B, C
<1>7. N!isleap(b + 1) => Cardinality(B) = Cardinality(A) + 1
  BY <1>1, <1>4, <1>5, FS_AddElement
<1>8. N!isleap(a - 1) => Cardinality(C) = Cardinality(A) + 1
  BY <1>1, <1>4, <1>6, FS_AddElement
<1>9. Grows(a, b)
  BY <1>1, <1>2, <1>3, <1>5, <1>7 DEF Grows
<1>10. GrowsDown(a, b)
  BY <1>1, <1>2, <1>3, <1>6, <1>8 DEF GrowsDown
<1>. QED BY <1>9, <1>10

LEMMA NoLeaps == ASSUME NEW a \in Int, NEW b \in Int, b < a PROVE Leaps(a, b) = 0
<1>1. {l \in a..b : N!isleap(l)} = {}
  OBVIOUS
<1>. QED BY <1>1, FS_EmptySet DEF Leaps

LEMMA LeapsAfter ==
    ASSUME NEW y \in Int, 1970 <= y, y <= 2099
    PROVE  Leaps(1970, y - 1) = ((y - 1969) \div 4)
<1> DEFINE Wrong(n) == Leaps(1970, 1969 + n) # ((n + 1) \div 4)
           Z == {n \in 0..129 : Wrong(n)}
<1>1. ~Wrong(0)
  BY NoLeaps
<1>2. ASSUME NEW m \in 0..128, ~Wrong(m) PROVE ~Wrong(m + 1)
  <2>1. Grows(1970, 1969 + m)
    BY OneMoreYear
  <2>2. 1969 + m + 1 = 1969 + (m + 1)
    OBVIOUS
  <2>. QED BY <1>2, <2>1, <2>2 DEF Grows
<1> HIDE DEF Wrong
<1>3. Z = {}
  <2>1. Z \in SUBSET Nat
    OBVIOUS
  <2>2. ASSUME NEW n \in Z, \A m \in Z : n <= m PROVE FALSE
    <3>1. n \in 0..129 /\ Wrong(n) /\ n # 0
      BY <1>1
    <3>2. n - 1 \in 0..128 /\ (n - 1) + 1 = n /\ ~(n <= n - 1)
      BY <3>1
    <3>3. ~Wrong(n - 1)
      BY <2>2, <3>2
    <3>. QED BY <1>2, <3>1, <3>2, <3>3
  <2> HIDE DEF Z
  <2>. QED BY <2>1, <2>2, LeastExists
<1>4. y - 1970 \in 0..129 /\ 1969 + (y - 1970) = y - 1 /\ y - 1970 + 1 = y - 1969
  OBVIOUS
<1>5. ~Wrong(y - 1970)
  BY <1>3, <1>4
<1>. QED BY <1>4, <1>5 DEF Wrong

LEMMA LeapsBefore ==
    ASSUME NEW y \in Int, 1901 <= y, y <= 1970
    PROVE  Leaps(y, 1969) = -((y - 1969) \div 4)
<1> DEFINE Wrong(n) == Leaps(1970 - n, 1969) # -((1 - n) \div 4)
           Z == {n \in 0..69 : Wrong(n)}
<1>1. ~Wrong(0)
  BY NoLeaps
<1>2. ASSUME NEW m \in 0..68, ~Wrong(m) PROVE ~Wrong(m + 1)
  <2>1. GrowsDown(1970 - m, 1969)
    BY OneMoreYear
  <2>2. 1970 - m - 1 = 1970 - (m + 1)
    OBVIOUS
  <2>. QED BY <1>2, <2>1, <2>2 DEF GrowsDown
<1> HIDE DEF Wrong
<1>3. Z = {}
  <2>1. Z \in SUBSET Nat
    OBVIOUS
  <2>2. ASSUME NEW n \in Z, \A m \in Z : n <= m PROVE FALSE
    <3>1. n \in 0..69 /\ Wrong(n) /\ n # 0
      BY <1>1
    <3>2. n - 1 \in 0..68 /\ (n - 1) + 1 = n /\ ~(n <= n - 1)
      BY <3>1
    <3>3. ~Wrong(n - 1)
      BY <2>2, <3>2
    <3>. QED BY <1>2, <3>1, <3>2, <3>3
  <2> HIDE DEF Z
  <2>. QED BY <2>1, <2>2, LeastExists
<1>4. 1970 - y \in 0..69 /\ 1970 - (1970 - y) = y /\ 1 - (1970 - y) = y - 1969
  OBVIOUS
<1>5. ~Wrong(1970 - y)
  BY <1>3, <1>4
<1>. QED BY <1>4, <1>5 DEF Wrong

LEMMA SameCount == ASSUME NEW S PROVE N!Cardinality(S) = Cardinality(S)
  BY DEF N!Cardinality, Cardinality

\* The day a year begins.
LEMMA BeginsIs ==
    ASSUME NEW y \in Int, 1901 <= y, y <= 2099
    PROVE  N!Begins(y) = 365 * (y - 1970) + ((y - 1969) \div 4)
<1>1. N!Begins(y) = 365 * (y - 1970) + Leaps(1970, y - 1) - Leaps(y, 1969)
  <2> DEFINE A == {l \in 1970..(y - 1) : N!isleap(l)}
             B == {l \in y..1969 : N!isleap(l)}
  <2>1. N!Begins(y) = 365 * (y - 1970) + N!Cardinality(A) - N!Cardinality(B)
    BY DEF N!Begins
  <2>2. Cardinality(A) = Leaps(1970, y - 1) /\ Cardinality(B) = Leaps(y, 1969)
    BY DEF Leaps
  <2> HIDE DEF A, B
  <2>. QED BY <2>1, <2>2, SameCount
<1>2. CASE y >= 1970
  <2>2. Leaps(y, 1969) = 0
    BY <1>2, NoLeaps
  <2>3. Leaps(1970, y - 1) = ((y - 1969) \div 4)
    BY <1>2, LeapsAfter
  <2>. QED BY <1>1, <2>2, <2>3
<1>3. CASE y < 1970
  <2>2. Leaps(1970, y - 1) = 0
    BY <1>3, NoLeaps
  <2>3. Leaps(y, 1969) = -((y - 1969) \div 4)
    BY <1>3, LeapsBefore
  <2>. QED BY <1>1, <2>2, <2>3
<1>. QED BY <1>2, <1>3

\* The days before each month, of a year whose February has l days.
Before(l) ==
    [m \in 0..12 |->
        IF m = 0 THEN 0 ELSE IF m = 1 THEN 31 ELSE IF m = 2 THEN 31 + l ELSE IF m = 3 THEN 62 + l
        ELSE IF m = 4 THEN 92 + l ELSE IF m = 5 THEN 123 + l ELSE IF m = 6 THEN 153 + l
        ELSE IF m = 7 THEN 184 + l ELSE IF m = 8 THEN 215 + l ELSE IF m = 9 THEN 245 + l
        ELSE IF m = 10 THEN 276 + l ELSE IF m = 11 THEN 306 + l ELSE 337 + l]
Lengths(l) == <<31, l, 31, 30, 31, 30, 31, 31, 30, 31, 30, 31>>
Months(f, l) == f = [m \in 0..12 |-> IF m = 0 THEN 0 ELSE f[m - 1] + Lengths(l)[m]]
February(y) == IF N!isleap(y) THEN 29 ELSE 28

LEMMA BeforeIsMonths == ASSUME NEW l \in Int PROVE Months(Before(l), l)
<1> DEFINE f == Before(l)
<1>1. ASSUME NEW m \in 0..12 PROVE f[m] = IF m = 0 THEN 0 ELSE f[m - 1] + Lengths(l)[m]
  <2>1. m = 0 \/ m = 1 \/ m = 2 \/ m = 3 \/ m = 4 \/ m = 5 \/ m = 6
    \/ m = 7 \/ m = 8 \/ m = 9 \/ m = 10 \/ m = 11 \/ m = 12
    OBVIOUS
  <2>2. CASE m = 0 \/ m = 1 \/ m = 2 \/ m = 3 \/ m = 4
    BY <2>2 DEF Before, Lengths
  <2>3. CASE m = 5 \/ m = 6 \/ m = 7 \/ m = 8
    BY <2>3 DEF Before, Lengths
  <2>4. CASE m = 9 \/ m = 10 \/ m = 11 \/ m = 12
    BY <2>4 DEF Before, Lengths
  <2>. QED BY <2>1, <2>2, <2>3, <2>4
<1>2. f = [m \in 0..12 |-> f[m]]
  BY DEF Before
<1> HIDE DEF f
<1>3. [m \in 0..12 |-> f[m]] = [m \in 0..12 |-> IF m = 0 THEN 0 ELSE f[m - 1] + Lengths(l)[m]]
  BY <1>1
<1>4. f = [m \in 0..12 |-> IF m = 0 THEN 0 ELSE f[m - 1] + Lengths(l)[m]]
  BY <1>2, <1>3
<1>. QED BY <1>4 DEF f, Months

LEMMA DaysBeforeIs ==
    ASSUME NEW y \in Int
    PROVE  /\ Months(N!DaysBefore(y), February(y))
           /\ N!mon_lengths(y) = Lengths(February(y))
<1>1. N!mon_lengths(y) = Lengths(February(y))
  BY DEF N!mon_lengths, Lengths, February
<1> DEFINE f == N!DaysBefore(y)
           Total(g) == g = [m \in 0..12 |-> IF m = 0 THEN 0 ELSE g[m - 1] + N!mon_lengths(y)[m]]
<1>2. \A g : Total(g) <=> Months(g, February(y))
  BY <1>1 DEF Months
<1>3. Total(Before(February(y)))
  <2>1. February(y) \in Int
    BY DEF February
  <2>2. Months(Before(February(y)), February(y))
    BY <2>1, BeforeIsMonths
  <2>. QED BY <1>2, <2>2
<1>4. f = CHOOSE g : Total(g)
  BY DEF N!DaysBefore
<1>5. Total(f)
  <2> HIDE DEF Total, f
  <2>. QED BY Zenon, <1>3, <1>4
<1>6. Months(f, February(y))
  <2> HIDE DEF f
  <2>. QED BY <1>2, <1>5
<1>. QED BY <1>1, <1>6

\* The table, entry by entry.
Table(f, l) ==
    /\ f[0] = 0 /\ f[1] = 31 /\ f[2] = 31 + l /\ f[3] = 62 + l /\ f[4] = 92 + l /\ f[5] = 123 + l
    /\ f[6] = 153 + l /\ f[7] = 184 + l /\ f[8] = 215 + l /\ f[9] = 245 + l /\ f[10] = 276 + l
    /\ f[11] = 306 + l /\ f[12] = 337 + l

LEMMA MonthsIsTable == ASSUME NEW f, NEW l \in {28, 29}, Months(f, l) PROVE Table(f, l)
<1> DEFINE L == Lengths(l)
<1>1. /\ L[1] = 31 /\ L[2] = l /\ L[3] = 31 /\ L[4] = 30 /\ L[5] = 31 /\ L[6] = 30
      /\ L[7] = 31 /\ L[8] = 31 /\ L[9] = 30 /\ L[10] = 31 /\ L[11] = 30 /\ L[12] = 31
  BY DEF Lengths
<1> HIDE DEF L
<1>2. f[0] = 0 /\ \A m \in 1..12 : f[m] = f[m - 1] + L[m]
  <2>1. f = [m \in 0..12 |-> IF m = 0 THEN 0 ELSE f[m - 1] + L[m]]
    BY DEF Months, L
  <2> DEFINE g == [m \in 0..12 |-> IF m = 0 THEN 0 ELSE f[m - 1] + L[m]]
  <2>2. g[0] = 0 /\ \A m \in 1..12 : g[m] = f[m - 1] + L[m]
    OBVIOUS
  <2> HIDE DEF g
  <2>3. f = g
    BY <2>1 DEF g
  <2>. QED BY Zenon, <2>2, <2>3
<1>3. f[1] = f[0] + L[1] /\ f[2] = f[1] + L[2] /\ f[3] = f[2] + L[3] /\ f[4] = f[3] + L[4]
  BY <1>2
<1>4. f[5] = f[4] + L[5] /\ f[6] = f[5] + L[6] /\ f[7] = f[6] + L[7] /\ f[8] = f[7] + L[8]
  BY <1>2
<1>5. f[9] = f[8] + L[9] /\ f[10] = f[9] + L[10] /\ f[11] = f[10] + L[11] /\ f[12] = f[11] + L[12]
  BY <1>2
<1>. QED BY <1>1, <1>2, <1>3, <1>4, <1>5 DEF Table

\* A day of a year is a day of one of its months.
InMonth(f, d, m) == f[m] <= d /\ d < f[m + 1]
LEMMA MonthIs ==
    ASSUME NEW f, NEW l \in {28, 29}, Months(f, l), NEW d \in Nat, d < 337 + l
    PROVE  /\ \E m \in 0..11 : InMonth(f, d, m)
           /\ \A m \in 0..12 : f[m] \in Int
           /\ \A m \in 0..11 : f[m + 1] - f[m] = Lengths(l)[m + 1]
<1>1. Table(f, l)
  BY MonthsIsTable
<1>2. \A m \in 0..12 : f[m] \in Int
  <2>1. ASSUME NEW m \in 0..12 PROVE f[m] \in Int
    <3>1. m = 0 \/ m = 1 \/ m = 2 \/ m = 3 \/ m = 4 \/ m = 5 \/ m = 6
      \/ m = 7 \/ m = 8 \/ m = 9 \/ m = 10 \/ m = 11 \/ m = 12
      OBVIOUS
    <3>. QED BY <1>1, <3>1 DEF Table
  <2>. QED BY <2>1
<1>3. \A m \in 0..11 : f[m + 1] - f[m] = Lengths(l)[m + 1]
  <2>1. ASSUME NEW m \in 0..11 PROVE f[m + 1] - f[m] = Lengths(l)[m + 1]
    <3>1. m = 0 \/ m = 1 \/ m = 2 \/ m = 3 \/ m = 4 \/ m = 5 \/ m = 6
      \/ m = 7 \/ m = 8 \/ m = 9 \/ m = 10 \/ m = 11
      OBVIOUS
    <3>. QED BY <1>1, <3>1 DEF Table, Lengths
  <2>. QED BY <2>1
<1>4. \E m \in 0..11 : InMonth(f, d, m)
  <2>1. \/ InMonth(f, d, 0) \/ InMonth(f, d, 1) \/ InMonth(f, d, 2) \/ InMonth(f, d, 3)
        \/ InMonth(f, d, 4) \/ InMonth(f, d, 5) \/ InMonth(f, d, 6) \/ InMonth(f, d, 7)
        \/ InMonth(f, d, 8) \/ InMonth(f, d, 9) \/ InMonth(f, d, 10) \/ InMonth(f, d, 11)
    BY <1>1 DEF Table, InMonth
  <2>2. \A n \in {0, 1, 2, 3, 4, 5, 6, 7, 8, 9, 10, 11} : n \in 0..11
    OBVIOUS
  <2>. QED BY <2>1, <2>2
<1>. QED BY <1>2, <1>3, <1>4

\* The clock as the signed number sntp_mktm_r takes.
LEMMA SignedIs ==
    ASSUME NEW c \in Stamps
    PROVE  LET s == N!AsLong(c) IN
           /\ s.day \in Int /\ -24856 <= s.day /\ s.day <= 24855
           /\ s.second \in Nat /\ s.second < 86400
           /\ s = c => s.day >= 0
<1> DEFINE s == N!AsLong(c)
<1>1. /\ c \in [day : Int, second : Nat, counted : Nat] /\ c.day \in Nat /\ c.second \in Nat
      /\ c.day <= 49710 /\ c.second < 86400 /\ (c.day = 49710 => c.second < 23296)
  BY DEF Stamps
<1>2. CASE c.day < 24855 \/ (c.day = 24855 /\ c.second < 11648)
  <2>1. s = c
    BY <1>2 DEF N!AsLong
  <2> HIDE DEF s
  <2>2. /\ s.day \in Int /\ -24856 <= s.day /\ s.day <= 24855
        /\ s.second \in Nat /\ s.second < 86400 /\ s.day >= 0
    BY <1>1, <1>2, <2>1
  <2>. QED BY <2>2 DEF s
<1>3. CASE ~(c.day < 24855 \/ (c.day = 24855 /\ c.second < 11648))
  <2>1. s = N!Moved(c, -49710, -23296)
    BY <1>3 DEF N!AsLong
  <2> HIDE DEF s
  <2>2. /\ s \in Moments /\ s.day = c.day + (-49710) + ((c.second + (-23296)) \div 86400)
        /\ s.second = ((c.second + (-23296)) % 86400)
    BY <1>1, <2>1, MovedIs
  <2>3. s.day \in Int /\ s.second \in Nat /\ s.second < 86400
    BY <2>2 DEF Moments
  <2>4. -24856 <= s.day /\ s.day < 0
    BY <1>1, <1>3, <2>2
  <2>5. s # c
    BY <1>1, <2>3, <2>4
  <2>. QED BY <2>3, <2>4, <2>5 DEF s
<1>. QED BY <1>2, <1>3

\* The year of a day, as sntp_mktm_r looks for it.
YearOf(d) ==
    LET near == 1970 + d \div 366
    IN CHOOSE n \in (near - 1)..(near + 1) : N!Begins(n) <= d /\ d < N!Begins(n + 1)
IsYear(y, d) == y \in Int /\ 1901 <= y /\ y <= 2038 /\ N!Begins(y) <= d /\ d < N!Begins(y + 1)
LEMMA YearIs ==
    ASSUME NEW d \in Int, -24856 <= d, d <= 24855
    PROVE  IsYear(YearOf(d), d)
<1> DEFINE q == d \div 366
           near == 1970 + q
           Holds(n) == N!Begins(n) <= d /\ d < N!Begins(n + 1)
           y == CHOOSE n \in (near - 1)..(near + 1) : Holds(n)
<1>1. q \in Int /\ -68 <= q /\ q <= 67 /\ 366 * q <= d /\ d < 366 * q + 366
  OBVIOUS
<1> HIDE DEF q
<1>2. /\ N!Begins(near - 1) = 365 * (q - 1) + (q \div 4)
      /\ N!Begins(near) = 365 * q + ((q + 1) \div 4)
      /\ N!Begins(near + 1) = 365 * (q + 1) + ((q + 2) \div 4)
      /\ N!Begins(near + 1 + 1) = 365 * (q + 2) + ((q + 3) \div 4)
  <2>1. near - 1 \in Int /\ near \in Int /\ near + 1 \in Int /\ near + 1 + 1 \in Int
    BY <1>1
  <2>2. N!Begins(near - 1) = 365 * (near - 1 - 1970) + ((near - 1 - 1969) \div 4)
    BY <1>1, <2>1, BeginsIs
  <2>3. N!Begins(near) = 365 * (near - 1970) + ((near - 1969) \div 4)
    BY <1>1, <2>1, BeginsIs
  <2>4. N!Begins(near + 1) = 365 * (near + 1 - 1970) + ((near + 1 - 1969) \div 4)
    BY <1>1, <2>1, BeginsIs
  <2>5. N!Begins(near + 1 + 1) = 365 * (near + 1 + 1 - 1970) + ((near + 1 + 1 - 1969) \div 4)
    BY <1>1, <2>1, BeginsIs
  <2>. QED BY <1>1, <2>2, <2>3, <2>4, <2>5
<1>3. near - 1 + 1 = near
  BY <1>1
<1>4. Holds(near - 1) \/ Holds(near) \/ Holds(near + 1)
  BY <1>1, <1>2, <1>3
<1>5. near - 1 \in (near - 1)..(near + 1) /\ near \in (near - 1)..(near + 1) /\ near + 1 \in (near - 1)..(near + 1)
  BY <1>1
<1> HIDE DEF Holds, near
<1>6. y \in (near - 1)..(near + 1) /\ Holds(y)
  BY <1>4, <1>5
<1> HIDE DEF y
<1>7. y \in Int /\ 1901 <= y /\ y <= 2038
  BY <1>1, <1>6 DEF near
<1>8. y = YearOf(d)
  BY DEF y, Holds, near, q, YearOf
<1>. QED BY <1>6, <1>7, <1>8 DEF Holds, IsYear

LEMMA SecondIs ==
    ASSUME NEW n \in Nat, n < 86400
    PROVE  n = 3600 * (n \div 3600) + 60 * ((n % 3600) \div 60) + (n % 60)
<1> DEFINE h == n \div 3600
           r == n % 3600
<1>1. h \in Nat /\ r \in Nat /\ r < 3600 /\ n = 3600 * h + r
  OBVIOUS
<1>2. (n % 60) = (r % 60)
  <2> HIDE DEF h, r
  <2>1. n = 60 * (60 * h) + r
    BY <1>1
  <2>. QED BY <1>1, <2>1
<1>3. r = 60 * (r \div 60) + (r % 60)
  <2> HIDE DEF r
  <2>. QED BY <1>1
<1> HIDE DEF h, r
<1>4. n = 3600 * h + 60 * (r \div 60) + (n % 60)
  BY <1>1, <1>2, <1>3
<1>. QED BY <1>4 DEF h, r

LEMMA DateIsTrue == ASSUME clock \in Stamps PROVE N!DateTrue
<1> DEFINE c == N!AsLong(clock)
           d == c.day
           y == YearOf(d)
           day == d - N!Begins(y)
           f == N!DaysBefore(y)
           l == February(y)
           mon == CHOOSE m \in 0..11 : InMonth(f, day, m)
           t == N!sntp_mktm_r(c)
           years == y - 1970
           leaps == (years + 1) \div 4 - (years + 69) \div 100 + (years + 369) \div 400
<1>1. d \in Int /\ -24856 <= d /\ d <= 24855 /\ c.second \in Nat /\ c.second < 86400 /\ (c = clock => d >= 0)
  BY SignedIs
<1>2. t = N!Shown(c, y, day)
  BY DEF N!sntp_mktm_r, YearOf
<1> HIDE DEF c, d
<1>3. y \in Int /\ 1901 <= y /\ y <= 2038 /\ N!Begins(y) <= d /\ d < N!Begins(y + 1)
  BY <1>1, YearIs DEF IsYear
<1> HIDE DEF y
<1>4. N!Begins(y) = 365 * years + ((years + 1) \div 4) /\ N!Begins(y + 1) = 365 * years + 365 + ((years + 2) \div 4)
  <2>1. N!Begins(y) = 365 * (y - 1970) + ((y - 1969) \div 4)
    BY <1>3, BeginsIs
  <2> DEFINE z == y + 1
  <2>2. z \in Int /\ 1901 <= z /\ z <= 2099 /\ z = y + 1
    BY <1>3
  <2> HIDE DEF z
  <2>3. N!Begins(z) = 365 * (z - 1970) + ((z - 1969) \div 4)
    BY <2>2, BeginsIs
  <2>. QED BY <1>3, <2>1, <2>2, <2>3
<1>5. l \in {28, 29} /\ (l = 29 <=> (y % 4) = 0)
  <2>1. N!isleap(y) <=> (y % 4) = 0
    BY <1>3, LeapYears
  <2>. QED BY <2>1 DEF February
<1>6. day \in Nat /\ day < 337 + l
  <2> HIDE DEF l
  <2>. QED BY <1>1, <1>3, <1>4, <1>5
<1>7. Months(f, l) /\ N!mon_lengths(y) = Lengths(l)
  BY <1>3, DaysBeforeIs
<1> HIDE DEF day, f, l
<1>8. /\ \E m \in 0..11 : InMonth(f, day, m)
      /\ \A m \in 0..12 : f[m] \in Int
      /\ \A m \in 0..11 : f[m + 1] - f[m] = Lengths(l)[m + 1]
  BY <1>5, <1>6, <1>7, MonthIs
<1>9. mon \in 0..11 /\ InMonth(f, day, mon)
  BY <1>8
<1>10. /\ t.year = y /\ t.mon = mon /\ t.mday = day - f[mon] + 1
       /\ t.hour = c.second \div 3600 /\ t.min = (c.second % 3600) \div 60 /\ t.sec = c.second % 60
  BY <1>2 DEF N!Shown, InMonth, f
<1> HIDE DEF mon, t
<1>11. t.mday \in 1..N!mon_lengths(t.year)[t.mon + 1]
  <2>1. f[mon] \in Int /\ f[mon + 1] \in Int /\ f[mon] <= day /\ day < f[mon + 1]
    <3>1. mon \in 0..12 /\ mon + 1 \in 0..12
      BY <1>9
    <3>. QED BY <1>8, <1>9, <3>1 DEF InMonth
  <2>2. f[mon + 1] - f[mon] = Lengths(l)[mon + 1]
    BY <1>8, <1>9
  <2> DEFINE a == f[mon]
             b == f[mon + 1]
             n == Lengths(l)[mon + 1]
  <2>3. n = b - a /\ a \in Int /\ b \in Int /\ a <= day /\ day < b
    BY <2>1, <2>2
  <2> HIDE DEF a, b, n
  <2>4. day - a + 1 \in 1..n
    BY <1>6, <2>3
  <2>. QED BY <1>7, <1>10, <2>4 DEF a, n
<1>12. leaps = ((years + 1) \div 4)
  <2>1. years \in -69..68
    BY <1>3
  <2> HIDE DEF years
  <2>2. ((years + 69) \div 100) = ((years + 369) \div 400)
    <3>1. CASE years <= 30
      BY <2>1, <3>1
    <3>2. CASE years > 30
      BY <2>1, <3>2
    <3>. QED BY <2>1, <3>1, <3>2
  <2>. QED BY <2>1, <2>2
<1>13. d = 365 * years + leaps + f[mon] + t.mday - 1
  <2>1. f[mon] \in Int /\ years \in Int /\ ((years + 1) \div 4) \in Int
    BY <1>3, <1>8, <1>9
  <2>2. d = N!Begins(y) + day
    BY <1>1, <1>3, <1>4 DEF day
  <2> HIDE DEF leaps
  <2>. QED BY <1>4, <1>6, <1>10, <1>12, <2>1, <2>2
<1>14. c.second = 3600 * t.hour + 60 * t.min + t.sec
  <2> DEFINE n == c.second
  <2>1. n \in Nat /\ n < 86400
    BY <1>1
  <2> HIDE DEF n
  <2>2. n = 3600 * (n \div 3600) + 60 * ((n % 3600) \div 60) + (n % 60)
    BY <2>1, SecondIs
  <2>. QED BY <1>10, <2>2 DEF n
<1>15. c = clock => t.year >= 1970
  <2> SUFFICES ASSUME c = clock PROVE y >= 1970
    BY <1>10
  <2>. QED BY <1>1, <1>3, <1>4
<1>16. d = 365 * (t.year - 1970) + ((t.year - 1970 + 1) \div 4 - (t.year - 1970 + 69) \div 100 + (t.year - 1970 + 369) \div 400)
            + N!DaysBefore(t.year)[t.mon] + t.mday - 1
  BY <1>10, <1>13 DEF f
<1>. QED BY <1>11, <1>14, <1>15, <1>16 DEF N!DateTrue, c, d, t

LEMMA SntpIsSound == SntpInv => N!TypeOK /\ N!SntpSound
<1> SUFFICES ASSUME SntpInv PROVE N!TypeOK /\ N!SntpSound
  OBVIOUS
<1>1. client \in Clients /\ strays \in Nat /\ waiting \in BOOLEAN /\ (clock = N!NotSet \/ clock \in Stamps)
  BY DEF SntpInv
<1>2. N!TypeOK
  <2>1. /\ client.current \in N!Servers /\ client.retry \in 1..SNTP_RETRY_TIMEOUT_MAX
        /\ client.request \in Nat /\ client.next \in Nat /\ client.lookups \in Nat /\ client.fails \in Nat
    BY <1>1 DEF Clients
  <2>2. clock \in Stamps => clock.second \in Nat /\ clock.second < 86400
    BY DEF Stamps
  <2>. QED BY <1>1, <2>1, <2>2 DEF N!TypeOK
<1>3. N!OneChain
  <2>1. N!Waits = WaitsOf(client)
    BY DEF N!Waits, WaitsOf
  <2>2. ~client.nullUsed => Chained
    BY DEF SntpInv
  <2> HIDE DEF N!Waits, WaitsOf
  <2>3. ASSUME ~client.nullUsed PROVE client.pcb => N!Waits >= 1
    BY <2>1, <2>2, <2>3 DEF Chained
  <2>4. ASSUME ~client.nullUsed, strays = 0, ~waiting PROVE N!Waits = IF client.pcb THEN 1 ELSE 0
    BY <2>1, <2>2, <2>4 DEF Chained, OnlyOne
  <2>. QED BY <2>3, <2>4 DEF N!OneChain
<1>4. N!SendsOnPcb
  BY DEF SntpInv, N!SendsOnPcb
<1>5. N!DateTrue
  BY <1>1, DateIsTrue DEF N!DateTrue
<1>. QED BY <1>2, <1>3, <1>4, <1>5 DEF N!SntpSound

-----------------------------------------------------------------------------
(* The types of the parts that keep time.                                    *)

WatchdogNumbers ==
    /\ MINUTE \in Nat \ {0} /\ HOURS \in Nat \ {0} /\ ERROR \in Nat /\ HUNG \in Nat /\ HUNG <= ERROR /\ BIAS \in Nat
    /\ NOTIFY \in Nat \ {0} /\ DELAY \in Nat /\ DISTURBANCES \in Nat
LEMMA WatchdogConstants == WatchdogNumbers
  BY PartsAssumption DEF W!WatchdogAssumption, WatchdogNumbers

\* A discovery that goes on has sent no more than its counter says: the
\* counter of the one before goes on, and the last one starts it anew.
Discovering ==
    /\ ssdp \in -1..NOTIFY /\ udp_sent_cnt \in 0..3 /\ sent \in 0..4
    /\ ssdp # -1 => sent <= udp_sent_cnt
Counting ==
    /\ Cnt_ERROR \in 0..ERROR /\ Cnt_Minite \in 0..(MINUTE - 1) /\ Cnt_Hour \in 0..(HOURS - 1)
    /\ bias \in 0..BIAS /\ disturbed \in 0..DISTURBANCES
Flagged == online \in BOOLEAN /\ lost \in BOOLEAN /\ short \in BOOLEAN
WatchdogRanges == Discovering /\ Counting /\ Flagged /\ command \in W!Commands

LEMMA RangesInitially == W!Init => WatchdogRanges
<1> SUFFICES ASSUME W!Init PROVE WatchdogRanges
  OBVIOUS
<1>1. Discovering
  BY WatchdogConstants DEF WatchdogNumbers, W!Init, W!Off, Discovering
<1>2. Counting
  BY WatchdogConstants DEF WatchdogNumbers, W!Init, Counting
<1>3. Flagged /\ command \in W!Commands
  BY DEF W!Init, W!Commands, Flagged
<1>. QED BY <1>1, <1>2, <1>3 DEF WatchdogRanges

LEMMA CountTimeRanges ==
    ASSUME NEW c \in 0..(MINUTE - 1), Cnt_Hour \in 0..(HOURS - 1), W!CountTime(c)
    PROVE  Cnt_Minite' \in 0..(MINUTE - 1) /\ Cnt_Hour' \in 0..(HOURS - 1)
  BY WatchdogConstants DEF WatchdogNumbers, W!CountTime, W!MinuteOver, W!HourOver

LEMMA TimerRanges ==
    ASSUME Discovering, ssdp # 0, ssdp' = IF ssdp = W!Off THEN W!Off ELSE ssdp - 1, UNCHANGED <<udp_sent_cnt, sent>>
    PROVE  Discovering'
  BY WatchdogConstants DEF WatchdogNumbers, W!Off, Discovering

LEMMA RangesKept == WatchdogRanges /\ [W!Next]_watchdogVars => WatchdogRanges'
<1> SUFFICES ASSUME WatchdogRanges, [W!Next]_watchdogVars PROVE WatchdogRanges'
  OBVIOUS
<1>1. CASE W!Pass
  <2>1. Discovering'
    BY <1>1, TimerRanges DEF W!Pass, WatchdogRanges
  <2>2. PICK c \in {0, Cnt_Minite} : W!CountTime(c)
    BY <1>1 DEF W!Pass
  <2>3. Cnt_Minite' \in 0..(MINUTE - 1) /\ Cnt_Hour' \in 0..(HOURS - 1)
    <3>1. c \in 0..(MINUTE - 1)
      BY WatchdogConstants DEF WatchdogNumbers, WatchdogRanges, Counting
    <3>. QED BY <2>2, <3>1, CountTimeRanges DEF WatchdogRanges, Counting
  <2>4. Cnt_ERROR' \in 0..ERROR
    <3>1. Cnt_ERROR > 0 /\ Cnt_ERROR' = W!Restart
      BY <1>1 DEF W!Pass
    <3>. QED BY <3>1, WatchdogConstants DEF WatchdogNumbers, W!Restart, WatchdogRanges, Counting
  <2>5. Counting'
    BY <1>1, <2>3, <2>4 DEF W!Pass, WatchdogRanges, Counting
  <2>6. Flagged'
    BY Zenon, <1>1 DEF W!Pass, WatchdogRanges, Flagged
  <2>7. command' \in W!Commands
    BY <1>1 DEF W!Pass, W!Periodic, W!AfterMonitor, W!Commands
  <2>. QED BY <2>1, <2>5, <2>6, <2>7 DEF WatchdogRanges
<1>2. CASE W!HangUp
  <2>1. Discovering' /\ command' \in W!Commands
    BY <1>2 DEF W!HangUp, W!discovery, W!slot, WatchdogRanges, Discovering
  <2>2. Counting'
    BY <1>2, WatchdogConstants DEF WatchdogNumbers, W!HangUp, W!Rest, WatchdogRanges, Counting
  <2>3. Flagged'
    BY <1>2 DEF W!HangUp, Flagged
  <2>. QED BY <2>1, <2>2, <2>3 DEF WatchdogRanges
<1>3. CASE W!Wait
  <2>1. Discovering'
    BY <1>3, TimerRanges DEF W!Wait, WatchdogRanges
  <2>2. Cnt_Minite' \in 0..(MINUTE - 1) /\ Cnt_Hour' \in 0..(HOURS - 1)
    BY <1>3, CountTimeRanges DEF W!Wait, WatchdogRanges, Counting
  <2>3. bias' \in 0..BIAS
    BY <1>3, WatchdogConstants DEF WatchdogNumbers, W!Wait, WatchdogRanges, Counting
  <2>4. Counting'
    BY <1>3, <2>2, <2>3 DEF W!Wait, WatchdogRanges, Counting
  <2>5. Flagged'
    BY Zenon, <1>3 DEF W!Wait, WatchdogRanges, Flagged
  <2>6. command' \in W!Commands
    BY <1>3 DEF W!Wait, W!slot, W!Commands, WatchdogRanges
  <2>. QED BY <2>1, <2>4, <2>5, <2>6 DEF WatchdogRanges
<1>4. CASE W!airkiss_wifilan_time_callback
  <2>1. Discovering'
    BY <1>4, WatchdogConstants DEF WatchdogNumbers, W!airkiss_wifilan_time_callback, W!LastOne, W!Off, WatchdogRanges, Discovering
  <2>2. Counting' /\ command' \in W!Commands
    BY <1>4 DEF W!airkiss_wifilan_time_callback, W!counters, W!slot, WatchdogRanges, Counting
  <2>3. Flagged'
    BY Zenon, <1>4 DEF W!airkiss_wifilan_time_callback, WatchdogRanges, Flagged
  <2>. QED BY <2>1, <2>2, <2>3 DEF WatchdogRanges
<1>5. ASSUME NEW f \in W!Commands, W!Frame(f), disturbed' \in 0..DISTURBANCES PROVE WatchdogRanges'
  <2>1. Discovering' /\ command' \in W!Commands
    BY <1>5 DEF W!Frame, W!discovery, WatchdogRanges, Discovering
  <2>2. Counting'
    BY <1>5 DEF W!Frame, W!counters, WatchdogRanges, Counting
  <2>3. Flagged'
    BY Zenon, <1>5 DEF W!Frame, WatchdogRanges, Flagged
  <2>. QED BY <2>1, <2>2, <2>3 DEF WatchdogRanges
<1>6. ASSUME NEW s \in W!Server, W!ServerAnswers(s) PROVE WatchdogRanges'
  <2>1. s \in W!Commands /\ W!Frame(s) /\ disturbed' \in 0..DISTURBANCES
    BY <1>6 DEF W!ServerAnswers, W!Commands, WatchdogRanges, Counting
  <2>. QED BY <1>5, <2>1
<1>7. ASSUME NEW f \in W!Apps, W!AppAsks(f) PROVE WatchdogRanges'
  <2>1. f \in W!Commands /\ W!Frame(f)
    BY <1>7 DEF W!AppAsks, W!Commands
  <2>2. disturbed' \in 0..DISTURBANCES
    BY <1>7, WatchdogConstants DEF WatchdogNumbers, W!AppAsks, WatchdogRanges, Counting
  <2>. QED BY <1>5, <2>1, <2>2
<1>8. CASE W!airkiss_start_discover
  <2>1. Discovering' /\ command' \in W!Commands
    BY <1>8, WatchdogConstants DEF WatchdogNumbers, W!airkiss_start_discover, W!slot, WatchdogRanges, Discovering
  <2>2. Counting'
    BY <1>8, WatchdogConstants DEF WatchdogNumbers, W!airkiss_start_discover, W!counters, WatchdogRanges, Counting
  <2>3. Flagged'
    BY Zenon, <1>8 DEF W!airkiss_start_discover, WatchdogRanges, Flagged
  <2>. QED BY <2>1, <2>2, <2>3 DEF WatchdogRanges
<1>9. CASE UNCHANGED watchdogVars
  BY Zenon, <1>9 DEF watchdogVars, WatchdogRanges, Discovering, Counting, Flagged
<1>. QED BY <1>1, <1>2, <1>3, <1>4, <1>6, <1>7, <1>8, <1>9 DEF W!Next, W!Time

LEMMA WatchdogIsTyped == WatchdogInv /\ WatchdogRanges => W!TypeOK
  BY DEF WatchdogInv, WatchdogTyped, WatchdogRanges, Discovering, Counting, Flagged, W!TypeOK, W!Off

\* A step of another part leaves the timeouts and the SNTP client alone.
LEMMA TimersAlone == [MCNext]_mcVars => [T!Next]_timeoutsVars
  BY DEF MCNext, Others, mcVars
LEMMA SntpAlone == [MCNext]_mcVars => [N!Next]_sntpVars
  BY DEF MCNext, Others, mcVars

\* The list of timeouts is in order, one of each kind is armed as long as it
\* should be and none runs early; a running SNTP client waits for one thing,
\* and the clock shows the date of the seconds it counts.
THEOREM TimesAreSound == MCSpec => []TimeSound
<1> DEFINE Kept == TimersInv /\ SntpInv /\ WatchdogRanges
<1>1. MCInit => Kept
  BY TimersInitially, SntpInitially, RangesInitially DEF MCInit
<1>2. Kept /\ [MCNext]_mcVars => Kept'
  BY TimersAlone, TimersInductive, SntpAlone, SntpInductive, WatchdogAlone, RangesKept
<1>3. Kept /\ WatchdogInv => TimeSound
  BY TimesAreKept, SntpIsSound, WatchdogIsTyped DEF TimeSound
<1>. QED BY <1>1, <1>2, <1>3, WatchdogInvariant, PTL DEF MCSpec

=============================================================================
