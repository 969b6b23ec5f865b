------------------------------- MODULE Detect -------------------------------
(***************************************************************************)
(* Gas detection (user_main.c): Detect is run on every 50 ms pass in        *)
(* Sensor_Normal.  WINDOW passes vote for the level of their reading, the   *)
(* next one counts the votes; a level with QUORUM votes becomes the alarm   *)
(* and the last reading of that level the value reported to the server.     *)
(* Readings are taken relative to config.adoffset, which led_test (three     *)
(* presses of the key) and led_test1 (self-test at boot) change at any time, *)
(* and detection stops whenever SensorMode is something else: neither       *)
(* touches the votes.  The colours of the lights are left out.               *)
(***************************************************************************)
EXTENDS Integers, Sequences, FiniteSets

CONSTANTS
    Readings,       \* values of system_adc_read
    Limits,         \* alarm limits an app may set
    LOW, HIGH,      \* readings above these are level 1 and level 2 (300, 600)
    WINDOW, QUORUM, \* 10 and 7
    GOOD,           \* readings that pass the self-test (50 to 700)
    FACTORY,        \* the offset a passed self-test stores (106)
    PPM_MAX         \* 3500

ASSUME DetectAssumption ==
    /\ Readings \subseteq Nat /\ GOOD \subseteq Readings /\ Limits \subseteq Nat
    /\ LOW \in Nat /\ HIGH \in Nat /\ LOW < HIGH
    /\ WINDOW \in Nat /\ QUORUM \in Nat
    /\ QUORUM <= WINDOW /\ WINDOW < 2 * QUORUM
    /\ FACTORY \in Nat /\ PPM_MAX \in Nat

VARIABLES
    SensorMode,
    status,        \* led_test's static: the phase of a calibration
    adoffset,      \* config.adoffset; -1 is the word of an erased sector
    PPM_H,
    Cnt_Warning3,  \* passes of this window
    Cnt_Warning,   \* Cnt_Warning0..2: the votes for each level
    PPM_Updata012, \* PPM_Updata0..2: the last reading of each level
    PPM_Updata,
    flag_Alarm,
    Alarm_H,
    recent,        \* history: the levels of the last WINDOW passes
    streak         \* history: passes in a row that read the same level

votes == <<Cnt_Warning3, Cnt_Warning, PPM_Updata012>>
verdict == <<PPM_Updata, flag_Alarm>>
history == <<recent, streak>>
vars == <<SensorMode, status, adoffset, PPM_H, votes, verdict, Alarm_H, history>>

Levels == 0..2
Level(p) == IF p <= LOW THEN 0 ELSE IF p <= HIGH THEN 1 ELSE 2
SensorModes == {"Init", "Normal", "Test", "Config", "Test1", "ConnError"}

\* Passes a level can last without being the alarm: QUORUM - 1 votes in one
\* window, its count, and the next window and its count.
Patience == (QUORUM - 1) + 1 + WINDOW + 1

\* Every variable has its type, and the votes are those of this window.
TypeOK ==
    /\ SensorMode \in SensorModes
    /\ status \in 0..3
    /\ adoffset \in Nat \cup {-1}
    /\ PPM_H \in Nat
    /\ Cnt_Warning3 \in 0..WINDOW
    /\ Cnt_Warning \in [Levels -> 0..WINDOW]
    /\ Cnt_Warning[0] + Cnt_Warning[1] + Cnt_Warning[2] = Cnt_Warning3
    /\ PPM_Updata012 \in [Levels -> Nat]
    /\ PPM_Updata \in Nat
    /\ flag_Alarm \in Levels
    /\ Alarm_H \in 0..PPM_MAX
    /\ recent \in Seq(Levels)
    /\ streak \in 0..Patience

\* user_init, with a stored offset or a sector that was never written.
Init ==
    /\ SensorMode \in {"Init", "Test1"}
    /\ status = 0
    /\ adoffset \in {-1, FACTORY}
    /\ PPM_H = 0
    /\ Cnt_Warning3 = 0 /\ Cnt_Warning = [l \in Levels |-> 0]
    /\ PPM_Updata012 = [l \in Levels |-> 0]
    /\ PPM_Updata = 0 /\ flag_Alarm = 0
    /\ Alarm_H = 0
    /\ recent = <<>> /\ streak = 0

-----------------------------------------------------------------------------
\* A reading, and what the last WINDOW and the last few of them were.
Relative(adc) == IF adc - adoffset <= 0 THEN 0 ELSE adc - adoffset
Remember(l) ==
    /\ recent' = Append(IF Len(recent) < WINDOW THEN recent ELSE Tail(recent), l)
    /\ streak' = IF recent # <<>> /\ recent[Len(recent)] # l THEN 1
                 ELSE IF streak < Patience THEN streak + 1 ELSE streak

Vote(p) ==
    /\ Cnt_Warning3' = Cnt_Warning3 + 1
    /\ Cnt_Warning' = [Cnt_Warning EXCEPT ![Level(p)] = @ + 1]
    /\ PPM_Updata012' = [PPM_Updata012 EXCEPT ![Level(p)] = p]
    /\ UNCHANGED verdict

\* The last pass of a window; lower levels are looked at first.
\* Mutants: six votes are enough; the reading of the moment is reported.
HasQuorum_OneLess(l) == Cnt_Warning[l] >= QUORUM - 1
HasQuorum(l) == Cnt_Warning[l] >= QUORUM
Report_Momentary(l) == PPM_Updata' = (PPM_H' * 5) \div 10
Report(l) == PPM_Updata' = (PPM_Updata012[l] * 5) \div 10
Wins(l) == flag_Alarm' = l /\ Report(l)

\* Mutants: the votes are cleared only when no level wins; one pass too many.
Clear_NoWinnerOnly ==
    /\ Cnt_Warning3' = 0
    /\ Cnt_Warning' = IF \E l \in Levels : HasQuorum(l) THEN Cnt_Warning ELSE [l \in Levels |-> 0]
Clear == Cnt_Warning3' = 0 /\ Cnt_Warning' = [l \in Levels |-> 0]
Voting_OneMore == Cnt_Warning3 <= WINDOW
Voting == Cnt_Warning3 < WINDOW

CountVotes ==
    /\ IF HasQuorum(0) THEN Wins(0)
       ELSE IF HasQuorum(1) THEN Wins(1)
       ELSE IF HasQuorum(2) THEN Wins(2)
       ELSE UNCHANGED verdict
    /\ Clear
    /\ UNCHANGED PPM_Updata012

RunDetect(adc) ==
    /\ SensorMode = "Normal"
    /\ PPM_H' = Relative(adc)
    /\ IF Voting THEN Vote(PPM_H') ELSE CountVotes
    /\ Remember(Level(PPM_H'))
    /\ UNCHANGED <<SensorMode, status, adoffset, Alarm_H>>

\* led_test: three colours, and the reading of the moment is the new zero.
\* status is static: a calibration that a long press broke off goes on where
\* it was.
LedTest(adc) ==
    /\ SensorMode = "Test"
    /\ IF status < 3
       THEN status' = status + 1 /\ UNCHANGED <<SensorMode, adoffset>>
       ELSE status' = 0 /\ SensorMode' = "Normal" /\ adoffset' = adc
    /\ UNCHANGED <<PPM_H, votes, verdict, Alarm_H, history>>

\* led_test1, status 3: the self-test.
LedTest1(adc) ==
    /\ SensorMode = "Test1"
    /\ PPM_H' = adc
    /\ adoffset' = IF adc \in GOOD THEN FACTORY ELSE adoffset
    /\ UNCHANGED <<SensorMode, status, votes, verdict, Alarm_H, history>>

\* SensorMode changes for reasons of its own (module Device).
Elsewhere ==
    /\ SensorMode' \in SensorModes \ {SensorMode, "Test1"}
    /\ UNCHANGED <<status, adoffset, PPM_H, votes, verdict, Alarm_H, history>>

\* ESP8266_Monitor, COMMAND_SETPPM.
SetPpm(v) ==
    /\ Alarm_H' = IF v > PPM_MAX THEN PPM_MAX ELSE v
    /\ UNCHANGED <<SensorMode, status, adoffset, PPM_H, votes, verdict, history>>

Next == \/ \E adc \in Readings : RunDetect(adc) \/ LedTest(adc) \/ LedTest1(adc)
        \/ \E v \in Limits : SetPpm(v)
        \/ Elsewhere

Spec == Init /\ [][Next]_vars

-----------------------------------------------------------------------------
\* The alarm changes, up or down, only to a level that QUORUM of the last
\* WINDOW readings had: no vote counts twice or outlives its window, whatever
\* pauses and calibrations come between.
Backing(l) == {i \in 1..Len(recent) : recent[i] = l}
AlarmBacked ==
    [][flag_Alarm' # flag_Alarm => Cardinality(Backing(flag_Alarm')) >= QUORUM]_vars

\* However the windows fall, a level that lasts becomes the alarm: it is
\* neither missed nor kept for longer than Patience passes.
LastingLevelShown == streak = Patience => flag_Alarm = recent[Len(recent)]

\* The value reported to the server and the alarm are of the same level,
\* although they are read at any time between windows.
ReportMatchesAlarm ==
    /\ flag_Alarm = 0 => PPM_Updata <= LOW \div 2
    /\ flag_Alarm = 1 => PPM_Updata >= LOW \div 2 /\ PPM_Updata <= HIGH \div 2
    /\ flag_Alarm = 2 => PPM_Updata >= HIGH \div 2

\* Alarm and reported value both tell the truth about the last windows.
VerdictTrue == LastingLevelShown /\ ReportMatchesAlarm

=============================================================================
