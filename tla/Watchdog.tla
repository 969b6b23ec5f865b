------------------------------ MODULE Watchdog ------------------------------
(***************************************************************************)
(* Whether a healthy session stays up (networking.c, gassmartconfig.c):      *)
(* networking() counts Cnt_ERROR down on every pass and hangs up at 0; only   *)
(* HEARTRATEACK and UPDATEPPM reset it.  The heartbeat goes through the one   *)
(* slot DataFormat.command, which frames overwrite, and its flag through      *)
(* flag_Time, which the LAN discovery of AirKiss clears.  Module Device has   *)
(* the session with a free choice for time; here passes are counted, for a   *)
(* server that answers every message within DELAY passes.                    *)
(***************************************************************************)
EXTENDS Integers

CONSTANTS
    MINUTE,     \* passes between heartbeats (1200; CNT_MINITE ticks)
    HOURS,      \* CNT_HOUR (30)
    ERROR,      \* Cnt_ERROR after an answer (1800)
    HUNG,       \* Cnt_ERROR after a hang-up (180)
    BIAS,       \* passes until the next session (200)
    NOTIFY,     \* passes between notifications (50)
    DELAY,      \* passes the server takes to answer
    DISTURBANCES \* bound: frames of apps, and discoveries

WatchdogAssumption ==
    /\ MINUTE \in Nat \ {0} /\ HOURS \in Nat \ {0} /\ ERROR \in Nat /\ HUNG \in Nat /\ BIAS \in Nat
    /\ NOTIFY \in Nat \ {0} /\ DELAY \in Nat /\ DISTURBANCES \in Nat
    /\ HUNG <= ERROR /\ MINUTE + DELAY + 3 < ERROR
    /\ DELAY + 2 < MINUTE          \* it answers a heartbeat before the next is due

Off == -1

VARIABLES
    Cnt_ERROR, Cnt_Minite, Cnt_Hour,
    flag_Time,      \* BIT_MINITE and BIT_HOUR
    command,        \* DataFormat.command
    latched,        \* Receive
    online,         \* WebSocketOK; BIT_LOGINOK is set from an earlier session
    bias,           \* passes until the next session is open
    answers,        \* external: passes until the server answers, or Off
    ssdp,           \* passes until ssdp_time_serv fires, or Off
    udp_sent_cnt,
    sent,           \* history: notifications of this discovery
    lost,           \* history: was a heartbeat lost since the last answer?
    short,          \* history: is Cnt_ERROR what the last hang-up left?
    disturbed       \* disturbances so far

counters == <<Cnt_ERROR, Cnt_Minite, Cnt_Hour>>
slot == <<command, latched>>
discovery == <<ssdp, udp_sent_cnt, sent>>
vars == <<counters, flag_Time, slot, online, bias, answers, discovery, lost, short, disturbed>>

Apps == {"READGAS", "STOPALARM"}
Server == {"HEARTRATEACK", "LOGINACK"}
Latched == {"READGAS", "READGASACK", "LOGIN", "LOGINACK"}
Commands == Apps \cup Server \cup {"none", "READGASACK", "LOGIN", "HEARTRATE", "UPDATEPPM"}

\* A session lives on these; the upload takes the place of a heartbeat.
Vital == {"HEARTRATE", "HEARTRATEACK", "UPDATEPPM"}

\* Every variable has its type and range; a discovery sends no more than the
\* four notifications.
TypeOK ==
    /\ Cnt_ERROR \in 0..ERROR /\ Cnt_Minite \in 0..(MINUTE - 1) /\ Cnt_Hour \in 0..(HOURS - 1)
    /\ flag_Time \subseteq {"MINITE", "HOUR"}
    /\ command \in Commands /\ latched \in Latched \cup {"none"}
    /\ online \in BOOLEAN /\ bias \in 0..BIAS
    /\ answers \in [Server -> Off..DELAY]
    /\ ssdp \in Off..NOTIFY /\ udp_sent_cnt \in 0..3 /\ sent \in 0..4
    /\ lost \in BOOLEAN /\ short \in BOOLEAN /\ disturbed \in 0..DISTURBANCES

\* A session that is logged in and was just answered.
Init ==
    /\ Cnt_ERROR = ERROR /\ Cnt_Minite = 0 /\ Cnt_Hour = 0 /\ flag_Time = {}
    /\ command = "none" /\ latched = "none"
    /\ online = TRUE /\ bias = 0
    /\ answers = [s \in Server |-> Off]
    /\ ssdp = Off /\ udp_sent_cnt = 0 /\ sent = 0
    /\ lost = FALSE /\ short = FALSE /\ disturbed = 0

-----------------------------------------------------------------------------
\* Two calls of time_calcu_cb: Cnt_Minite' and Cnt_Hour' follow from c, the
\* minute as the pass leaves it.
MinuteOver(c) == c + 1 >= MINUTE
HourOver(c) == MinuteOver(c) /\ Cnt_Hour + 1 >= HOURS
CountTime(c) ==
    /\ Cnt_Minite' = IF MinuteOver(c) THEN 0 ELSE c + 1
    /\ Cnt_Hour' = IF MinuteOver(c) THEN (IF HourOver(c) THEN 0 ELSE Cnt_Hour + 1) ELSE Cnt_Hour
NewFlags(c) == (IF MinuteOver(c) THEN {"MINITE"} ELSE {}) \cup (IF HourOver(c) THEN {"HOUR"} ELSE {})

\* The command ESP8266_Monitor runs: a latched one goes first.
Current == IF latched # "none" THEN latched ELSE command

\* The slot after ESP8266_Monitor: a request of an app latches its answer,
\* everything else is cleared (Reflash).
AfterMonitor == IF Current = "READGAS" THEN "READGASACK" ELSE "none"

\* The periodic commands; an upload takes the place of a heartbeat of the
\* same pass.
Periodic(after, flags) ==
    IF "HOUR" \in flags THEN "UPDATEPPM" ELSE IF "MINITE" \in flags THEN "HEARTRATE" ELSE after

\* What HEARTRATEACK and UPDATEPPM do.  Mutant: an upload does not count.
Answered_AckOnly == Current = "HEARTRATEACK"
Answered == Current \in {"HEARTRATEACK", "UPDATEPPM"}

\* A pass that keeps the session.
Restart == IF Answered THEN ERROR ELSE Cnt_ERROR - 1
Pass ==
    /\ online /\ Cnt_ERROR > 0 /\ ssdp # 0
    /\ \A s \in Server : answers[s] # 0
    /\ LET stopped == Current = "STOPALARM"
           before == IF stopped THEN flag_Time \ {"MINITE"} ELSE flag_Time
           minute == IF stopped THEN 0 ELSE Cnt_Minite
       IN /\ Cnt_ERROR' = Restart
          /\ command' = Periodic(AfterMonitor, before)
          /\ latched' = IF AfterMonitor # "none" THEN AfterMonitor ELSE "none"
          /\ flag_Time' = NewFlags(minute)
          /\ CountTime(minute)
          /\ lost' = \/ lost /\ ~Answered
                     \/ stopped
                     \/ latched # "none" /\ command \in Vital
    /\ short' = (short /\ ~Answered)
    /\ answers' = [s \in Server |->
                     IF s = "HEARTRATEACK" /\ Current = "HEARTRATE" THEN DELAY
                     ELSE IF s = "LOGINACK" /\ Current = "LOGIN" THEN DELAY
                     ELSE IF answers[s] = Off THEN Off ELSE answers[s] - 1]
    /\ ssdp' = IF ssdp = Off THEN Off ELSE ssdp - 1
    /\ UNCHANGED <<online, bias, udp_sent_cnt, sent, disturbed>>

\* The watchdog: HUNG passes are left for the next session.
\* Mutant: the counter stays where it is.
Rest_Not == 0
Rest == HUNG
HangUp ==
    /\ online /\ Cnt_ERROR = 0
    /\ online' = FALSE /\ bias' = BIAS
    /\ Cnt_ERROR' = Rest /\ short' = TRUE /\ lost' = FALSE
    /\ answers' = [s \in Server |-> Off]
    /\ UNCHANGED <<Cnt_Minite, Cnt_Hour, flag_Time, slot, discovery, disturbed>>

\* A pass in Mode_Bias, and the upgrade of the next session at its end.
Wait ==
    /\ ~online /\ ssdp # 0
    /\ flag_Time' = flag_Time \cup NewFlags(Cnt_Minite) /\ CountTime(Cnt_Minite)
    /\ IF bias > 0 THEN bias' = bias - 1 /\ UNCHANGED <<online, slot>>
       ELSE online' = TRUE /\ command' = "LOGIN" /\ latched' = "LOGIN" /\ UNCHANGED bias
    /\ ssdp' = IF ssdp = Off THEN Off ELSE ssdp - 1
    /\ UNCHANGED <<Cnt_ERROR, answers, udp_sent_cnt, sent, lost, short, disturbed>>

\* WebRecvData_Proc: the frame takes the slot, and some are latched.
Frame(f) ==
    /\ online
    /\ command' = f
    /\ latched' = IF f \in Latched THEN f ELSE latched
    /\ lost' = (lost \/ command \in Vital)
    /\ UNCHANGED <<counters, flag_Time, online, bias, discovery, short>>
ServerAnswers(s) ==
    /\ answers[s] # Off /\ answers' = [answers EXCEPT ![s] = Off]
    /\ Frame(s) /\ UNCHANGED disturbed
AppAsks(f) ==
    /\ disturbed < DISTURBANCES /\ disturbed' = disturbed + 1
    /\ Frame(f) /\ UNCHANGED answers

\* airkiss_start_discover, after LINK_OVER of AirKiss; udp_sent_cnt goes on.
airkiss_start_discover ==
    /\ disturbed < DISTURBANCES /\ disturbed' = disturbed + 1
    /\ ssdp' = NOTIFY /\ sent' = 0
    /\ UNCHANGED <<counters, flag_Time, slot, online, bias, answers, udp_sent_cnt, lost, short>>

\* airkiss_wifilan_time_callback: it sends once more after it has stopped
\* its timer, and clears the flags of the clock.
LastOne == udp_sent_cnt > 2
airkiss_wifilan_time_callback ==
    /\ ssdp = 0
    /\ udp_sent_cnt' = IF LastOne THEN 0 ELSE (udp_sent_cnt + 1) % 256
    /\ ssdp' = IF LastOne THEN Off ELSE NOTIFY
    /\ sent' = sent + 1
    /\ flag_Time' = {}
    /\ lost' = (lost \/ flag_Time # {})
    /\ UNCHANGED <<counters, slot, online, bias, answers, short, disturbed>>

Time == Pass \/ HangUp \/ Wait \/ airkiss_wifilan_time_callback
Next == \/ Time
        \/ \E s \in Server : ServerAnswers(s)
        \/ \E f \in Apps : AppAsks(f)
        \/ airkiss_start_discover

Spec == Init /\ [][Next]_vars
\* The clock goes on.
FairSpec == Spec /\ WF_vars(Time) /\ \A s \in Server : WF_vars(ServerAnswers(s))
-----------------------------------------------------------------------------
\* A healthy session is hung up only when a heartbeat or its answer was lost
\* in the slot, to STOPALARM or to a discovery since the last answer; or when
\* it is the session after a hang-up, which starts with HUNG passes.
HealthyKept ==
    [][online /\ ~online' => lost \/ short]_vars

\* Once apps and discoveries are quiet a session stays up for good, although
\* HUNG passes are less than a heartbeat's time: the flag of a minute that
\* ended without a session waits for the next.
SessionLasts == <>[]online

=============================================================================
