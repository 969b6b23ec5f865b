------------------------------ MODULE Mailbox ------------------------------
(***************************************************************************)
(* The single-slot mailbox between the websocket receive callback and the   *)
(* main loop (app/user/networking.c).  A frame is unpacked into the one     *)
(* global DataFormat and, for some commands, latched in Receive; the next   *)
(* pass of networking() runs the command, answers from the same DataFormat, *)
(* and may put a periodic command of its own into it.  Nothing queues: who  *)
(* asked (SRC_ID), what came along (mems) and what to do (command, Receive) *)
(* each exist once, for every sender and both directions.                   *)
(*                                                                         *)
(* The 100 ms pass is one step, a callback is one step.  The watchdog and    *)
(* the reconnection are in module Device; here a session ends at any time.  *)
(* Left out: COMMAND_WARNING, MAPDATA and SELFTEST, which nothing sets; the *)
(* colour of LEDCOLOR; RC4 itself (a frame is read with the key it was      *)
(* written with, or it is noise).                                           *)
(***************************************************************************)
EXTENDS Integers, FiniteSets

CONSTANTS
    Apps,         \* phones that reach the device through the server
    Server,       \* the sender of the server's own frames
    Device,       \* what SRC_ID holds once the device has sent something
    Limits,       \* PPM limits an app may set
    MaxSessions   \* bound on the websocket sessions

ASSUME MailboxAssumption ==
    /\ Server \notin Apps /\ Device \notin Apps /\ Server # Device
    /\ Limits \subseteq Nat
    /\ MaxSessions \in Nat

VARIABLES
    command,      \* DataFormat.command
    Receive,      \* the command latched by the callback or by Reflash
    SRC_ID,       \* DataFormat.SRC_ID: sender of the last frame, either way
    mems,         \* DataFormat.mems: the last payload, tagged with its command
    primaryKey,   \* the payload the session key was taken from
    Dev_ID,       \* ... the identity
    Alarm_H,      \* ... the alarm limit
    LOGINOK,      \* BIT_LOGINOK of Status
    flag_Time,    \* the periodic flags of time_calcu_cb
    WebSocketOK,
    sent,         \* what the last step sent
    upgraded,     \* external: is there a websocket connection?
    session,      \* external: its number
    accepted,     \* external: the server has accepted a login in this session
    owed,         \* external: answers the server still owes
    pending,      \* history: frames delivered in this session and not acted on
    overtaken     \* history: has one arrived before the last was acted on?

slot == <<command, Receive, SRC_ID, mems>>
learnt == <<primaryKey, Dev_ID, Alarm_H>>
server == <<upgraded, session, accepted, owed>>
vars == <<slot, learnt, LOGINOK, flag_Time, WebSocketOK, sent, server, pending, overtaken>>

Acks == {"NEWIDACK", "LOGINACK", "HEARTRATEACK"}
Requests == {"READGAS", "SETPPM", "LEDCOLOR", "STOPALARM"}
Latching == {"NEWIDACK", "LOGINACK", "READGAS", "SETPPM", "LEDCOLOR"}
Own == {"GETNEWID", "LOGIN", "READGASACK"}
Periodic == {"HEARTRATE", "UPDATEPPM"}
Commands == Acks \cup Requests \cup Own \cup Periodic \cup {"none"}
Answers == {"READGASACK", "SETPPMACK", "LEDCOLORACK"}
AnswerTo(c) == CASE c = "READGAS" -> "READGASACK"
                 [] c = "SETPPM" -> "SETPPMACK"
                 [] c = "LEDCOLOR" -> "LEDCOLORACK"
                 [] OTHER -> "none"
Tags == {"none", "noise", "own", "NEWIDACK", "LOGINACK", "SETPPM", "LEDCOLOR"}

Payloads == [of : Tags, val : Nat]
NoPayload == [of |-> "none", val |-> 0]
Noise == [of |-> "noise", val |-> 0]
OwnData == [of |-> "own", val |-> 0]
Senders == Apps \cup {Server}
Frames == [cmd : Acks \cup Requests, src : Senders, val : Nat]
Messages == [cmd : Answers \cup Periodic \cup {"none", "GETNEWID", "LOGIN"},
             dst : Senders \cup {Device}]
Silence == [cmd |-> "none", dst |-> Server]

\* Every variable has its type: the slot never holds a command without a
\* handler, whatever frames, passes and sessions follow one another.
TypeOK ==
    /\ command \in Commands
    /\ Receive \in Latching \cup Own \cup {"none"}
    /\ SRC_ID \in Senders \cup {Device}
    /\ mems \in Payloads
    /\ primaryKey \in Payloads /\ Dev_ID \in Payloads /\ Alarm_H \in Payloads
    /\ LOGINOK \in BOOLEAN
    /\ flag_Time \subseteq {"BIT_MINITE", "BIT_HOUR"}
    /\ WebSocketOK \in BOOLEAN
    /\ sent \in Messages
    /\ upgraded \in BOOLEAN
    /\ session \in 0..MaxSessions
    /\ accepted \in BOOLEAN
    /\ owed \subseteq Acks
    /\ pending \subseteq Frames
    /\ overtaken \in BOOLEAN

\* user_init; the identity may have been read from flash.
Init ==
    /\ command = "none" /\ Receive = "none"
    /\ SRC_ID = Device /\ mems = NoPayload
    /\ primaryKey = NoPayload
    /\ Dev_ID \in {NoPayload, [of |-> "NEWIDACK", val |-> 0]}
    /\ Alarm_H = NoPayload
    /\ LOGINOK = FALSE /\ flag_Time = {}
    /\ WebSocketOK = FALSE
    /\ sent = Silence
    /\ upgraded = FALSE /\ session = 0 /\ accepted = FALSE
    /\ owed = {} /\ pending = {} /\ overtaken = FALSE

-----------------------------------------------------------------------------
(* The receive callback.                                                    *)

\* "HTTP/1.1 101": the session is open.  Whatever was latched in an earlier

Upgrade ==
    /\ ~upgraded /\ session < MaxSessions
    /\ upgraded' = TRUE /\ session' = session + 1 /\ accepted' = FALSE
    /\ overtaken' = FALSE
    /\ WebSocketOK' = TRUE
    /\ LET first == IF Dev_ID.of = "none" THEN "GETNEWID" ELSE "LOGIN" IN
       command' = first /\ Receive' = first
    /\ sent' = Silence
    /\ UNCHANGED <<SRC_ID, mems, learnt, LOGINOK, flag_Time, owed, pending>>

\* The connection is gone: closed by the peer, or hung up by the watchdog.
\* The slot and BIT_LOGINOK stay as they are.
Disconnect ==
    /\ upgraded
    /\ upgraded' = FALSE /\ accepted' = FALSE
    /\ WebSocketOK' = FALSE
    /\ owed' = {} /\ pending' = {}
    /\ sent' = Silence
    /\ UNCHANGED <<slot, learnt, LOGINOK, flag_Time, session, overtaken>>

\* http_tcp_recv_cb: the phone's server answered "ok"; the session is taken
\* for open whether there is a connection or not.
HttpResultOk ==
    /\ WebSocketOK' = TRUE
    /\ sent' = Silence
    /\ UNCHANGED <<slot, learnt, LOGINOK, flag_Time, server, pending, overtaken>>

SessionKey == [of |-> "LOGINACK", val |-> session]

\* A frame can be read if it comes under the open key (registration and
\* login) or under the key the device holds.
Readable(f) == f.cmd \in {"NEWIDACK", "LOGINACK"} \/ primaryKey = SessionKey

\* Commands with a payload overwrite mems; the others leave it alone.
\* Mutant: the 16 bytes of a key are too long.
Payload_ShortOnly(f) == IF f.cmd \in {"NEWIDACK", "SETPPM", "LEDCOLOR"}
                        THEN [of |-> f.cmd, val |-> f.val] ELSE mems
Payload(f) == IF f.cmd \in {"NEWIDACK", "LOGINACK", "SETPPM", "LEDCOLOR"}
              THEN [of |-> f.cmd, val |-> f.val] ELSE mems

\* WebRecvData_Proc.  A command outside its switch leaves Receive alone, so
\* it is lost if something is still latched.
\* Mutant: those commands are latched too.
WebRecvData_Proc_LatchAll(f) ==
    /\ upgraded /\ WebSocketOK
    /\ overtaken' = (overtaken \/ pending # {})
    /\ SRC_ID' = f.src
    /\ IF Readable(f)
       THEN /\ command' = f.cmd /\ Receive' = f.cmd
            /\ mems' = Payload(f)
            /\ pending' = pending \cup {f}
       ELSE /\ command' = "none"
            /\ mems' = Noise
            /\ UNCHANGED <<Receive, pending>>
    /\ sent' = Silence
    /\ UNCHANGED <<learnt, LOGINOK, flag_Time, WebSocketOK, upgraded, session>>
WebRecvData_Proc(f) ==
    /\ upgraded /\ WebSocketOK
    /\ overtaken' = (overtaken \/ pending # {})
    /\ SRC_ID' = f.src
    /\ IF Readable(f)
       THEN /\ command' = f.cmd
            /\ Receive' = IF f.cmd \in Latching THEN f.cmd ELSE Receive
            /\ mems' = Payload(f)
            /\ pending' = pending \cup {f}
       ELSE /\ command' = "none"
            /\ mems' = Noise
            /\ UNCHANGED <<Receive, pending>>
    /\ sent' = Silence
    /\ UNCHANGED <<learnt, LOGINOK, flag_Time, WebSocketOK, upgraded, session>>

\* The server answers what it owes.  Its LOGINACK carries a new key.
AckFrame(c) == [cmd |-> c, src |-> Server,
                val |-> IF c = "HEARTRATEACK" THEN 0 ELSE session]
ServerAnswers(c) ==
    /\ c \in owed
    /\ WebRecvData_Proc(AckFrame(c))
    /\ owed' = owed \ {c}
    /\ accepted' = (accepted \/ c = "LOGINACK")

\* The server relays an app's request to a device that is logged in.
AppAsks(a, c, v) ==
    /\ accepted
    /\ c = "SETPPM" \/ v = 0
    /\ \A f \in pending : f.src # a
    /\ WebRecvData_Proc([cmd |-> c, src |-> a, val |-> v])
    /\ UNCHANGED <<owed, accepted>>

-----------------------------------------------------------------------------
(* networking(): one pass.                                                  *)

\* ESP8266_Monitor, lines 170-185: what Receive has latched wins.
Current == IF Receive # "none" THEN Receive ELSE command
Running(c) == WebSocketOK /\ Current = c

\* Reflash, then lines 80-103: after login, the periodic command takes the
\* slot; the hourly one wins.  Mutant: the latch is not set.
Reflash_CommandOnly(c, l, loggedIn, flags) ==
    /\ command' = IF loggedIn /\ "BIT_HOUR" \in flags THEN "UPDATEPPM"
                  ELSE IF loggedIn /\ "BIT_MINITE" \in flags THEN "HEARTRATE"
                  ELSE c
    /\ Receive' = "none"
    /\ LOGINOK' = loggedIn
    /\ flag_Time' = IF loggedIn THEN {} ELSE flags
Reflash(c, l, loggedIn, flags) ==
    /\ command' = IF loggedIn /\ "BIT_HOUR" \in flags THEN "UPDATEPPM"
                  ELSE IF loggedIn /\ "BIT_MINITE" \in flags THEN "HEARTRATE"
                  ELSE c
    /\ Receive' = l
    /\ LOGINOK' = loggedIn
    /\ flag_Time' = IF loggedIn THEN {} ELSE flags
Idle == Reflash("none", "none", LOGINOK, flag_Time)

PassUnchanged == UNCHANGED <<WebSocketOK, upgraded, session, accepted, overtaken>>

\* ProcessPackege, WebSocket_Data, espconn_send: the device becomes the
\* SRC_ID, the message goes out if there is a connection.
Send(c, dst) ==
    /\ SRC_ID' = Device
    /\ sent' = IF upgraded THEN [cmd |-> c, dst |-> dst] ELSE Silence
Owe(c) == owed' = IF upgraded THEN owed \cup {c} ELSE owed

\* An answer settles a request of that kind, the addressee's if it has one.
Settle(c, dst) ==
    LET mine == {f \in pending : f.cmd = c /\ f.src = dst}
        any  == {f \in pending : f.cmd = c} IN
    IF mine # {} THEN pending' = pending \ mine
    ELSE IF any # {} THEN \E f \in any : pending' = pending \ {f}
    ELSE UNCHANGED pending

RunGetNewId ==
    /\ Running("GETNEWID")
    /\ Send("GETNEWID", Server) /\ Owe("NEWIDACK")
    /\ mems' = OwnData
    /\ Idle /\ PassUnchanged /\ UNCHANGED <<learnt, pending>>

\* The identity goes to RAM and flash (module ConfigFlash), login follows.
RunNewIdAck ==
    /\ Running("NEWIDACK")
    /\ Dev_ID' = mems
    /\ Reflash("LOGIN", "LOGIN", LOGINOK, flag_Time)
    /\ sent' = Silence
    /\ Settle("NEWIDACK", Server)
    /\ PassUnchanged /\ UNCHANGED <<SRC_ID, mems, primaryKey, Alarm_H, owed>>

RunLogin ==
    /\ Running("LOGIN")
    /\ Send("LOGIN", Server) /\ Owe("LOGINACK")
    /\ mems' = OwnData
    /\ Idle /\ PassUnchanged /\ UNCHANGED <<learnt, pending>>

RunLoginAck ==
    /\ Running("LOGINACK")
    /\ primaryKey' = mems
    /\ Reflash("none", "none", TRUE, flag_Time)
    /\ sent' = Silence
    /\ Settle("LOGINACK", Server)
    /\ PassUnchanged /\ UNCHANGED <<SRC_ID, mems, Dev_ID, Alarm_H, owed>>

\* Two passes: the first only turns the request into its answer.
RunReadGas ==
    /\ Running("READGAS")
    /\ Reflash("READGASACK", "READGASACK", LOGINOK, flag_Time)
    /\ sent' = Silence
    /\ PassUnchanged /\ UNCHANGED <<SRC_ID, mems, learnt, owed, pending>>

\* Mutant: the latch is not cleared.
RunReadGasAck_Again ==
    /\ Running("READGASACK")
    /\ Send("READGASACK", SRC_ID) /\ Settle("READGAS", SRC_ID)
    /\ mems' = OwnData
    /\ Reflash("none", Receive, LOGINOK, flag_Time)
    /\ PassUnchanged /\ UNCHANGED <<learnt, owed>>

RunReadGasAck ==
    /\ Running("READGASACK")
    /\ Send("READGASACK", SRC_ID) /\ Settle("READGAS", SRC_ID)
    /\ mems' = OwnData
    /\ Idle /\ PassUnchanged /\ UNCHANGED <<learnt, owed>>

RunSetPpm ==
    /\ Running("SETPPM")
    /\ Alarm_H' = mems
    /\ Send("SETPPMACK", SRC_ID) /\ Settle("SETPPM", SRC_ID)
    /\ Idle /\ PassUnchanged /\ UNCHANGED <<mems, primaryKey, Dev_ID, owed>>

RunLedColor ==
    /\ Running("LEDCOLOR")
    /\ Send("LEDCOLORACK", SRC_ID) /\ Settle("LEDCOLOR", SRC_ID)
    /\ Idle /\ PassUnchanged /\ UNCHANGED <<mems, learnt, owed>>

\* The only command that clears DataFormat.command and not Receive.
RunHeartrate ==
    /\ Running("HEARTRATE")
    /\ Send("HEARTRATE", Server) /\ Owe("HEARTRATEACK")
    /\ Reflash("none", Receive, LOGINOK, flag_Time)
    /\ PassUnchanged /\ UNCHANGED <<mems, learnt, pending>>

RunHeartrateAck ==
    /\ Running("HEARTRATEACK")
    /\ sent' = Silence /\ Settle("HEARTRATEACK", Server)
    /\ Idle /\ PassUnchanged /\ UNCHANGED <<SRC_ID, mems, learnt, owed>>

RunUpdatePpm ==
    /\ Running("UPDATEPPM")
    /\ Send("UPDATEPPM", Server)
    /\ mems' = OwnData
    /\ Idle /\ PassUnchanged /\ UNCHANGED <<learnt, owed, pending>>

\* The next heartbeat is put off; there is no answer.
RunStopAlarm ==
    /\ Running("STOPALARM")
    /\ Reflash("none", "none", LOGINOK, flag_Time \ {"BIT_MINITE"})
    /\ sent' = Silence /\ Settle("STOPALARM", SRC_ID)
    /\ PassUnchanged /\ UNCHANGED <<SRC_ID, mems, learnt, owed>>

RunNothing ==
    /\ Running("none")
    /\ sent' = Silence
    /\ Idle /\ PassUnchanged /\ UNCHANGED <<SRC_ID, mems, learnt, owed, pending>>

Pass == \/ RunGetNewId \/ RunNewIdAck \/ RunLogin \/ RunLoginAck
        \/ RunReadGas \/ RunReadGasAck \/ RunSetPpm \/ RunLedColor
        \/ RunHeartrate \/ RunHeartrateAck \/ RunUpdatePpm \/ RunStopAlarm \/ RunNothing

\* time_calcu_cb: a minute, or an hour, is over.
Minute ==
    /\ \/ flag_Time' = flag_Time \cup {"BIT_MINITE"}
       \/ flag_Time' = flag_Time \cup {"BIT_MINITE", "BIT_HOUR"}
    /\ sent' = Silence
    /\ UNCHANGED <<slot, learnt, LOGINOK, WebSocketOK, server, pending, overtaken>>

Receiving ==
    \/ Upgrade \/ Disconnect \/ HttpResultOk
    \/ \E c \in Acks : ServerAnswers(c)
    \/ \E a \in Apps, c \in Requests, v \in Limits \cup {0} : AppAsks(a, c, v)

Next == Receiving \/ Pass \/ Minute

Spec == Init /\ [][Next]_vars

\* The main loop keeps running its passes (a minute flag, which nothing
\* bounds, must not be the only thing that ever happens).
FairSpec == Spec /\ WF_vars(Pass)

-----------------------------------------------------------------------------
\* Every answer has a request of its kind behind it, and goes to who sent that
\* and still waits, unless frames of this session have overtaken the main
\* loop: no periodic command, no earlier session, whatever it did to the slot,
\* and no message of the device's own gets between a request and its answer.
AnswersAreAsked ==
    [][sent'.cmd \in Answers =>
         /\ \E f \in pending : AnswerTo(f.cmd) = sent'.cmd
         /\ ~overtaken =>
              \E f \in pending : f.src = sent'.dst /\ AnswerTo(f.cmd) = sent'.cmd]_vars

\* What is taken from a frame's payload is that frame's payload: it is not
\* overwritten between arrival and use, unless frames overtake the main loop.
OwnPayload ==
    [][~overtaken =>
         /\ Dev_ID' # Dev_ID => Dev_ID'.of = "NEWIDACK"
         /\ primaryKey' # primaryKey => primaryKey'.of = "LOGINACK"
         /\ Alarm_H' # Alarm_H => Alarm_H'.of = "SETPPM"]_vars

\* A frame waiting to be acted on is what the next pass runs, unless another
\* has overtaken it.
PendingIsCurrent ==
    ~overtaken =>
      \A f \in pending : Current = f.cmd \/ (f.cmd = "READGAS" /\ Current = "READGASACK")

\* Every request is acted on, unless its session ends first or frames
\* overtake the main loop.
EveryRequestServed ==
    \A a \in Apps : (\E f \in pending : f.src = a) ~> (\A f \in pending : f.src # a) \/ overtaken

\* After login succeeded: nothing periodic is sent in a session whose login
\* the server has not accepted.
PeriodicAfterLogin == [][sent'.cmd \in Periodic => accepted]_vars

=============================================================================
