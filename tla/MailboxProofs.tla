--------------------------- MODULE MailboxProofs ---------------------------
(***************************************************************************)
(* Proofs about Mailbox, for any number of phones, limits and sessions.     *)
(* What the slot protects, it protects until a frame arrives before the     *)
(* last one of the session has been acted on; an upgrade starts afresh.     *)
(* And about IP and the netifs, for any netifs, hosts and connections.       *)
(***************************************************************************)
EXTENDS MCMailbox, FiniteSetTheorems, SequenceTheorems, WellFoundedInduction, TLAPS

USE MailboxAssumption DEF MailboxAssumption

\* A frame, once delivered, leaves the slot well typed.
LEMMA FrameTyped ==
    ASSUME TypeOK, NEW f \in Frames, WebRecvData_Proc(f)
    PROVE  /\ command' \in Commands
           /\ Receive' \in Latching \cup Own \cup {"none"}
           /\ SRC_ID' \in Senders \cup {Device}
           /\ mems' \in Payloads
           /\ primaryKey' \in Payloads /\ Dev_ID' \in Payloads /\ Alarm_H' \in Payloads
           /\ LOGINOK' \in BOOLEAN
           /\ flag_Time' \subseteq {"BIT_MINITE", "BIT_HOUR"}
           /\ WebSocketOK' \in BOOLEAN
           /\ sent' \in Messages
           /\ upgraded' \in BOOLEAN
           /\ session' \in 0..MaxSessions
           /\ pending' \subseteq Frames
           /\ overtaken' \in BOOLEAN
  BY DEF TypeOK, WebRecvData_Proc, Payload, Payloads, Tags, Noise, Frames, Senders,
         Messages, Silence, Commands, Acks, Requests, Latching, Own, Periodic, Answers, learnt

LEMMA AckFrameTyped ==
    ASSUME TypeOK, NEW c \in Acks PROVE AckFrame(c) \in Frames
  BY DEF TypeOK, AckFrame, Frames, Senders, Acks

LEMMA RequestTyped ==
    ASSUME NEW a \in Apps, NEW c \in Requests, NEW v \in Limits \cup {0}
    PROVE  [cmd |-> c, src |-> a, val |-> v] \in Frames
  BY DEF Frames, Senders

\* Settling a request only removes frames.
LEMMA SettleRemoves ==
    ASSUME NEW c, NEW d, Settle(c, d) PROVE pending' \subseteq pending
  BY DEF Settle

\* Reflash leaves a command, a latch and flags of the right type.
LEMMA ReflashTyped ==
    ASSUME TypeOK, NEW c \in {"none", "LOGIN", "READGASACK"},
           NEW l \in Latching \cup Own \cup {"none"},
           NEW b \in BOOLEAN, NEW fl \in SUBSET {"BIT_MINITE", "BIT_HOUR"},
           Reflash(c, l, b, fl)
    PROVE  /\ command' \in Commands
           /\ Receive' \in Latching \cup Own \cup {"none"}
           /\ LOGINOK' \in BOOLEAN
           /\ flag_Time' \subseteq {"BIT_MINITE", "BIT_HOUR"}
  BY DEF Reflash, Commands, Own, Periodic, Latching

\* Every variable of the mailbox keeps its type, however frames, passes,
\* minutes and sessions follow one another.
THEOREM TypeCorrect == Spec => []TypeOK
<1>1. Init => TypeOK
  <2> SUFFICES ASSUME Init PROVE TypeOK
    OBVIOUS
  <2>1. NoPayload \in Payloads /\ [of |-> "NEWIDACK", val |-> 0] \in Payloads
    BY DEF NoPayload, Payloads, Tags
  <2>2. sent \in Messages
    BY DEF Init, Messages, Silence, Senders
  <2>3. Dev_ID \in Payloads /\ mems \in Payloads /\ primaryKey \in Payloads /\ Alarm_H \in Payloads
    BY <2>1 DEF Init
  <2>4. /\ command \in Commands /\ SRC_ID \in Senders \cup {Device}
        /\ Receive \in Latching \cup Own \cup {"none"}
        /\ session \in 0..MaxSessions
    BY DEF Init, Commands
  <2>. QED BY <2>2, <2>3, <2>4 DEF Init, TypeOK
<1>2. TypeOK /\ [Next]_vars => TypeOK'
  <2> SUFFICES ASSUME TypeOK, [Next]_vars PROVE TypeOK'
    OBVIOUS
  <2>1. CASE Upgrade
    <3>1. command' \in {"GETNEWID", "LOGIN"} /\ Receive' \in {"GETNEWID", "LOGIN"}
      BY <2>1 DEF Upgrade
    <3>2. command' \in Commands /\ Receive' \in Latching \cup Own \cup {"none"}
      BY <3>1 DEF Commands, Own
    <3>3. sent' \in Messages /\ session' \in 0..MaxSessions
      BY <2>1 DEF Upgrade, TypeOK, Messages, Silence, Senders
    <3>. QED BY <2>1, <3>2, <3>3 DEF Upgrade, TypeOK, learnt
  <2>2. CASE Disconnect
    BY <2>2 DEF Disconnect, TypeOK, Messages, Silence, Senders, slot, learnt
  <2>3. CASE HttpResultOk
    BY <2>3 DEF HttpResultOk, TypeOK, Messages, Silence, Senders, slot, learnt, server
  <2>4. ASSUME NEW c \in Acks, ServerAnswers(c) PROVE TypeOK'
    BY <2>4, AckFrameTyped, FrameTyped DEF ServerAnswers, TypeOK
  <2>5. ASSUME NEW a \in Apps, NEW c \in Requests, NEW v \in Limits \cup {0}, AppAsks(a, c, v)
        PROVE TypeOK'
    BY <2>5, RequestTyped, FrameTyped DEF AppAsks, TypeOK
  <2>6. CASE Pass
    <3> USE DEF PassUnchanged, Idle
    <3>. LOGINOK \in BOOLEAN /\ flag_Time \in SUBSET {"BIT_MINITE", "BIT_HOUR"}
      BY DEF TypeOK
    <3>1. CASE RunGetNewId
      <4>1. sent' \in Messages /\ SRC_ID' \in Senders \cup {Device}
        BY <3>1 DEF RunGetNewId, Send, Messages, Silence, Senders
      <4>2. owed' \subseteq Acks /\ mems' \in Payloads
        BY <3>1 DEF RunGetNewId, Owe, TypeOK, Acks, OwnData, Payloads, Tags
      <4>. QED BY <3>1, <4>1, <4>2, ReflashTyped DEF RunGetNewId, TypeOK, learnt
    <3>2. CASE RunNewIdAck
      BY SMTT(40), <3>2, ReflashTyped, SettleRemoves DEF RunNewIdAck, TypeOK, Messages, Silence, Senders, Own
    <3>3. CASE RunLogin
      <4>1. sent' \in Messages /\ SRC_ID' \in Senders \cup {Device}
        BY <3>3 DEF RunLogin, Send, Messages, Silence, Senders
      <4>2. owed' \subseteq Acks /\ mems' \in Payloads
        BY <3>3 DEF RunLogin, Owe, TypeOK, Acks, OwnData, Payloads, Tags
      <4>. QED BY <3>3, <4>1, <4>2, ReflashTyped DEF RunLogin, TypeOK, learnt
    <3>4. CASE RunLoginAck
      BY <3>4, ReflashTyped, SettleRemoves DEF RunLoginAck, TypeOK, Messages, Silence, Senders
    <3>5. CASE RunReadGas
      BY <3>5, ReflashTyped DEF RunReadGas, TypeOK, Messages, Silence, Senders, Own, learnt
    <3>6. CASE RunReadGasAck
      BY <3>6, ReflashTyped, SettleRemoves DEF RunReadGasAck, Send, TypeOK, Messages, Silence,
         Senders, OwnData, Payloads, Tags, Answers, learnt
    <3>7. CASE RunSetPpm
      BY <3>7, ReflashTyped, SettleRemoves DEF RunSetPpm, Send, TypeOK, Messages, Silence,
         Senders, Answers
    <3>8. CASE RunLedColor
      BY <3>8, ReflashTyped, SettleRemoves DEF RunLedColor, Send, TypeOK, Messages, Silence,
         Senders, Answers, learnt
    <3>9. CASE RunHeartrate
      <4>. Receive \in Latching \cup Own \cup {"none"}
        BY DEF TypeOK
      <4>. QED
        BY <3>9, ReflashTyped DEF RunHeartrate, Send, Owe, TypeOK, Messages, Silence, Senders,
           Periodic, Acks, learnt
    <3>10. CASE RunHeartrateAck
      BY <3>10, ReflashTyped, SettleRemoves DEF RunHeartrateAck, TypeOK, Messages, Silence,
         Senders, learnt
    <3>11. CASE RunUpdatePpm
      BY SMTT(40), <3>11, ReflashTyped DEF RunUpdatePpm, Send, TypeOK, Messages, Silence, Senders,
         OwnData, Payloads, Tags, Periodic, learnt
    <3>12. CASE RunStopAlarm
      BY <3>12, ReflashTyped, SettleRemoves DEF RunStopAlarm, TypeOK, Messages, Silence,
         Senders, learnt
    <3>13. CASE RunNothing
      BY <3>13, ReflashTyped DEF RunNothing, TypeOK, Messages, Silence, Senders, learnt
    <3>. QED BY <2>6, <3>1, <3>2, <3>3, <3>4, <3>5, <3>6, <3>7, <3>8, <3>9, <3>10, <3>11,
                <3>12, <3>13 DEF Pass
  <2>7. CASE Minute
    BY <2>7 DEF Minute, TypeOK, Messages, Silence, Senders, slot, learnt, server
  <2>8. CASE UNCHANGED vars
    BY <2>8 DEF vars, TypeOK, slot, learnt, server
  <2>. QED BY <2>1, <2>2, <2>3, <2>4, <2>5, <2>6, <2>7, <2>8 DEF Next, Receiving
<1>. QED BY <1>1, <1>2, PTL DEF Spec

-----------------------------------------------------------------------------
(* What the slot protects.  The latch decides which command runs, and until  *)
(* frames overtake the main loop the sender and the payload of the frame     *)
(* behind it stay in DataFormat until it has run.                            *)

Carrying == {"NEWIDACK", "LOGINACK", "SETPPM"}
AskOf(c) == IF c = "READGASACK" THEN "READGAS" ELSE c

CommandLatched == command \in Latching \cup {"READGASACK"} => Receive = command
PayloadKept == Receive \in Carrying => mems.of = Receive
AskerKept ==
    upgraded /\ Receive \in Latching \cup {"READGASACK"}
      => \E f \in pending : f.cmd = AskOf(Receive) /\ f.src = SRC_ID
SlotInv == ~overtaken => CommandLatched /\ PayloadKept /\ AskerKept

\* A frame that overtakes nothing finds no latch of an earlier one.
LEMMA FrameKeepsSlot ==
    ASSUME TypeOK, SlotInv, NEW f \in Frames, WebRecvData_Proc(f)
    PROVE  SlotInv'
<1> SUFFICES ASSUME ~overtaken' PROVE (CommandLatched /\ PayloadKept /\ AskerKept)'
  BY DEF SlotInv
<1>1. upgraded /\ pending = {} /\ ~overtaken
  BY DEF WebRecvData_Proc, TypeOK
<1>2. Receive \notin Latching \cup {"READGASACK"}
  BY <1>1 DEF SlotInv, AskerKept
<1>3. CASE Readable(f)
  <2>1. command' = f.cmd /\ SRC_ID' = f.src /\ pending' = {f} /\ mems' = Payload(f)
    BY <1>1, <1>3 DEF WebRecvData_Proc
  <2>2. CASE f.cmd \in Latching
    <3>1. Receive' = f.cmd
      BY <1>3, <2>2 DEF WebRecvData_Proc
    <3>2. PayloadKept'
      BY <2>1, <3>1 DEF PayloadKept, Carrying, Payload
    <3>3. AskerKept'
      BY <2>1, <2>2, <3>1 DEF AskerKept, AskOf, Latching
    <3>. QED BY <2>1, <3>1, <3>2, <3>3 DEF CommandLatched
  <2>3. CASE f.cmd \notin Latching
    <3>1. Receive' = Receive
      BY <1>3, <2>3 DEF WebRecvData_Proc
    <3>2. f.cmd # "READGASACK"
      BY DEF Frames, Acks, Requests
    <3>. QED BY <1>2, <2>1, <2>3, <3>1, <3>2 DEF CommandLatched, PayloadKept, AskerKept,
                 Carrying, Latching
  <2>. QED BY <2>2, <2>3
<1>4. CASE ~Readable(f)
  <2>1. command' = "none" /\ Receive' = Receive
    BY <1>4 DEF WebRecvData_Proc
  <2>. QED BY <1>2, <2>1 DEF CommandLatched, PayloadKept, AskerKept, Carrying, Latching
<1>. QED BY <1>3, <1>4

\* A pass that leaves nothing latched but a login keeps the slot.
LEMMA PassKeepsSlot ==
    ASSUME NEW c \in {"none", "LOGIN"}, NEW l \in {"none", "LOGIN"},
           NEW b, NEW fl, Reflash(c, l, b, fl)
    PROVE  SlotInv'
<1>1. command' \in {"none", "LOGIN", "HEARTRATE", "UPDATEPPM"} /\ Receive' \in {"none", "LOGIN"}
  BY DEF Reflash
<1>. QED BY <1>1 DEF SlotInv, CommandLatched, PayloadKept, AskerKept, Carrying, Latching

LEMMA SlotInductive == TypeOK /\ SlotInv /\ [Next]_vars => SlotInv'
<1> SUFFICES ASSUME TypeOK, SlotInv, [Next]_vars PROVE SlotInv'
  OBVIOUS
<1>1. CASE Upgrade
  <2>1. command' \in {"GETNEWID", "LOGIN"} /\ Receive' = command'
    BY <1>1 DEF Upgrade
  <2>. QED BY <2>1 DEF SlotInv, CommandLatched, PayloadKept, AskerKept, Carrying, Latching
<1>2. CASE Disconnect
  BY <1>2 DEF Disconnect, SlotInv, CommandLatched, PayloadKept, AskerKept, slot
<1>3. CASE HttpResultOk
  BY <1>3 DEF HttpResultOk, SlotInv, CommandLatched, PayloadKept, AskerKept, slot, server
<1>4. ASSUME NEW c \in Acks, ServerAnswers(c) PROVE SlotInv'
  BY <1>4, AckFrameTyped, FrameKeepsSlot DEF ServerAnswers
<1>5. ASSUME NEW a \in Apps, NEW c \in Requests, NEW v \in Limits \cup {0}, AppAsks(a, c, v)
      PROVE SlotInv'
  BY <1>5, RequestTyped, FrameKeepsSlot DEF AppAsks
<1>6. CASE Pass
  <2> USE DEF Idle
  <2>1. CASE RunGetNewId
    BY <2>1, PassKeepsSlot DEF RunGetNewId
  <2>2. CASE RunNewIdAck
    BY <2>2, PassKeepsSlot DEF RunNewIdAck
  <2>3. CASE RunLogin
    BY <2>3, PassKeepsSlot DEF RunLogin
  <2>4. CASE RunLoginAck
    BY <2>4, PassKeepsSlot DEF RunLoginAck
  <2>5. CASE RunReadGas
    <3> SUFFICES ASSUME ~overtaken' PROVE (CommandLatched /\ PayloadKept /\ AskerKept)'
      BY DEF SlotInv
    <3>. ~overtaken
      BY <2>5 DEF RunReadGas, PassUnchanged
    <3>1. Receive = "READGAS" /\ Receive' = "READGASACK"
      BY <2>5 DEF RunReadGas, Reflash, Running, Current, SlotInv, CommandLatched, Latching
    <3>2. command' \in {"READGASACK", "HEARTRATE", "UPDATEPPM"}
      BY <2>5 DEF RunReadGas, Reflash
    <3>3. AskerKept'
      BY <2>5, <3>1 DEF RunReadGas, PassUnchanged, SlotInv, AskerKept, AskOf, Latching
    <3>. QED BY <3>1, <3>2, <3>3 DEF CommandLatched, PayloadKept, Carrying, Latching
  <2>6. CASE RunReadGasAck
    BY <2>6, PassKeepsSlot DEF RunReadGasAck
  <2>7. CASE RunSetPpm
    BY <2>7, PassKeepsSlot DEF RunSetPpm
  <2>8. CASE RunLedColor
    BY <2>8, PassKeepsSlot DEF RunLedColor
  <2>9. CASE RunHeartrate
    <3>1. Receive = "none"
      BY <2>9 DEF RunHeartrate, Running, Current, TypeOK, Latching, Own
    <3>. QED BY <2>9, <3>1, PassKeepsSlot DEF RunHeartrate
  <2>10. CASE RunHeartrateAck
    BY <2>10, PassKeepsSlot DEF RunHeartrateAck
  <2>11. CASE RunUpdatePpm
    BY <2>11, PassKeepsSlot DEF RunUpdatePpm
  <2>12. CASE RunStopAlarm
    BY <2>12, PassKeepsSlot DEF RunStopAlarm
  <2>13. CASE RunNothing
    BY <2>13, PassKeepsSlot DEF RunNothing
  <2>. QED BY <1>6, <2>1, <2>2, <2>3, <2>4, <2>5, <2>6, <2>7, <2>8, <2>9, <2>10, <2>11,
              <2>12, <2>13 DEF Pass
<1>7. CASE Minute
  BY <1>7 DEF Minute, SlotInv, CommandLatched, PayloadKept, AskerKept, slot, server
<1>8. CASE UNCHANGED vars
  BY <1>8 DEF vars, SlotInv, CommandLatched, PayloadKept, AskerKept, slot, server
<1>. QED BY <1>1, <1>2, <1>3, <1>4, <1>5, <1>6, <1>7, <1>8 DEF Next, Receiving

LEMMA SlotInitially == Init => SlotInv
  BY DEF Init, SlotInv, CommandLatched, PayloadKept, AskerKept, Carrying, Latching

\* What runs is what is latched, and mems holds its payload.
LEMMA RunsLatched ==
    ASSUME SlotInv, ~overtaken, NEW c \in Latching \cup {"READGASACK"}, Running(c)
    PROVE  Receive = c /\ (c \in Carrying => mems.of = c)
  BY DEF SlotInv, CommandLatched, PayloadKept, Running, Current

\* A step that learns something learns it from the payload of its own frame.
LEMMA LearnsOwn ==
    ASSUME TypeOK, SlotInv, [Next]_vars, ~overtaken
    PROVE  /\ Dev_ID' # Dev_ID => Dev_ID'.of = "NEWIDACK"
           /\ primaryKey' # primaryKey => primaryKey'.of = "LOGINACK"
           /\ Alarm_H' # Alarm_H => Alarm_H'.of = "SETPPM"
<1>1. CASE RunNewIdAck
  BY <1>1, RunsLatched DEF RunNewIdAck, Carrying, Latching
<1>2. CASE RunLoginAck
  BY <1>2, RunsLatched DEF RunLoginAck, Carrying, Latching
<1>3. CASE RunSetPpm
  BY <1>3, RunsLatched DEF RunSetPpm, Carrying, Latching
<1>4. CASE Receiving \/ Minute
  BY <1>4 DEF Receiving, Minute, Upgrade, Disconnect, HttpResultOk, ServerAnswers, AppAsks,
     WebRecvData_Proc, learnt
<1>5. CASE RunGetNewId \/ RunLogin \/ RunReadGas \/ RunReadGasAck \/ RunLedColor
  BY <1>5 DEF RunGetNewId, RunLogin, RunReadGas, RunReadGasAck, RunLedColor, learnt
<1>6. CASE RunHeartrate \/ RunHeartrateAck \/ RunUpdatePpm \/ RunStopAlarm \/ RunNothing
  BY <1>6 DEF RunHeartrate, RunHeartrateAck, RunUpdatePpm, RunStopAlarm, RunNothing, learnt
<1>7. CASE UNCHANGED vars
  BY <1>7 DEF vars, learnt
<1>. QED BY <1>1, <1>2, <1>3, <1>4, <1>5, <1>6, <1>7 DEF Next, Pass

\* Until frames overtake the main loop, the identity, the session key and the
\* alarm limit are taken whole from frames that carried them.
THEOREM PayloadIntact == Spec => OwnPayload
<1>1. TypeOK /\ SlotInv /\ [Next]_vars =>
        [~overtaken =>
           /\ Dev_ID' # Dev_ID => Dev_ID'.of = "NEWIDACK"
           /\ primaryKey' # primaryKey => primaryKey'.of = "LOGINACK"
           /\ Alarm_H' # Alarm_H => Alarm_H'.of = "SETPPM"]_vars
  BY LearnsOwn
<1>. QED BY <1>1, TypeCorrect, SlotInitially, SlotInductive, PTL DEF Spec, OwnPayload

\* A step that answers, answers the request in the slot.
LEMMA AnswersSlot ==
    ASSUME TypeOK, SlotInv, ~overtaken, [Next]_vars, ~(UNCHANGED vars), sent'.cmd \in Answers
    PROVE  \E f \in pending : f.src = sent'.dst /\ AnswerTo(f.cmd) = sent'.cmd
<1>1. Silence.cmd \notin Answers
  BY DEF Silence, Answers
<1>2. sent' # Silence
  BY <1>1
<1>3. ~Receiving /\ ~Minute
  BY <1>2 DEF Receiving, Minute, Upgrade, Disconnect, HttpResultOk, ServerAnswers, AppAsks,
     WebRecvData_Proc
<1>4. Pass
  BY <1>3 DEF Next
<1>5. CASE RunReadGasAck
  <2>1. Receive = "READGASACK"
    BY <1>5, RunsLatched DEF RunReadGasAck
  <2>2. upgraded /\ sent' = [cmd |-> "READGASACK", dst |-> SRC_ID]
    BY <1>2, <1>5 DEF RunReadGasAck, Send
  <2>. QED BY <2>1, <2>2 DEF SlotInv, AskerKept, AskOf, AnswerTo
<1>6. CASE RunSetPpm
  <2>1. Receive = "SETPPM"
    BY <1>6, RunsLatched DEF RunSetPpm, Latching
  <2>2. upgraded /\ sent' = [cmd |-> "SETPPMACK", dst |-> SRC_ID]
    BY <1>2, <1>6 DEF RunSetPpm, Send
  <2>. QED BY <2>1, <2>2 DEF SlotInv, AskerKept, AskOf, AnswerTo, Latching
<1>7. CASE RunLedColor
  <2>1. Receive = "LEDCOLOR"
    BY <1>7, RunsLatched DEF RunLedColor, Latching
  <2>2. upgraded /\ sent' = [cmd |-> "LEDCOLORACK", dst |-> SRC_ID]
    BY <1>2, <1>7 DEF RunLedColor, Send
  <2>. QED BY <2>1, <2>2 DEF SlotInv, AskerKept, AskOf, AnswerTo, Latching
<1>8. CASE RunGetNewId \/ RunLogin \/ RunHeartrate \/ RunUpdatePpm
  BY <1>2, <1>8 DEF RunGetNewId, RunLogin, RunHeartrate, RunUpdatePpm, Send, Answers
<1>. QED BY <1>2, <1>4, <1>5, <1>6, <1>7, <1>8 DEF Pass, RunNewIdAck, RunLoginAck, RunReadGas,
            RunHeartrateAck, RunStopAlarm, RunNothing

-----------------------------------------------------------------------------
(* Who may be waiting.  A session starts with the device's own command, and  *)
(* no frame can come before that command went out; a device without an       *)
(* identity speaks of nothing but its registration.                          *)

Offline == ~upgraded => owed = {} /\ pending = {} /\ ~accepted

Unregistered ==
    Dev_ID.of = "none" =>
      /\ ~LOGINOK /\ ~accepted
      /\ {command, Receive} \subseteq {"none", "GETNEWID", "NEWIDACK"}
      /\ owed \subseteq {"NEWIDACK"}
      /\ \A f \in pending : f.cmd = "NEWIDACK" /\ f.src = Server

Registered ==
    Dev_ID.of # "none" =>
      /\ {command, Receive} \cap {"GETNEWID", "NEWIDACK"} = {}
      /\ "NEWIDACK" \notin owed

\* A new identity is the only thing that goes on while it is waited for.
IdentityComes ==
    /\ "NEWIDACK" \in owed => Receive = "none" /\ command = "none"
    /\ "NEWIDACK" \in {command, Receive} =>
         owed = {} /\ mems.of = "NEWIDACK" /\ command = Receive

LoginFirst ==
    upgraded /\ Receive \in {"GETNEWID", "LOGIN"} => ~accepted /\ owed = {} /\ pending = {}

SessionInv == Offline /\ Unregistered /\ Registered /\ IdentityComes /\ LoginFirst

\* At most one frame waits, and it is the one that is run next.
OneWaits == \A f, g \in pending : f = g
WaitingInv == ~overtaken => PendingIsCurrent /\ OneWaits

\* What an answer is due to, overtaken or not.
AskedInv ==
    /\ command \in Latching \cup {"READGASACK"} => Receive # "none"
    /\ upgraded /\ Receive \in {"READGAS", "READGASACK", "SETPPM", "LEDCOLOR"} =>
         \E f \in pending : f.cmd = AskOf(Receive)

LEMMA SessionInitially == Init => SessionInv /\ WaitingInv /\ AskedInv
  BY DEF Init, SessionInv, Offline, Unregistered, Registered, IdentityComes, LoginFirst,
     WaitingInv, PendingIsCurrent, OneWaits, AskedInv, Latching, NoPayload

\* The server's answer was owed, so the device's own command is out.
LEMMA AckKeepsSession ==
    ASSUME TypeOK, SessionInv, NEW c \in Acks, ServerAnswers(c) PROVE SessionInv'
<1> DEFINE f == AckFrame(c)
<1>1. /\ upgraded /\ c \in owed /\ WebRecvData_Proc(f) /\ f.cmd = c /\ f.src = Server
      /\ owed' = owed \ {c} /\ accepted' = (accepted \/ c = "LOGINACK")
      /\ UNCHANGED <<learnt, LOGINOK, upgraded>>
  BY DEF ServerAnswers, WebRecvData_Proc, AckFrame
<1>2. UNCHANGED <<Dev_ID, primaryKey>>
  BY <1>1 DEF learnt
<1>3. Receive \notin {"GETNEWID", "LOGIN"}
  BY <1>1 DEF SessionInv, LoginFirst
<1>4. CASE Dev_ID.of = "none"
  <2>1. c = "NEWIDACK" /\ Readable(f) /\ ~LOGINOK /\ ~accepted /\ pending' = pending \cup {f}
    BY <1>1, <1>4 DEF SessionInv, Unregistered, Readable, WebRecvData_Proc
  <2>2. command' = "NEWIDACK" /\ Receive' = "NEWIDACK" /\ mems'.of = "NEWIDACK" /\ owed' = {}
    BY <1>1, <1>4, <2>1 DEF SessionInv, Unregistered, WebRecvData_Proc, Latching, Payload
  <2>. QED BY <1>1, <1>2, <1>4, <2>1, <2>2
           DEF SessionInv, Offline, Unregistered, Registered, IdentityComes, LoginFirst
<1>5. CASE Dev_ID.of # "none"
  <2>1. c # "NEWIDACK" /\ {command, Receive} \cap {"GETNEWID", "NEWIDACK"} = {}
    BY <1>1, <1>5 DEF SessionInv, Registered
  <2>2. command' \in {c, "none"} /\ Receive' \in {c, Receive}
    BY <1>1 DEF WebRecvData_Proc
  <2>3. {command', Receive'} \cap {"GETNEWID", "NEWIDACK", "LOGIN"} = {}
    BY <1>3, <2>1, <2>2 DEF Acks
  <2>4. "NEWIDACK" \notin owed'
    BY <1>1, <1>5 DEF SessionInv, Registered
  <2>. QED BY <1>1, <1>2, <1>5, <2>3, <2>4
           DEF SessionInv, Offline, Unregistered, Registered, IdentityComes, LoginFirst
<1>. QED BY <1>4, <1>5

\* An app is heard only in a session whose login was accepted.
LEMMA AskKeepsSession ==
    ASSUME TypeOK, SessionInv, NEW a \in Apps, NEW c \in Requests, NEW v \in Limits \cup {0},
           AppAsks(a, c, v)
    PROVE  SessionInv'
<1>1. /\ upgraded /\ accepted /\ UNCHANGED <<learnt, LOGINOK, upgraded, owed, accepted>>
      /\ command' \in {c, "none"} /\ Receive' \in {c, Receive}
  BY DEF AppAsks, WebRecvData_Proc
<1>2. Dev_ID.of # "none" /\ Dev_ID' = Dev_ID
  BY <1>1 DEF SessionInv, Unregistered, learnt
<1>3. Receive \notin {"GETNEWID", "LOGIN"} /\ {command, Receive} \cap {"GETNEWID", "NEWIDACK"} = {}
  BY <1>1, <1>2 DEF SessionInv, LoginFirst, Registered
<1>4. {command', Receive'} \cap {"GETNEWID", "NEWIDACK", "LOGIN"} = {}
  BY <1>1, <1>3 DEF Requests
<1>. QED BY <1>1, <1>2, <1>4
         DEF SessionInv, Offline, Unregistered, Registered, IdentityComes, LoginFirst

\* A pass that ends with nothing latched, and adds at most the answer to what
\* it has just sent.
LEMMA PassKeepsSession ==
    ASSUME TypeOK, SessionInv, WebSocketOK, Dev_ID.of # "none", Dev_ID' = Dev_ID,
           NEW l \in {"none", "READGASACK"}, NEW b, NEW fl,
           Reflash(l, l, b, fl), UNCHANGED <<upgraded, accepted>>,
           pending' \subseteq pending,
           owed' = owed \/ (upgraded /\ \E c \in {"LOGINACK", "HEARTRATEACK"} : owed' = owed \cup {c})
    PROVE  SessionInv'
<1>1. command' \in {l, "HEARTRATE", "UPDATEPPM"} /\ Receive' = l
  BY DEF Reflash
<1>2. "NEWIDACK" \notin owed'
  BY DEF SessionInv, Registered
<1>3. ~upgraded => owed' = {} /\ pending' = {} /\ ~accepted
  BY DEF SessionInv, Offline
<1>. QED BY <1>1, <1>2, <1>3
         DEF SessionInv, Offline, Unregistered, Registered, IdentityComes, LoginFirst

\* Without an identity, what runs is its registration or nothing.
LEMMA RunsRegistration ==
    ASSUME SessionInv, NEW c, Running(c), c \notin {"none", "GETNEWID", "NEWIDACK"}
    PROVE  Dev_ID.of # "none"
  BY DEF SessionInv, Unregistered, Running, Current

LEMMA SessionInductive == TypeOK /\ SessionInv /\ [Next]_vars => SessionInv'
<1> SUFFICES ASSUME TypeOK, SessionInv, [Next]_vars PROVE SessionInv'
  OBVIOUS
<1> USE DEF Idle, PassUnchanged
<1>1. CASE Upgrade
  <2>1. /\ ~upgraded /\ upgraded' /\ ~accepted' /\ UNCHANGED <<Dev_ID, LOGINOK, owed, pending>>
        /\ command' = Receive'
        /\ Receive' = IF Dev_ID.of = "none" THEN "GETNEWID" ELSE "LOGIN"
    BY <1>1 DEF Upgrade, learnt
  <2>2. owed' = {} /\ pending' = {}
    BY <2>1 DEF SessionInv, Offline
  <2>. QED BY <2>1, <2>2
           DEF SessionInv, Offline, Unregistered, Registered, IdentityComes, LoginFirst
<1>2. CASE Disconnect
  BY <1>2 DEF Disconnect, slot, learnt,
     SessionInv, Offline, Unregistered, Registered, IdentityComes, LoginFirst
<1>3. CASE HttpResultOk
  BY <1>3 DEF HttpResultOk, slot, learnt, server,
     SessionInv, Offline, Unregistered, Registered, IdentityComes, LoginFirst
<1>4. ASSUME NEW c \in Acks, ServerAnswers(c) PROVE SessionInv'
  BY <1>4, AckKeepsSession
<1>5. ASSUME NEW a \in Apps, NEW c \in Requests, NEW v \in Limits \cup {0}, AppAsks(a, c, v)
      PROVE SessionInv'
  BY <1>5, AskKeepsSession
<1>6. CASE Pass
  <2>1. CASE RunGetNewId
    <3>1. Dev_ID.of = "none" /\ Dev_ID' = Dev_ID /\ "NEWIDACK" \notin {command, Receive}
      BY <2>1 DEF RunGetNewId, Running, Current, SessionInv, Registered, IdentityComes, learnt
    <3>2. ~LOGINOK' /\ command' = "none" /\ Receive' = "none"
      BY <2>1, <3>1 DEF RunGetNewId, Reflash, SessionInv, Unregistered
    <3>. QED BY <2>1, <3>1, <3>2 DEF RunGetNewId, Owe,
             SessionInv, Offline, Unregistered, Registered, IdentityComes, LoginFirst
  <2>2. CASE RunNewIdAck
    <3>1. Current = "NEWIDACK" /\ "NEWIDACK" \in {command, Receive}
      BY <2>2 DEF RunNewIdAck, Running, Current
    <3>2. Dev_ID.of = "none" /\ owed = {} /\ mems.of = "NEWIDACK"
      BY <3>1 DEF SessionInv, Registered, IdentityComes
    <3>3. ~LOGINOK /\ ~accepted /\ \A f \in pending : f.cmd = "NEWIDACK" /\ f.src = Server
      BY <3>2 DEF SessionInv, Unregistered
    <3>4. pending' = {}
      BY <2>2, <3>3 DEF RunNewIdAck, Settle
    <3>5. Dev_ID'.of = "NEWIDACK" /\ command' = "LOGIN" /\ Receive' = "LOGIN" /\ ~LOGINOK'
      BY <2>2, <3>2, <3>3 DEF RunNewIdAck, Reflash
    <3>. QED BY <2>2, <3>2, <3>3, <3>4, <3>5 DEF RunNewIdAck,
             SessionInv, Offline, Unregistered, Registered, IdentityComes, LoginFirst
  <2>3. CASE RunLogin
    BY <2>3, PassKeepsSession, RunsRegistration DEF RunLogin, Owe, Running, learnt
  <2>4. CASE RunLoginAck
    <3>1. Dev_ID.of # "none"
      BY <2>4, RunsRegistration DEF RunLoginAck
    <3>2. /\ WebSocketOK /\ Reflash("none", "none", TRUE, flag_Time)
          /\ UNCHANGED <<Dev_ID, upgraded, accepted, owed>> /\ pending' \subseteq pending
      BY <2>4, SettleRemoves DEF RunLoginAck, Running
    <3>. QED BY <3>1, <3>2, PassKeepsSession
  <2>5. CASE RunReadGas
    BY <2>5, PassKeepsSession, RunsRegistration DEF RunReadGas, Running, learnt
  <2>6. CASE RunReadGasAck
    BY <2>6, PassKeepsSession, RunsRegistration, SettleRemoves DEF RunReadGasAck, Running, learnt
  <2>7. CASE RunSetPpm
    BY <2>7, PassKeepsSession, RunsRegistration, SettleRemoves DEF RunSetPpm, Running
  <2>8. CASE RunLedColor
    BY <2>8, PassKeepsSession, RunsRegistration, SettleRemoves DEF RunLedColor, Running, learnt
  <2>9. CASE RunHeartrate
    <3>1. Receive = "none"
      BY <2>9 DEF RunHeartrate, Running, Current, TypeOK, Latching, Own
    <3>. QED BY <2>9, <3>1, PassKeepsSession, RunsRegistration DEF RunHeartrate, Owe, Running, learnt
  <2>10. CASE RunHeartrateAck
    BY <2>10, PassKeepsSession, RunsRegistration, SettleRemoves DEF RunHeartrateAck, Running, learnt
  <2>11. CASE RunUpdatePpm
    BY <2>11, PassKeepsSession, RunsRegistration DEF RunUpdatePpm, Running, learnt
  <2>12. CASE RunStopAlarm
    BY <2>12, PassKeepsSession, RunsRegistration, SettleRemoves DEF RunStopAlarm, Running, learnt
  <2>13. CASE RunNothing
    <3>1. CASE Dev_ID.of # "none"
      BY <2>13, <3>1, PassKeepsSession DEF RunNothing, Running, learnt
    <3>2. CASE Dev_ID.of = "none"
      <4>1. command' = "none" /\ Receive' = "none" /\ ~LOGINOK'
        BY <2>13, <3>2 DEF RunNothing, Reflash, SessionInv, Unregistered
      <4>. QED BY <2>13, <3>2, <4>1 DEF RunNothing, learnt,
               SessionInv, Offline, Unregistered, Registered, IdentityComes, LoginFirst
    <3>. QED BY <3>1, <3>2
  <2>. QED BY <1>6, <2>1, <2>2, <2>3, <2>4, <2>5, <2>6, <2>7, <2>8, <2>9, <2>10, <2>11,
              <2>12, <2>13 DEF Pass
<1>7. CASE Minute
  BY <1>7 DEF Minute, slot, learnt, server,
     SessionInv, Offline, Unregistered, Registered, IdentityComes, LoginFirst
<1>8. CASE UNCHANGED vars
  BY <1>8 DEF vars, slot, learnt, server,
     SessionInv, Offline, Unregistered, Registered, IdentityComes, LoginFirst
<1>. QED BY <1>1, <1>2, <1>3, <1>4, <1>5, <1>6, <1>7, <1>8 DEF Next, Receiving

-----------------------------------------------------------------------------
\* A frame that overtakes nothing is what the next pass runs.
LEMMA FrameIsCurrent ==
    ASSUME TypeOK, SlotInv, SessionInv, NEW f \in Frames, WebRecvData_Proc(f), owed # {} \/ accepted
    PROVE  WaitingInv'
<1> SUFFICES ASSUME ~overtaken' PROVE PendingIsCurrent' /\ OneWaits'
  BY DEF WaitingInv
<1>1. upgraded /\ pending = {} /\ ~overtaken
  BY DEF WebRecvData_Proc, TypeOK
<1>2. Receive \notin Latching \cup {"READGASACK"}
  BY <1>1 DEF SlotInv, AskerKept
<1>3. Receive \notin {"GETNEWID", "LOGIN"}
  BY <1>1 DEF SessionInv, LoginFirst
<1>4. Receive = "none"
  BY <1>2, <1>3 DEF TypeOK, Own
<1>5. CASE Readable(f)
  <2>1. command' = f.cmd /\ Receive' \in {f.cmd, "none"} /\ pending' = {f}
    BY <1>1, <1>4, <1>5 DEF WebRecvData_Proc
  <2>. QED BY <2>1 DEF PendingIsCurrent, OneWaits, Current
<1>6. CASE ~Readable(f)
  BY <1>1, <1>6 DEF WebRecvData_Proc, PendingIsCurrent, OneWaits
<1>. QED BY <1>5, <1>6

\* A pass that settles what it has run leaves nothing waiting; one that runs
\* no frame found nothing waiting.
LEMMA PassSettles ==
    ASSUME WaitingInv, NEW c, Current = c, overtaken' = overtaken,
           \/ \E d : c # "READGASACK" /\ Settle(c, d)
           \/ \E d : c = "READGASACK" /\ Settle("READGAS", d)
           \/ pending' = pending /\ c \notin Acks \cup Requests \cup {"READGASACK"},
           pending \subseteq Frames
    PROVE  WaitingInv'
<1> SUFFICES ASSUME ~overtaken PROVE pending' = {}
  BY DEF WaitingInv, PendingIsCurrent, OneWaits
<1>1. OneWaits /\ \A f \in pending : f.cmd = IF c = "READGASACK" THEN "READGAS" ELSE c
  <2>1. \A f \in pending : c = f.cmd \/ (f.cmd = "READGAS" /\ c = "READGASACK")
    BY DEF WaitingInv, PendingIsCurrent
  <2>2. \A f \in pending : f.cmd # "READGASACK"
    BY DEF Frames, Acks, Requests
  <2>. QED BY <2>1, <2>2 DEF WaitingInv
<1>2. ASSUME NEW d, NEW k, k = (IF c = "READGASACK" THEN "READGAS" ELSE c), Settle(k, d)
      PROVE  pending' = {}
  <2>1. \A f \in pending : f.cmd = k
    BY <1>1, <1>2
  <2>2. CASE pending = {}
    BY <1>2, <2>2 DEF Settle
  <2>3. CASE pending # {}
    <3>1. PICK f : pending = {f}
      BY <1>1, <2>3 DEF OneWaits
    <3>. QED BY <1>2, <2>1, <3>1 DEF Settle
  <2>. QED BY <2>2, <2>3
<1>3. CASE pending' = pending /\ c \notin Acks \cup Requests \cup {"READGASACK"}
  BY <1>1, <1>3 DEF Frames
<1>. QED BY <1>2, <1>3

LEMMA WaitingInductive == TypeOK /\ SlotInv /\ SessionInv /\ WaitingInv /\ [Next]_vars => WaitingInv'
<1> SUFFICES ASSUME TypeOK, SlotInv, SessionInv, WaitingInv, [Next]_vars PROVE WaitingInv'
  OBVIOUS
<1> USE DEF PassUnchanged
<1>0. pending \subseteq Frames
  BY DEF TypeOK
<1>1. CASE Upgrade
  <2>1. pending' = {}
    BY <1>1 DEF Upgrade, SessionInv, Offline
  <2>. QED BY <2>1 DEF WaitingInv, PendingIsCurrent, OneWaits
<1>2. CASE Disconnect
  BY <1>2 DEF Disconnect, WaitingInv, PendingIsCurrent, OneWaits
<1>3. CASE HttpResultOk
  BY <1>3 DEF HttpResultOk, WaitingInv, PendingIsCurrent, OneWaits, Current, slot
<1>4. ASSUME NEW c \in Acks, ServerAnswers(c) PROVE WaitingInv'
  BY <1>4, AckFrameTyped, FrameIsCurrent DEF ServerAnswers
<1>5. ASSUME NEW a \in Apps, NEW c \in Requests, NEW v \in Limits \cup {0}, AppAsks(a, c, v)
      PROVE WaitingInv'
  BY <1>5, RequestTyped, FrameIsCurrent DEF AppAsks
<1>6. CASE Pass
  <2>1. CASE RunGetNewId
    BY <1>0, <2>1, PassSettles DEF RunGetNewId, Running, Acks, Requests
  <2>2. CASE RunNewIdAck
    BY <1>0, <2>2, PassSettles DEF RunNewIdAck, Running
  <2>3. CASE RunLogin
    BY <1>0, <2>3, PassSettles DEF RunLogin, Running, Acks, Requests
  <2>4. CASE RunLoginAck
    BY <1>0, <2>4, PassSettles DEF RunLoginAck, Running
  <2>5. CASE RunReadGas
    <3>1. Current = "READGAS" /\ Current' = "READGASACK" /\ UNCHANGED <<pending, overtaken>>
      BY <2>5 DEF RunReadGas, Running, Reflash, Current
    <3>2. ASSUME ~overtaken PROVE \A f \in pending : f.cmd = "READGAS"
      BY <3>1, <3>2 DEF WaitingInv, PendingIsCurrent
    <3>. QED BY <3>1, <3>2 DEF WaitingInv, PendingIsCurrent, OneWaits
  <2>6. CASE RunReadGasAck
    BY <1>0, <2>6, PassSettles DEF RunReadGasAck, Running
  <2>7. CASE RunSetPpm
    BY <1>0, <2>7, PassSettles DEF RunSetPpm, Running
  <2>8. CASE RunLedColor
    BY <1>0, <2>8, PassSettles DEF RunLedColor, Running
  <2>9. CASE RunHeartrate
    BY <1>0, <2>9, PassSettles DEF RunHeartrate, Running, Acks, Requests
  <2>10. CASE RunHeartrateAck
    BY <1>0, <2>10, PassSettles DEF RunHeartrateAck, Running
  <2>11. CASE RunUpdatePpm
    BY <1>0, <2>11, PassSettles DEF RunUpdatePpm, Running, Acks, Requests
  <2>12. CASE RunStopAlarm
    BY <1>0, <2>12, PassSettles DEF RunStopAlarm, Running
  <2>13. CASE RunNothing
    BY <1>0, <2>13, PassSettles DEF RunNothing, Running, Acks, Requests
  <2>. QED BY <1>6, <2>1, <2>2, <2>3, <2>4, <2>5, <2>6, <2>7, <2>8, <2>9, <2>10, <2>11,
              <2>12, <2>13 DEF Pass
<1>7. CASE Minute
  BY <1>7 DEF Minute, WaitingInv, PendingIsCurrent, OneWaits, Current, slot
<1>8. CASE UNCHANGED vars
  BY <1>8 DEF vars, WaitingInv, PendingIsCurrent, OneWaits, Current, slot
<1>. QED BY <1>1, <1>2, <1>3, <1>4, <1>5, <1>6, <1>7, <1>8 DEF Next, Receiving

\* A frame that waits is what the next pass runs, unless another has
\* overtaken it: no earlier session's latch, no periodic command, no
\* unreadable frame gets in between.
THEOREM WaitingRunsNext == Spec => []PendingIsCurrent
<1>1. WaitingInv => PendingIsCurrent
  BY DEF WaitingInv, PendingIsCurrent
<1>. QED BY <1>1, TypeCorrect, SlotInitially, SlotInductive, SessionInitially, SessionInductive,
            WaitingInductive, PTL DEF Spec

-----------------------------------------------------------------------------
\* A frame adds its own request to those that wait, and latches nothing else.
LEMMA FrameKeepsAsked ==
    ASSUME AskedInv, NEW f \in Frames, WebRecvData_Proc(f) PROVE AskedInv'
<1>1. CASE Readable(f)
  <2>1. command' = f.cmd /\ pending' = pending \cup {f} /\ upgraded' = upgraded
        /\ Receive' = IF f.cmd \in Latching THEN f.cmd ELSE Receive
    BY <1>1 DEF WebRecvData_Proc
  <2>2. f.cmd \notin {"READGASACK", "none"}
    BY DEF Frames, Acks, Requests
  <2>. QED BY <2>1, <2>2 DEF AskedInv, AskOf, Latching
<1>2. CASE ~Readable(f)
  BY <1>2 DEF WebRecvData_Proc, AskedInv, Latching
<1>. QED BY <1>1, <1>2

\* A pass that leaves nothing latched, or only a login.
LEMMA PassKeepsAsked ==
    ASSUME NEW c \in {"none", "LOGIN"}, NEW l \in {"none", "LOGIN"}, c = "none" \/ l = "LOGIN",
           NEW b, NEW fl, Reflash(c, l, b, fl)
    PROVE  AskedInv'
<1>1. command' \in {"none", "LOGIN", "HEARTRATE", "UPDATEPPM"} /\ Receive' \in {"none", "LOGIN"}
  BY DEF Reflash
<1>. QED BY <1>1 DEF AskedInv, Latching

LEMMA AskedInductive == TypeOK /\ SessionInv /\ AskedInv /\ [Next]_vars => AskedInv'
<1> SUFFICES ASSUME TypeOK, SessionInv, AskedInv, [Next]_vars PROVE AskedInv'
  OBVIOUS
<1> USE DEF Idle
<1>1. CASE Upgrade
  BY <1>1 DEF Upgrade, AskedInv, Latching
<1>2. CASE Disconnect
  BY <1>2 DEF Disconnect, AskedInv, slot
<1>3. CASE HttpResultOk
  BY <1>3 DEF HttpResultOk, AskedInv, slot, server
<1>4. ASSUME NEW c \in Acks, ServerAnswers(c) PROVE AskedInv'
  BY <1>4, AckFrameTyped, FrameKeepsAsked DEF ServerAnswers
<1>5. ASSUME NEW a \in Apps, NEW c \in Requests, NEW v \in Limits \cup {0}, AppAsks(a, c, v)
      PROVE AskedInv'
  BY <1>5, RequestTyped, FrameKeepsAsked DEF AppAsks
<1>6. CASE Pass
  <2>1. CASE RunReadGas
    <3>1. command' \in {"READGASACK", "HEARTRATE", "UPDATEPPM"} /\ Receive' = "READGASACK"
      BY <2>1 DEF RunReadGas, Reflash
    <3>2. Receive = "READGAS" /\ UNCHANGED <<pending, upgraded>>
      BY <2>1 DEF RunReadGas, Running, Current, PassUnchanged, AskedInv, Latching
    <3>. QED BY <3>1, <3>2 DEF AskedInv, AskOf
  <2>2. CASE RunHeartrate
    <3>1. Receive = "none"
      BY <2>2 DEF RunHeartrate, Running, Current, TypeOK, Latching, Own
    <3>. QED BY <2>2, <3>1, PassKeepsAsked DEF RunHeartrate
  <2>3. CASE RunGetNewId \/ RunNewIdAck \/ RunLogin \/ RunLoginAck \/ RunReadGasAck
    BY <2>3, PassKeepsAsked DEF RunGetNewId, RunNewIdAck, RunLogin, RunLoginAck, RunReadGasAck
  <2>4. CASE RunSetPpm \/ RunLedColor \/ RunHeartrateAck \/ RunUpdatePpm \/ RunStopAlarm
    BY <2>4, PassKeepsAsked DEF RunSetPpm, RunLedColor, RunHeartrateAck, RunUpdatePpm, RunStopAlarm
  <2>5. CASE RunNothing
    BY <2>5, PassKeepsAsked DEF RunNothing
  <2>. QED BY <1>6, <2>1, <2>2, <2>3, <2>4, <2>5 DEF Pass
<1>7. CASE Minute
  BY <1>7 DEF Minute, AskedInv, slot, server
<1>8. CASE UNCHANGED vars
  BY <1>8 DEF vars, AskedInv, slot, server
<1>. QED BY <1>1, <1>2, <1>3, <1>4, <1>5, <1>6, <1>7, <1>8 DEF Next, Receiving

\* Overtaken or not, an answer has a request of its kind behind it.
LEMMA AnswersAsked ==
    ASSUME TypeOK, AskedInv, [Next]_vars, ~(UNCHANGED vars), sent'.cmd \in Answers
    PROVE  \E f \in pending : AnswerTo(f.cmd) = sent'.cmd
<1>1. sent' # Silence
  BY DEF Silence, Answers
<1>2. Pass
  BY <1>1 DEF Next, Receiving, Minute, Upgrade, Disconnect, HttpResultOk, ServerAnswers, AppAsks,
     WebRecvData_Proc
<1>3. ASSUME NEW c \in {"READGASACK", "SETPPM", "LEDCOLOR"}, Running(c)
      PROVE  upgraded => \E f \in pending : f.cmd = AskOf(c)
  BY <1>3 DEF Running, Current, AskedInv, Latching
<1>4. CASE RunReadGasAck
  BY <1>1, <1>3, <1>4 DEF RunReadGasAck, Send, AskOf, AnswerTo
<1>5. CASE RunSetPpm
  BY <1>1, <1>3, <1>5 DEF RunSetPpm, Send, AskOf, AnswerTo
<1>6. CASE RunLedColor
  BY <1>1, <1>3, <1>6 DEF RunLedColor, Send, AskOf, AnswerTo
<1>7. CASE RunGetNewId \/ RunLogin \/ RunHeartrate \/ RunUpdatePpm
  BY <1>1, <1>7 DEF RunGetNewId, RunLogin, RunHeartrate, RunUpdatePpm, Send, Answers
<1>. QED BY <1>1, <1>2, <1>4, <1>5, <1>6, <1>7 DEF Pass, RunNewIdAck, RunLoginAck, RunReadGas,
            RunHeartrateAck, RunStopAlarm, RunNothing

\* Answers go to who asked and to nobody else; and even when frames overtake
\* the main loop, the device never answers what nobody has asked.
THEOREM OnlyAnswers == Spec => AnswersAreAsked
<1>1. TypeOK /\ SlotInv /\ AskedInv /\ [Next]_vars =>
        [sent'.cmd \in Answers =>
           /\ \E f \in pending : AnswerTo(f.cmd) = sent'.cmd
           /\ ~overtaken =>
                \E f \in pending : f.src = sent'.dst /\ AnswerTo(f.cmd) = sent'.cmd]_vars
  BY AnswersSlot, AnswersAsked
<1>. QED BY <1>1, TypeCorrect, SlotInitially, SlotInductive, SessionInitially, SessionInductive,
            AskedInductive, PTL DEF Spec, AnswersAreAsked

-----------------------------------------------------------------------------
LEMMA IpNumbers ==
    /\ NETS \cap {"any", "all", "none", "multicast", "far"} = {} /\ HOSTS \cap {"all", "other"} = {}
    /\ IP_FORWARD \in BOOLEAN /\ CONNECTIONS \in Nat
  BY PartsAssumption DEF I!IpAssumption

LEMMA LeastExists ==
    ASSUME NEW Z \in SUBSET Nat, Z # {}
    PROVE  \E x \in Z : \A y \in Z : x <= y
<1>1. \E x \in Z : \A y \in Z : ~(<<y, x>> \in OpToRel(<, Nat))
  BY NatLessThanWellFounded, WFMin
<1>2. PICK x \in Z : \A y \in Z : ~(<<y, x>> \in OpToRel(<, Nat))
  BY <1>1
<1>3. \A y \in Z : ~(y < x)
  BY <1>2 DEF OpToRel
<1>. QED BY <1>3

\* A list in which nothing is twice.
Distinct(s) == \A k, l \in 1..Len(s) : s[k] = s[l] => k = l

\* What is left of a list when an element is taken out.
LEMMA TakenOut ==
    ASSUME NEW T, NEW s \in Seq(T), Distinct(s), NEW e
    PROVE  LET r == I!RemoveFirst(s, e)
           IN r \in Seq(T) /\ Distinct(r) /\ I!ToSet(r) = I!ToSet(s) \ {e}
<1> DEFINE r == I!RemoveFirst(s, e)
           Z == {i \in 1..Len(s) : s[i] = e}
           k == CHOOSE x \in Z : \A y \in Z : x =< y
<1> SUFFICES r \in Seq(T) /\ Distinct(r) /\ I!ToSet(r) = I!ToSet(s) \ {e}
  OBVIOUS
<1>0. Len(s) \in Nat /\ DOMAIN s = 1..Len(s)
  BY LenProperties
<1>1. CASE Z = {}
  <2>1. r = s
    BY <1>1 DEF I!RemoveFirst
  <2>2. e \notin I!ToSet(s)
    BY <1>0, <1>1 DEF I!ToSet
  <2> HIDE DEF r
  <2>. QED BY <2>1, <2>2
<1>2. CASE Z # {}
  <2>1. k \in 1..Len(s) /\ s[k] = e
    <3>1. \E x \in Z : \A y \in Z : x =< y
      <4>1. Z \in SUBSET Nat
        BY <1>0
      <4> HIDE DEF Z
      <4>. QED BY <1>2, <4>1, LeastExists
    <3>. QED BY <3>1
  <2>2. r = SubSeq(s, 1, k - 1) \o SubSeq(s, k + 1, Len(s))
    BY <1>2 DEF I!RemoveFirst, I!RemoveAt, I!SelectInSeq, I!Min
  <2> HIDE DEF r, k, Z
  <2> DEFINE p == SubSeq(s, 1, k - 1)
             q == SubSeq(s, k + 1, Len(s))
  <2>3. p \in Seq(T) /\ Len(p) = k - 1 /\ \A i \in 1..(k - 1) : p[i] = s[i]
    <3>1. k - 1 \in Int /\ 1 \in Int /\ \A i \in 1..(k - 1) : s[i] \in T
      BY <1>0, <2>1, ElementOfSeq
    <3>2. p \in Seq(T) /\ Len(p) = (IF 1 <= k - 1 THEN k - 1 - 1 + 1 ELSE 0)
          /\ \A i \in 1..(k - 1 - 1 + 1) : p[i] = s[1 + i - 1]
      BY <3>1, SubSeqProperties
    <3> HIDE DEF p
    <3>. QED BY <1>0, <2>1, <3>2
  <2>4. q \in Seq(T) /\ Len(q) = Len(s) - k /\ \A i \in 1..(Len(s) - k) : q[i] = s[k + i]
    <3>1. k + 1 \in Int /\ Len(s) \in Int /\ \A i \in (k + 1)..Len(s) : s[i] \in T
      BY <1>0, <2>1, ElementOfSeq
    <3>2. q \in Seq(T) /\ Len(q) = (IF k + 1 <= Len(s) THEN Len(s) - (k + 1) + 1 ELSE 0)
          /\ \A i \in 1..(Len(s) - (k + 1) + 1) : q[i] = s[(k + 1) + i - 1]
      BY <3>1, SubSeqProperties
    <3> HIDE DEF q
    <3>3. Len(q) = Len(s) - k
      <4>1. Len(q) = IF k + 1 <= Len(s) THEN Len(s) - (k + 1) + 1 ELSE 0
        BY <3>2
      <4> DEFINE L == Len(s)
      <4>2. L \in Nat /\ k \in 1..L
        BY <1>0, <2>1
      <4> HIDE DEF L
      <4>3. CASE k + 1 <= L
        BY <4>1, <4>2, <4>3 DEF L
      <4>4. CASE ~(k + 1 <= L)
        <5>1. Len(q) = 0
          BY <4>1, <4>4 DEF L
        <5>2. k = L
          BY <4>2, <4>4
        <5>. QED BY <1>0, <5>1, <5>2 DEF L
      <4>. QED BY <4>3, <4>4
    <3>4. ASSUME NEW i \in 1..(Len(s) - k) PROVE q[i] = s[k + i]
      <4>1. (k + 1) + i - 1 = k + i /\ i \in 1..(Len(s) - (k + 1) + 1)
        BY <1>0, <2>1
      <4>. QED BY <3>2, <4>1
    <3>. QED BY <3>2, <3>3, <3>4
  <2>b. r = p \o q
    BY <2>2
  <2> HIDE DEF p, q
  <2>5. /\ r \in Seq(T) /\ Len(r) = Len(s) - 1
        /\ \A i \in 1..Len(r) : r[i] = IF i < k THEN s[i] ELSE s[i + 1]
    <3>1. /\ r \in Seq(T) /\ Len(r) = Len(p) + Len(q)
          /\ \A i \in 1..(Len(p) + Len(q)) : r[i] = IF i <= Len(p) THEN p[i] ELSE q[i - Len(p)]
      BY <2>b, <2>3, <2>4, ConcatProperties
    <3>2. Len(r) = Len(s) - 1
      BY <1>0, <2>1, <2>3, <2>4, <3>1
    <3>3. ASSUME NEW i \in 1..Len(r) PROVE r[i] = IF i < k THEN s[i] ELSE s[i + 1]
      <4>1. CASE i < k
        BY <1>0, <2>1, <2>3, <2>4, <3>1, <3>2, <4>1
      <4>2. CASE ~(i < k)
        <5>1. i - Len(p) \in 1..(Len(s) - k) /\ k + (i - Len(p)) = i + 1 /\ ~(i <= Len(p))
          BY <1>0, <2>1, <2>3, <3>2, <4>2
        <5>2. i \in 1..(Len(p) + Len(q))
          BY <3>1
        <5>3. r[i] = q[i - Len(p)]
          BY <3>1, <5>1, <5>2
        <5>. QED BY <2>4, <4>2, <5>1, <5>3
      <4>. QED BY <4>1, <4>2
    <3>. QED BY <3>1, <3>2, <3>3
  <2>6. Distinct(r)
    BY <1>0, <2>1, <2>5 DEF Distinct
  <2>7. DOMAIN r = 1..Len(r)
    BY <2>5, LenProperties
  <2>8. I!ToSet(r) = I!ToSet(s) \ {e}
    <3>1. ASSUME NEW x \in I!ToSet(s), x # e PROVE x \in I!ToSet(r)
      <4>1. PICK i \in 1..Len(s) : s[i] = x
        BY <1>0, <3>1 DEF I!ToSet
      <4>2. i # k
        BY <2>1, <3>1, <4>1
      <4>3. CASE i < k
        BY <1>0, <2>1, <2>5, <2>7, <4>1, <4>3 DEF I!ToSet
      <4>4. CASE i > k
        <5>1. i - 1 \in 1..Len(r) /\ r[i - 1] = x
          BY <1>0, <2>1, <2>5, <4>1, <4>4
        <5>. QED BY <2>7, <5>1 DEF I!ToSet
      <4>. QED BY <1>0, <2>1, <4>2, <4>3, <4>4
    <3>2. ASSUME NEW x \in I!ToSet(r) PROVE x \in I!ToSet(s) \ {e}
      <4>1. PICK i \in 1..Len(r) : r[i] = x
        BY <2>7 DEF I!ToSet
      <4> DEFINE j == IF i < k THEN i ELSE i + 1
      <4>2. j \in 1..Len(s) /\ s[j] = x /\ j # k
        BY <1>0, <2>1, <2>5, <4>1
      <4>3. x # e
        BY <2>1, <4>2 DEF Distinct
      <4> HIDE DEF j
      <4>. QED BY <1>0, <4>2, <4>3 DEF I!ToSet
    <3>. QED BY <3>1, <3>2
  <2>. QED BY <2>5, <2>6, <2>8
<1>. QED BY <1>1, <1>2

\* A list with one more in front.
LEMMA PutInFront ==
    ASSUME NEW T, NEW s \in Seq(T), Distinct(s), NEW e \in T, e \notin I!ToSet(s)
    PROVE  LET r == <<e>> \o s
           IN r \in Seq(T) /\ Distinct(r) /\ I!ToSet(r) = I!ToSet(s) \cup {e}
<1> DEFINE r == <<e>> \o s
<1>0. Len(s) \in Nat /\ DOMAIN s = 1..Len(s) /\ <<e>> \in Seq(T) /\ Len(<<e>>) = 1 /\ <<e>>[1] = e
  BY LenProperties
<1>1. /\ r \in Seq(T) /\ Len(r) = Len(s) + 1
      /\ \A i \in 1..Len(r) : r[i] = IF i = 1 THEN e ELSE s[i - 1]
  BY <1>0, ConcatProperties
<1>2. DOMAIN r = 1..Len(r)
  BY <1>1, LenProperties
<1> HIDE DEF r
<1>3. \A i \in 1..Len(s) : s[i] # e
  BY <1>0 DEF I!ToSet
<1>4. Distinct(r)
  <2> SUFFICES ASSUME NEW i \in 1..Len(r), NEW j \in 1..Len(r), r[i] = r[j] PROVE i = j
    BY DEF Distinct
  <2>1. CASE i = 1 \/ j = 1
    BY <1>0, <1>1, <1>3, <2>1
  <2>2. CASE i # 1 /\ j # 1
    <3>1. i - 1 \in 1..Len(s) /\ j - 1 \in 1..Len(s) /\ s[i - 1] = s[j - 1]
      BY <1>0, <1>1, <2>2
    <3>. QED BY <3>1 DEF Distinct
  <2>. QED BY <2>1, <2>2
<1>5. I!ToSet(r) = I!ToSet(s) \cup {e}
  <2>1. ASSUME NEW x \in I!ToSet(s) PROVE x \in I!ToSet(r)
    <3>1. PICK i \in 1..Len(s) : s[i] = x
      BY <1>0 DEF I!ToSet
    <3>2. i + 1 \in 1..Len(r) /\ r[i + 1] = x
      BY <1>0, <1>1, <3>1
    <3>. QED BY <1>2, <3>2 DEF I!ToSet
  <2>2. e \in I!ToSet(r)
    <3>1. 1 \in 1..Len(r) /\ r[1] = e
      BY <1>0, <1>1
    <3>. QED BY <1>2, <3>1 DEF I!ToSet
  <2>3. ASSUME NEW x \in I!ToSet(r), x # e PROVE x \in I!ToSet(s)
    <3>1. PICK i \in 1..Len(r) : r[i] = x
      BY <1>2 DEF I!ToSet
    <3>2. i - 1 \in 1..Len(s) /\ s[i - 1] = x
      BY <1>0, <1>1, <2>3, <3>1
    <3>. QED BY <1>0, <3>2 DEF I!ToSet
  <2>. QED BY <2>1, <2>2, <2>3
<1>. QED BY <1>1, <1>4, <1>5 DEF r

\* A list in which nothing is twice is as long as the set of what is in it.
LEMMA CountsAlike == \A Z : I!Cardinality(Z) = Cardinality(Z)
  BY DEF I!Cardinality, Cardinality
LEMMA AsMany ==
    ASSUME NEW T, NEW s \in Seq(T), Distinct(s)
    PROVE  I!Cardinality(I!ToSet(s)) = Len(s)
<1> DEFINE f == [k \in 1..Len(s) |-> s[k]]
           Z == I!ToSet(s)
<1>0. Len(s) \in Nat /\ DOMAIN s = 1..Len(s)
  BY LenProperties
<1>1. f \in Bijection(1..Len(s), Z)
  <2>1. f \in [1..Len(s) -> Z]
    BY <1>0 DEF I!ToSet
  <2>2. \A a, b \in 1..Len(s) : f[a] = f[b] => a = b
    BY DEF Distinct
  <2>3. \A x \in Z : \E a \in 1..Len(s) : f[a] = x
    BY <1>0 DEF I!ToSet
  <2> HIDE DEF f, Z
  <2>. QED BY <2>1, <2>2, <2>3 DEF Bijection, Injection, Surjection, IsInjective
<1>2. ExistsBijection(1..Len(s), Z)
  BY <1>1 DEF ExistsBijection
<1>3. IsFiniteSet(1..Len(s)) /\ Cardinality(1..Len(s)) = Len(s)
  <2> DEFINE L == Len(s)
  <2>1. L \in Nat
    BY <1>0
  <2> HIDE DEF L
  <2>2. IsFiniteSet(1..L) /\ Cardinality(1..L) = IF 1 > L THEN 0 ELSE L - 1 + 1
    BY <2>1, FS_Interval
  <2>3. IsFiniteSet(1..L) /\ Cardinality(1..L) = L
    BY <2>1, <2>2
  <2>. QED BY <2>3 DEF L
<1> HIDE DEF Z
<1>4. Cardinality(Z) = Len(s)
  BY <1>2, <1>3, FS_Bijection
<1>. QED BY <1>4, CountsAlike DEF Z

-----------------------------------------------------------------------------
(* The netifs and IP.                                                       *)

Addresses == I!ADDRESSES \cup {I!ANY}
Interfaces == [ip : Addresses, up : BOOLEAN, member : BOOLEAN]
IpInv ==
    /\ netif_list \in Seq(I!Netifs) /\ Distinct(netif_list)
    /\ ifs \in [I!Netifs -> Interfaces] /\ \A n \in I!Netifs : ifs[n].up => n \in I!Listed
    /\ netif_default \in I!Listed \cup {I!NONE}
    /\ active \in [1..CONNECTIONS -> Addresses \cup {I!NO_ADDRESS}]
    /\ listening \in Addresses \cup {I!NO_ADDRESS} /\ gone \subseteq I!ADDRESSES
    /\ I!AddressesFollow

\* Addresses are told apart by their nets and hosts.
LEMMA AddressesApart ==
    /\ \A a \in I!ADDRESSES :
         /\ a.net \in NETS /\ a.host \in HOSTS /\ a.host # "all" /\ a.host # "other"
         /\ a \notin {I!ANY, I!LIMITED, I!GROUP, I!NO_ADDRESS}
         /\ \A x : a # [net |-> x, host |-> "all"]
    /\ I!ANY # I!LIMITED /\ I!ANY # I!GROUP /\ I!ANY # I!NO_ADDRESS /\ I!ANY.net = "any"
    /\ I!LIMITED # I!GROUP /\ I!GROUP.host = "group"
    /\ \A x : I!GROUP # [net |-> x, host |-> "all"]
<1>1. ASSUME NEW a \in I!ADDRESSES
      PROVE  /\ a.net \in NETS /\ a.host \in HOSTS /\ a.host # "all" /\ a.host # "other"
             /\ a \notin {I!ANY, I!LIMITED, I!GROUP, I!NO_ADDRESS}
             /\ \A x : a # [net |-> x, host |-> "all"]
  <2>1. a.net \in NETS /\ a.host \in HOSTS /\ a.host # "all" /\ a.host # "other" /\ a.net \notin {"any", "all", "none", "multicast"}
    BY IpNumbers DEF I!ADDRESSES
  <2>. QED BY <2>1 DEF I!ANY, I!LIMITED, I!GROUP, I!NO_ADDRESS
<1>2. /\ I!ANY # I!LIMITED /\ I!ANY # I!GROUP /\ I!ANY # I!NO_ADDRESS /\ I!ANY.net = "any"
      /\ I!LIMITED # I!GROUP /\ I!GROUP.host = "group"
  <2>1. I!ANY.net = "any" /\ I!LIMITED.net = "all" /\ I!GROUP.net = "multicast" /\ I!NO_ADDRESS.net = "none" /\ I!GROUP.host = "group"
    BY DEF I!ANY, I!LIMITED, I!GROUP, I!NO_ADDRESS
  <2>. QED BY <2>1
<1>3. \A x : I!GROUP # [net |-> x, host |-> "all"]
  <2>1. ASSUME NEW x PROVE I!GROUP # [net |-> x, host |-> "all"]
    <3>1. [net |-> x, host |-> "all"].host = "all" /\ I!GROUP.host = "group"
      BY DEF I!GROUP
    <3>. QED BY <3>1
  <2>. QED BY <2>1
<1>. QED BY <1>1, <1>2, <1>3

LEMMA InList ==
    ASSUME IpInv
    PROVE  /\ I!Listed \subseteq I!Netifs /\ I!NONE \notin I!Netifs
           /\ Len(netif_list) \in Nat /\ I!Listed = {netif_list[k] : k \in 1..Len(netif_list)}
<1>1. netif_list \in Seq(I!Netifs)
  BY DEF IpInv
<1>2. Len(netif_list) \in Nat /\ DOMAIN netif_list = 1..Len(netif_list)
      /\ \A k \in 1..Len(netif_list) : netif_list[k] \in I!Netifs
  BY <1>1, LenProperties, ElementOfSeq
<1>. QED BY <1>2 DEF I!Listed, I!ToSet, I!Netifs, I!NONE

\* The first of the list that will do.
LEMMA FirstIs ==
    ASSUME IpInv, NEW good
    PROVE  \/ I!First(good) = I!NONE /\ good \cap I!Listed = {}
           \/ I!First(good) \in good \cap I!Listed
<1> DEFINE up == {k \in 1..Len(netif_list) : netif_list[k] \in good}
<1>1. CASE up = {}
  BY <1>1, InList DEF I!First
<1>2. CASE up # {}
  <2>1. \E k \in up : \A l \in up : k <= l
    <3>1. up \in SUBSET Nat
      BY InList
    <3> HIDE DEF up
    <3>. QED BY <1>2, <3>1, LeastExists
  <2>2. (CHOOSE k \in up : \A l \in up : k <= l) \in up
    BY <2>1
  <2>. QED BY <1>2, <2>2, InList DEF I!First
<1>. QED BY <1>1, <1>2

LEMMA IpInitially == I!Init => IpInv
<1> SUFFICES ASSUME I!Init PROVE IpInv
  OBVIOUS
<1>1. netif_list = <<>> /\ netif_list \in Seq(I!Netifs) /\ Distinct(netif_list)
  BY EmptySeq DEF I!Init, Distinct
<1>2. ifs \in [I!Netifs -> Interfaces] /\ \A n \in I!Netifs : ifs[n].up => n \in I!Listed
  BY DEF I!Init, I!Down, Interfaces, Addresses
<1>. QED BY <1>1, <1>2, IpNumbers DEF I!Init, IpInv, I!AddressesFollow, Addresses

\* Addresses follow a netif that gets another one.
Follow(is, acts, lis, went) ==
    /\ \A c \in DOMAIN acts : acts[c] \in {I!NO_ADDRESS} \cup went \cup {is[n].ip : n \in I!Netifs}
    /\ lis \in {I!NO_ADDRESS, I!ANY} \cup went \cup {is[n].ip : n \in I!Netifs}

LEMMA MovedFollow ==
    ASSUME IpInv, NEW n \in I!Netifs, NEW old \in Addresses, NEW new \in Addresses, I!Moved(old, new),
           NEW is \in [I!Netifs -> Interfaces], is[n].ip = new,
           \A m \in I!Netifs \ {n} : is[m].ip = ifs[m].ip,
           NEW went \in SUBSET I!ADDRESSES, gone \subseteq went,
           ifs[n].ip = old \/ ifs[n].ip \in went
    PROVE  /\ active' \in [1..CONNECTIONS -> Addresses \cup {I!NO_ADDRESS}]
           /\ listening' \in Addresses \cup {I!NO_ADDRESS}
           /\ Follow(is, active', listening', went)
<1>1. active' \in [1..CONNECTIONS -> Addresses \cup {I!NO_ADDRESS}] /\ listening' \in Addresses \cup {I!NO_ADDRESS}
  BY DEF I!Moved, IpInv
<1>2. ASSUME NEW c \in 1..CONNECTIONS
      PROVE  active'[c] \in {I!NO_ADDRESS} \cup went \cup {is[m].ip : m \in I!Netifs}
  <2>1. active[c] \in {I!NO_ADDRESS} \cup gone \cup {ifs[m].ip : m \in I!Netifs}
    BY DEF IpInv, I!AddressesFollow
  <2>2. (active'[c] = active[c] /\ (old = new \/ active[c] # old)) \/ active'[c] = I!NO_ADDRESS
    BY DEF I!Moved, IpInv
  <2>3. CASE active[c] \in {ifs[m].ip : m \in I!Netifs} /\ active'[c] = active[c] /\ (old = new \/ active[c] # old)
    <3>1. PICK m \in I!Netifs : active[c] = ifs[m].ip
      BY <2>3
    <3>2. CASE m # n
      BY <2>3, <3>1, <3>2
    <3>3. CASE m = n
      BY <2>3, <3>1, <3>3
    <3>. QED BY <3>2, <3>3
  <2>. QED BY <2>1, <2>2, <2>3
<1>3. listening' \in {I!NO_ADDRESS, I!ANY} \cup went \cup {is[m].ip : m \in I!Netifs}
  <2>1. listening \in {I!NO_ADDRESS, I!ANY} \cup gone \cup {ifs[m].ip : m \in I!Netifs}
    BY DEF IpInv, I!AddressesFollow
  <2>2. (listening' = new /\ listening = old) \/ (listening' = listening /\ (listening # old \/ old = I!ANY))
    <3>1. listening' = IF listening = old /\ old # I!ANY THEN new ELSE listening
      BY DEF I!Moved
    <3>2. CASE listening = old /\ old # I!ANY
      BY <3>1, <3>2
    <3>3. CASE ~(listening = old /\ old # I!ANY)
      BY <3>1, <3>3
    <3>. QED BY <3>2, <3>3
  <2>3. CASE listening' = new
    BY <2>3
  <2>4. CASE listening' = listening /\ (listening # old \/ old = I!ANY) /\ listening \in {ifs[m].ip : m \in I!Netifs}
    <3>1. PICK m \in I!Netifs : listening = ifs[m].ip
      BY <2>4
    <3>2. CASE m # n
      BY <2>4, <3>1, <3>2
    <3>3. CASE m = n
      BY <2>4, <3>1, <3>3
    <3>. QED BY <3>2, <3>3
  <2>. QED BY <2>1, <2>2, <2>3, <2>4
<1>4. DOMAIN active' = 1..CONNECTIONS
  BY <1>1
<1>. QED BY <1>1, <1>2, <1>3, <1>4 DEF Follow

\* The inductive invariant from its parts.
LEMMA IpInvPrime ==
    ASSUME netif_list' \in Seq(I!Netifs), Distinct(netif_list'),
           ifs' \in [I!Netifs -> Interfaces], \A n \in I!Netifs : ifs'[n].up => n \in I!ToSet(netif_list'),
           netif_default' \in I!ToSet(netif_list') \cup {I!NONE},
           active' \in [1..CONNECTIONS -> Addresses \cup {I!NO_ADDRESS}],
           listening' \in Addresses \cup {I!NO_ADDRESS}, gone' \subseteq I!ADDRESSES,
           Follow(ifs', active', listening', gone')
    PROVE  IpInv'
  BY DEF IpInv, I!Listed, I!AddressesFollow, Follow

LEMMA IpParts ==
    ASSUME IpInv
    PROVE  /\ netif_list \in Seq(I!Netifs) /\ Distinct(netif_list)
           /\ ifs \in [I!Netifs -> Interfaces] /\ \A n \in I!Netifs : ifs[n].up => n \in I!ToSet(netif_list)
           /\ netif_default \in I!ToSet(netif_list) \cup {I!NONE}
           /\ active \in [1..CONNECTIONS -> Addresses \cup {I!NO_ADDRESS}]
           /\ listening \in Addresses \cup {I!NO_ADDRESS} /\ gone \subseteq I!ADDRESSES
           /\ Follow(ifs, active, listening, gone)
           /\ I!ToSet(netif_list) \subseteq I!Netifs
  BY InList DEF IpInv, I!Listed, I!AddressesFollow, Follow

LEMMA AddrSet ==
    ASSUME IpInv, NEW n \in I!Netifs, n \in I!Listed, NEW ip \in Addresses, I!netif_set_addr(n, ip)
    PROVE  IpInv'
<1>1. /\ ifs' = [ifs EXCEPT ![n].ip = ip] /\ I!Moved(ifs[n].ip, ip)
      /\ netif_list' = netif_list /\ netif_default' = netif_default /\ gone' = gone
  BY DEF I!netif_set_addr
<1>2. ifs[n] \in Interfaces /\ ifs[n].ip \in Addresses /\ gone \in SUBSET I!ADDRESSES
  BY IpParts DEF Interfaces
<1>3. /\ ifs' \in [I!Netifs -> Interfaces] /\ ifs'[n].ip = ip
      /\ \A m \in I!Netifs : ifs'[m].up = ifs[m].up /\ (m # n => ifs'[m].ip = ifs[m].ip)
  BY <1>1, <1>2, IpParts DEF Interfaces
<1>4. /\ active' \in [1..CONNECTIONS -> Addresses \cup {I!NO_ADDRESS}]
      /\ listening' \in Addresses \cup {I!NO_ADDRESS} /\ Follow(ifs', active', listening', gone)
  <2> DEFINE old == ifs[n].ip
             is == ifs'
  <2>1. I!Moved(old, ip) /\ old \in Addresses /\ is \in [I!Netifs -> Interfaces] /\ is[n].ip = ip
    BY <1>1, <1>2, <1>3
  <2>2. \A m \in I!Netifs \ {n} : is[m].ip = ifs[m].ip
    BY <1>3
  <2>3. ifs[n].ip = old
    OBVIOUS
  <2>4. gone \in SUBSET I!ADDRESSES /\ gone \subseteq gone
    BY <1>2
  <2> HIDE DEF old, is
  <2>5. Follow(is, active', listening', gone) /\ active' \in [1..CONNECTIONS -> Addresses \cup {I!NO_ADDRESS}]
        /\ listening' \in Addresses \cup {I!NO_ADDRESS}
    BY <2>1, <2>2, <2>3, <2>4, MovedFollow
  <2>. QED BY <2>5 DEF is
<1>. QED BY <1>1, <1>3, <1>4, IpParts, IpInvPrime

LEMMA NetifAdded ==
    ASSUME IpInv, NEW n \in I!Netifs, NEW ip \in Addresses, I!netif_add(n, ip)
    PROVE  IpInv'
<1>1. /\ n \notin I!Listed /\ ifs' = [ifs EXCEPT ![n] = [I!Down EXCEPT !.ip = ip]] /\ I!Moved(I!ANY, ip)
      /\ netif_list' \in {netif_list, <<n>> \o netif_list} /\ netif_default' = netif_default
      /\ gone' = gone \cup ({ifs[n].ip} \ {I!ANY})
  BY DEF I!netif_add
<1>2. ifs[n].ip \in Addresses /\ I!ANY \in Addresses /\ gone' \in SUBSET I!ADDRESSES /\ gone \subseteq gone'
  BY <1>1, IpParts DEF Interfaces, Addresses
<1>3. /\ ifs' \in [I!Netifs -> Interfaces] /\ ifs'[n].ip = ip /\ ~ifs'[n].up
      /\ \A m \in I!Netifs : m # n => ifs'[m] = ifs[m]
  BY <1>1, IpParts DEF Interfaces, I!Down
<1>4. /\ active' \in [1..CONNECTIONS -> Addresses \cup {I!NO_ADDRESS}]
      /\ listening' \in Addresses \cup {I!NO_ADDRESS} /\ Follow(ifs', active', listening', gone')
  <2> DEFINE is == ifs'
             went == gone'
  <2>1. /\ I!Moved(I!ANY, ip) /\ I!ANY \in Addresses /\ is \in [I!Netifs -> Interfaces] /\ is[n].ip = ip
        /\ went \in SUBSET I!ADDRESSES /\ gone \subseteq went
    BY <1>1, <1>2, <1>3
  <2>2. \A m \in I!Netifs \ {n} : is[m].ip = ifs[m].ip
    BY <1>3
  <2>3. ifs[n].ip = I!ANY \/ ifs[n].ip \in went
    BY <1>1
  <2> HIDE DEF is, went
  <2>4. Follow(is, active', listening', went) /\ active' \in [1..CONNECTIONS -> Addresses \cup {I!NO_ADDRESS}]
        /\ listening' \in Addresses \cup {I!NO_ADDRESS}
    BY <2>1, <2>2, <2>3, MovedFollow
  <2>. QED BY <2>4 DEF is, went
<1>5. /\ netif_list' \in Seq(I!Netifs) /\ Distinct(netif_list') /\ I!ToSet(netif_list) \subseteq I!ToSet(netif_list')
  <2>1. netif_list \in Seq(I!Netifs) /\ Distinct(netif_list) /\ n \notin I!ToSet(netif_list)
    BY <1>1, IpParts DEF I!Listed
  <2>2. CASE netif_list' = netif_list
    BY <2>1, <2>2
  <2>3. CASE netif_list' = <<n>> \o netif_list
    <3> DEFINE r == <<n>> \o netif_list
    <3>1. r \in Seq(I!Netifs) /\ Distinct(r) /\ I!ToSet(r) = I!ToSet(netif_list) \cup {n}
      BY <2>1, PutInFront
    <3> HIDE DEF r
    <3>2. netif_list' = r
      BY <2>3 DEF r
    <3>. QED BY <3>1, <3>2
  <2>. QED BY <1>1, <2>2, <2>3
<1>6. \A m \in I!Netifs : ifs'[m].up => m \in I!ToSet(netif_list')
  BY <1>3, <1>5, IpParts
<1>7. netif_default' \in I!ToSet(netif_list') \cup {I!NONE}
  BY <1>1, <1>5, IpParts
<1>. QED BY <1>2, <1>3, <1>4, <1>5, <1>6, <1>7, IpInvPrime

LEMMA NetifRemoved ==
    ASSUME IpInv, NEW n \in I!Netifs, I!netif_remove(n)
    PROVE  IpInv'
<1>1. /\ netif_list' = I!RemoveFirst(netif_list, n) /\ active' = active /\ listening' = listening
      /\ netif_default' = IF netif_default = n THEN I!NONE ELSE netif_default
      /\ ifs' = [ifs EXCEPT ![n].up = FALSE, ![n].member = FALSE]
      /\ gone' = gone \cup ({ifs[n].ip} \ {I!ANY})
  BY DEF I!netif_remove
<1>2. ifs[n] \in Interfaces /\ gone' \in SUBSET I!ADDRESSES /\ gone \subseteq gone'
  BY <1>1, IpParts DEF Interfaces, Addresses
<1>3. /\ ifs' \in [I!Netifs -> Interfaces] /\ ~ifs'[n].up /\ \A m \in I!Netifs : ifs'[m].ip = ifs[m].ip
      /\ \A m \in I!Netifs : m # n => ifs'[m] = ifs[m]
  BY <1>1, <1>2, IpParts DEF Interfaces
<1>4. Follow(ifs', active', listening', gone')
  BY <1>1, <1>2, <1>3, IpParts DEF Follow
<1>5. /\ netif_list' \in Seq(I!Netifs) /\ Distinct(netif_list') /\ I!ToSet(netif_list') = I!ToSet(netif_list) \ {n}
  BY <1>1, IpParts, TakenOut
<1>6. \A m \in I!Netifs : ifs'[m].up => m \in I!ToSet(netif_list')
  BY <1>3, <1>5, IpParts
<1>7. netif_default' \in I!ToSet(netif_list') \cup {I!NONE}
  BY <1>1, <1>5, IpParts
<1>. QED BY <1>1, <1>2, <1>3, <1>4, <1>5, <1>6, <1>7, IpParts, IpInvPrime

LEMMA NetifSwitched ==
    ASSUME IpInv, NEW n \in I!Netifs,
           I!netif_set_default(n) \/ I!netif_set_up(n) \/ I!netif_set_down(n) \/ I!Joined(n)
    PROVE  IpInv'
<1>1. /\ netif_list' = netif_list /\ active' = active /\ listening' = listening /\ gone' = gone
      /\ n \in I!ToSet(netif_list)
      /\ netif_default' \in {n, netif_default}
      /\ \/ ifs' = ifs \/ ifs' = [ifs EXCEPT ![n].up = TRUE] \/ ifs' = [ifs EXCEPT ![n].up = FALSE]
         \/ ifs' = [ifs EXCEPT ![n].member = ~@]
  BY DEF I!netif_set_default, I!netif_set_up, I!netif_set_down, I!Joined, I!Listed
<1>2. ifs[n] \in Interfaces
  BY IpParts
<1>3. /\ ifs' \in [I!Netifs -> Interfaces] /\ \A m \in I!Netifs : ifs'[m].ip = ifs[m].ip
      /\ \A m \in I!Netifs : m # n => ifs'[m] = ifs[m]
  <2>1. ifs \in [I!Netifs -> Interfaces]
    BY IpParts
  <2>2. CASE ifs' = ifs
    BY <2>1, <2>2
  <2>3. CASE ifs' = [ifs EXCEPT ![n].up = TRUE]
    BY <1>2, <2>1, <2>3 DEF Interfaces
  <2>5. CASE ifs' = [ifs EXCEPT ![n].up = FALSE]
    BY <1>2, <2>1, <2>5 DEF Interfaces
  <2>4. CASE ifs' = [ifs EXCEPT ![n].member = ~@]
    <3> DEFINE b == ~ifs[n].member
    <3>1. b \in BOOLEAN /\ ifs' = [ifs EXCEPT ![n].member = b]
      BY <2>4
    <3> HIDE DEF b
    <3>. QED BY <1>2, <2>1, <3>1 DEF Interfaces
  <2>. QED BY <1>1, <2>2, <2>3, <2>4, <2>5
<1>4. Follow(ifs', active', listening', gone')
  BY <1>1, <1>3, IpParts DEF Follow
<1>5. \A m \in I!Netifs : ifs'[m].up => m \in I!ToSet(netif_list')
  BY <1>1, <1>3, IpParts
<1>. QED BY <1>1, <1>3, <1>4, <1>5, IpParts, IpInvPrime

\* A netif a datagram is sent by.
LEMMA RouteIs ==
    ASSUME IpInv, NEW dest
    PROVE  /\ I!ip_route(dest) # I!NONE => I!ip_route(dest) \in I!Listed /\ I!Up(I!ip_route(dest))
           /\ (\E n \in I!Listed : I!Up(n) /\ I!SameNet(dest, n)) =>
                I!ip_route(dest) # I!NONE /\ I!SameNet(dest, I!ip_route(dest))
<1> DEFINE good == {n \in I!Netifs : I!Up(n) /\ I!SameNet(dest, n)}
           near == I!First(good)
<1>1. \/ near = I!NONE /\ good \cap I!Listed = {}
      \/ near \in good \cap I!Listed
  BY FirstIs
<1>2. I!ip_route(dest) =
        IF near # I!NONE THEN near
        ELSE IF "sta" \in I!Listed /\ I!Up("sta") /\ ~I!ip_addr_isbroadcast(dest, "sta") THEN "sta"
        ELSE IF I!Up(netif_default) THEN netif_default ELSE I!NONE
  BY DEF I!ip_route
<1>3. I!Up(netif_default) => netif_default \in I!Listed
  BY InList DEF IpInv, I!Up
<1>4. \A n \in good : I!Up(n) /\ I!SameNet(dest, n)
  OBVIOUS
<1>5. (\E n \in I!Listed : I!Up(n) /\ I!SameNet(dest, n)) => good \cap I!Listed # {}
  BY InList
<1>6. near = I!NONE => near \notin I!Listed
  BY InList
<1> HIDE DEF near, good
<1>. QED BY <1>1, <1>2, <1>3, <1>4, <1>5, <1>6

\* The netif a datagram is for.
LEMMA AcceptingIs ==
    ASSUME IpInv, NEW d, d.dst # I!GROUP, NEW inp \in I!Listed
    PROVE  LET n == I!Accepting(d, inp)
           IN \/ n = I!NONE /\ \A m \in I!Listed : ~I!Mine(m, d)
              \/ n \in I!Listed /\ I!Mine(n, d)
<1> DEFINE good == {n \in I!Netifs \ {inp} : I!Mine(n, d)}
<1>1. \/ I!First(good) = I!NONE /\ good \cap I!Listed = {}
      \/ I!First(good) \in good \cap I!Listed
  BY FirstIs
<1>2. I!Accepting(d, inp) = IF I!Mine(inp, d) THEN inp ELSE I!First(good)
  BY DEF I!Accepting
<1>3. \A m \in I!Listed : m # inp /\ I!Mine(m, d) => m \in good
  BY InList
<1>4. \A m \in good : I!Mine(m, d)
  OBVIOUS
<1> HIDE DEF good
<1>. QED BY <1>1, <1>2, <1>3, <1>4

\* An address of a host is nobody's broadcast.
LEMMA MineIs ==
    ASSUME NEW d, d.dst \in I!ADDRESSES, NEW n
    PROVE  /\ ~I!ip_addr_isbroadcast(d.dst, n)
           /\ I!Mine(n, d) <=> I!Up(n) /\ d.dst = ifs[n].ip
  BY AddressesApart DEF I!Mine, I!ip_addr_isbroadcast

LEMMA ConnectionsKeep ==
    ASSUME IpInv, I!Connection
    PROVE  IpInv'
<1>1. netif_list' = netif_list /\ netif_default' = netif_default /\ ifs' = ifs /\ gone' = gone
  BY DEF I!Connection, I!tcp_listen, I!tcp_close, I!tcp_connect, I!tcp_accept
<1>2. ASSUME active' = active, NEW ip \in {I!ANY} \cup {ifs[n].ip : n \in I!Listed}, listening' = ip
      PROVE  IpInv'
  <2>1. ip \in Addresses /\ ip \in {I!ANY} \cup {ifs[n].ip : n \in I!Netifs}
    <3>1. CASE ip = I!ANY
      BY <3>1 DEF Addresses
    <3>2. CASE ip # I!ANY
      <4>1. PICK n \in I!Listed : ip = ifs[n].ip
        BY <3>2
      <4>2. n \in I!Netifs /\ ifs[n] \in Interfaces
        BY IpParts, InList
      <4>. QED BY <4>1, <4>2 DEF Interfaces
    <3>. QED BY <3>1, <3>2
  <2>2. Follow(ifs', active', listening', gone')
    BY <1>1, <1>2, <2>1, IpParts DEF Follow
  <2>. QED BY <1>1, <1>2, <2>1, <2>2, IpParts, IpInvPrime
<1>3. ASSUME listening' = listening, NEW c \in 1..CONNECTIONS,
             NEW ip \in {I!NO_ADDRESS} \cup {ifs[n].ip : n \in I!Netifs}, active' = [active EXCEPT ![c] = ip]
      PROVE  IpInv'
  <2>1. ip \in Addresses \cup {I!NO_ADDRESS}
    <3>1. CASE ip # I!NO_ADDRESS
      <4>1. PICK n \in I!Netifs : ip = ifs[n].ip
        BY <3>1
      <4>2. ifs[n] \in Interfaces
        BY IpParts
      <4>. QED BY <4>1, <4>2 DEF Interfaces
    <3>. QED BY <3>1
  <2>2. active' \in [1..CONNECTIONS -> Addresses \cup {I!NO_ADDRESS}] /\ DOMAIN active' = 1..CONNECTIONS
        /\ \A x \in 1..CONNECTIONS : active'[x] = IF x = c THEN ip ELSE active[x]
    BY <1>3, <2>1, IpParts
  <2>3. \A x \in DOMAIN active : active[x] \in {I!NO_ADDRESS} \cup gone \cup {ifs[n].ip : n \in I!Netifs}
    BY IpParts DEF Follow
  <2>4. DOMAIN active = 1..CONNECTIONS
    BY IpParts
  <2>5. Follow(ifs', active', listening', gone')
    BY <1>1, <1>3, <2>2, <2>3, <2>4, IpParts DEF Follow
  <2>. QED BY <1>1, <1>3, <2>2, <2>5, IpParts, IpInvPrime
<1>4. CASE \E ip \in {I!ANY} \cup {ifs[n].ip : n \in I!Listed} : I!tcp_listen(ip)
  BY <1>2, <1>4 DEF I!tcp_listen
<1>5. ASSUME NEW c \in 1..CONNECTIONS, I!tcp_close(c) PROVE IpInv'
  BY <1>3, <1>5 DEF I!tcp_close
<1>6. ASSUME NEW c \in 1..CONNECTIONS, NEW dest, I!tcp_connect(c, dest) PROVE IpInv'
  <2>1. I!ip_route(dest) \in I!Netifs
    BY <1>6, RouteIs, InList DEF I!tcp_connect
  <2>2. ifs[I!ip_route(dest)].ip \in {I!NO_ADDRESS} \cup {ifs[n].ip : n \in I!Netifs}
    BY <2>1
  <2>. QED BY <1>3, <1>6, <2>2 DEF I!tcp_connect
<1>7. ASSUME NEW c \in 1..CONNECTIONS, NEW d \in I!Segments, NEW inp \in I!Listed, I!tcp_accept(c, d, inp) PROVE IpInv'
  <2>1. d.dst \in I!ADDRESSES /\ d.proto = "tcp" /\ d.dst # I!GROUP
    BY AddressesApart DEF I!Segments
  <2>2. I!Accepting(d, inp) # I!NONE
    BY <1>7, <2>1 DEF I!tcp_accept, I!ip_input, I!LinkLayerAddressed
  <2>3. PICK n \in I!Listed : I!Mine(n, d)
    BY <2>1, <2>2, AcceptingIs
  <2>4. n \in I!Netifs /\ d.dst = ifs[n].ip
    BY <2>1, <2>3, MineIs, InList
  <2>5. d.dst \in {I!NO_ADDRESS} \cup {ifs[m].ip : m \in I!Netifs}
    BY <2>4
  <2>6. active' = [active EXCEPT ![c] = d.dst] /\ listening' = listening
    BY <1>7 DEF I!tcp_accept
  <2>. QED BY <1>3, <2>5, <2>6
<1>. QED BY <1>4, <1>5, <1>6, <1>7 DEF I!Connection

LEMMA IpInductive == IpInv /\ [I!Next]_ipVars => IpInv'
<1> SUFFICES ASSUME IpInv, [I!Next]_ipVars PROVE IpInv'
  OBVIOUS
<1>1. CASE I!Change
  <2>1. PICK n \in I!Netifs :
          \/ I!netif_remove(n) \/ I!netif_set_default(n) \/ I!netif_set_up(n) \/ I!netif_set_down(n) \/ I!Joined(n)
          \/ \E ip \in I!ADDRESSES \cup {I!ANY} : I!netif_add(n, ip) \/ (n \in I!Listed /\ I!netif_set_addr(n, ip))
    BY <1>1 DEF I!Change
  <2>. QED BY <2>1, NetifRemoved, NetifSwitched, NetifAdded, AddrSet DEF Addresses
<1>2. CASE I!Connection
  BY <1>2, ConnectionsKeep
<1>3. CASE UNCHANGED ipVars
  BY <1>3 DEF ipVars, IpInv, I!Listed, I!AddressesFollow
<1>. QED BY <1>1, <1>2, <1>3 DEF I!Next

LEMMA IpTyped == IpInv => I!TypeOK
<1> SUFFICES ASSUME IpInv PROVE I!TypeOK
  OBVIOUS
<1>1. I!Listed \subseteq I!Netifs /\ I!Cardinality(I!Listed) = Len(netif_list)
  BY IpParts, InList, AsMany DEF I!Listed
<1>2. \A n \in I!Netifs : ifs[n].ip \in I!ADDRESSES \cup {I!ANY}
  BY IpParts DEF Interfaces, Addresses
<1>. QED BY <1>1, <1>2, IpParts DEF I!TypeOK, Addresses

LEMMA RoutesAreSound == IpInv => I!Routed
<1> SUFFICES ASSUME IpInv, NEW dest \in I!Destinations
             PROVE  /\ I!ip_route(dest) # I!NONE => I!ip_route(dest) \in I!Listed /\ I!Up(I!ip_route(dest))
                    /\ (\E n \in I!Listed : I!Up(n) /\ ifs[n].ip.net = dest.net) =>
                         /\ I!ip_route(dest) # I!NONE
                         /\ ifs[I!ip_route(dest)].ip = I!ANY \/ ifs[I!ip_route(dest)].ip.net = dest.net
  BY DEF I!Routed
<1>1. ASSUME NEW n \in I!Listed, I!Up(n), ifs[n].ip.net = dest.net
      PROVE  /\ I!ip_route(dest) # I!NONE
             /\ ifs[I!ip_route(dest)].ip = I!ANY \/ ifs[I!ip_route(dest)].ip.net = dest.net
  <2>1. I!SameNet(dest, n)
    BY <1>1 DEF I!SameNet
  <2>2. I!ip_route(dest) # I!NONE /\ I!SameNet(dest, I!ip_route(dest))
    BY <1>1, <2>1, RouteIs
  <2>. QED BY <2>2 DEF I!SameNet
<1>. QED BY <1>1, RouteIs

\* What becomes of a datagram that arrives.
LEMMA InputIs ==
    ASSUME NEW d, NEW inp
    PROVE  /\ I!ip_input(d, inp) \in {"dropped", "taken", "forward"}
           /\ I!ip_input(d, inp) = "taken" <=>
                ~I!SourceRefused(d, inp) /\ (I!Accepting(d, inp) # I!NONE \/ I!LinkLayerAddressed(d, inp))
           /\ I!ip_input(d, inp) = "forward" => ~I!ip_addr_isbroadcast(d.dst, inp)
<1>1. CASE I!SourceRefused(d, inp)
  <2>1. I!ip_input(d, inp) = "dropped"
    BY <1>1 DEF I!ip_input
  <2>. QED BY <1>1, <2>1
<1>2. CASE ~I!SourceRefused(d, inp) /\ (I!Accepting(d, inp) # I!NONE \/ I!LinkLayerAddressed(d, inp))
  <2>1. I!ip_input(d, inp) = "taken"
    BY <1>2 DEF I!ip_input
  <2>. QED BY <1>2, <2>1
<1>3. CASE ~I!SourceRefused(d, inp) /\ ~(I!Accepting(d, inp) # I!NONE \/ I!LinkLayerAddressed(d, inp))
  <2>1. I!ip_input(d, inp) = IF IP_FORWARD /\ ~I!ip_addr_isbroadcast(d.dst, inp) THEN "forward" ELSE "dropped"
    BY <1>3 DEF I!ip_input
  <2>. QED BY <1>3, <2>1
<1>. QED BY <1>1, <1>2, <1>3

LEMMA DeliveriesAreSound == IpInv => I!Delivered
<1> SUFFICES ASSUME IpInv, NEW d \in I!Passing, NEW inp \in {n \in I!Listed : I!Up(n)}
             PROVE  /\ d.proto = "tcp" /\ d.dst \in I!ADDRESSES =>
                         (I!ip_input(d, inp) = "taken" <=> d.dst \in {ifs[n].ip : n \in {m \in I!Listed : I!Up(m)}})
                    /\ I!ip_input(d, inp) = "forward" => I!ip_forward(d, inp).out # inp
  BY DEF I!Delivered
<1>1. ASSUME d.proto = "tcp", d.dst \in I!ADDRESSES
      PROVE  I!ip_input(d, inp) = "taken" <=> d.dst \in {ifs[n].ip : n \in {m \in I!Listed : I!Up(m)}}
  <2>1. d.src = [net |-> "far", host |-> "other"] /\ ~I!LinkLayerAddressed(d, inp)
    BY <1>1 DEF I!Passing, I!LinkLayerAddressed
  <2>2. ~I!SourceRefused(d, inp)
    <3>1. d.src.host = "other" /\ d.src.net = "far"
      BY <2>1
    <3>2. d.src # I!ANY /\ d.src # I!LIMITED /\ d.src # I!GROUP
      BY <3>1 DEF I!ANY, I!LIMITED, I!GROUP
    <3>3. d.src # [net |-> ifs[inp].ip.net, host |-> "all"]
      BY <3>1
    <3>. QED BY <3>2, <3>3 DEF I!SourceRefused, I!ip_addr_isbroadcast
  <2>3. d.dst # I!GROUP
    BY <1>1, AddressesApart
  <2>4. I!ip_input(d, inp) = "taken" <=> I!Accepting(d, inp) # I!NONE
    BY <2>1, <2>2, InputIs
  <2>5. I!Accepting(d, inp) # I!NONE <=> \E n \in I!Listed : I!Mine(n, d)
    BY <2>3, AcceptingIs, InList
  <2>6. \A n \in I!Listed : I!Mine(n, d) <=> I!Up(n) /\ d.dst = ifs[n].ip
    BY <1>1, MineIs
  <2>. QED BY <2>4, <2>5, <2>6
<1>2. ASSUME I!ip_input(d, inp) = "forward" PROVE I!ip_forward(d, inp).out # inp
  <2>1. inp # I!NONE
    BY InList
  <2>. QED BY <2>1 DEF I!ip_forward
<1>. QED BY <1>1, <1>2

\* What a netif does not see as a broadcast is not to all of its net.
LEMMA BroadcastIs ==
    ASSUME IpInv, NEW inp \in I!Netifs, NEW dst \in I!Destinations, ~I!ip_addr_isbroadcast(dst, inp)
    PROVE  dst # I!ANY /\ dst # I!LIMITED /\ dst # [net |-> ifs[inp].ip.net, host |-> "all"]
<1>1. dst # I!ANY /\ dst # I!LIMITED
  BY DEF I!ip_addr_isbroadcast
<1>2. ASSUME dst = [net |-> ifs[inp].ip.net, host |-> "all"] PROVE FALSE
  <2>1. dst.host = "all" /\ dst.net = ifs[inp].ip.net
    BY <1>2
  <2>2. dst # ifs[inp].ip
    <3>1. ifs[inp] \in Interfaces
      BY IpParts
    <3>2. ifs[inp].ip \in I!ADDRESSES \/ ifs[inp].ip = I!ANY
      BY <3>1 DEF Interfaces, Addresses
    <3>. QED BY <1>1, <1>2, <3>2, AddressesApart
  <2>3. ifs[inp].ip = I!ANY
    BY <1>2, <2>2 DEF I!ip_addr_isbroadcast
  <2>4. dst.net = "any"
    BY <2>1, <2>3 DEF I!ANY
  <2>5. dst.net \in NETS \cup {"far", "all", "multicast"}
    BY DEF I!Destinations, I!ADDRESSES, I!OTHERS, I!LIMITED, I!GROUP, I!Broadcasts
  <2>. QED BY <2>4, <2>5, IpNumbers
<1>. QED BY <1>1, <1>2

Meant(d, inp, a) ==
    /\ d.dst = I!GROUP => I!ip_input(d, inp) = "forward"
    /\ d.dst # I!LIMITED /\ d.dst # [net |-> ifs[inp].ip.net, host |-> "all"]
    /\ a.kind = "echo" /\ ~I!OthersBroadcast(d, inp) => a.src \in {ifs[n].ip : n \in {m \in I!Listed : I!Up(m)}}
    /\ a.kind = "error" => a.out \in I!Listed /\ I!Up(a.out)

LEMMA ErrorIs ==
    ASSUME IpInv, NEW d, NEW a \in I!icmp_send_response(d)
    PROVE  a.kind = "error" /\ a.out \in I!Listed /\ I!Up(a.out)
<1>1. I!ip_route(d.src) # I!NONE
  BY DEF I!icmp_send_response, I!ip_output
<1>2. a.kind = "error" /\ a.out = I!ip_route(d.src)
  BY <1>1 DEF I!icmp_send_response, I!ip_output, I!ip_output_if
<1>. QED BY <1>1, <1>2, RouteIs

LEMMA AnswersAreSound == IpInv => I!AnswersMeant
<1> SUFFICES ASSUME IpInv, NEW d \in I!Asking, NEW inp \in {n \in I!Listed : I!Up(n)}, NEW a \in I!Answers(d, inp)
             PROVE  Meant(d, inp, a)
  BY DEF I!AnswersMeant, Meant
<1>0. /\ d.dst \in I!Destinations /\ d.proto \in {"echo", "unknown"} /\ inp \in I!Listed /\ inp \in I!Netifs /\ I!Up(inp)
      /\ ~I!LinkLayerAddressed(d, inp)
  BY InList DEF I!Asking, I!LinkLayerAddressed
<1>1. CASE I!ip_input(d, inp) = "taken" /\ d.proto = "unknown" /\ d.dst # I!GROUP /\ ~I!ip_addr_isbroadcast(d.dst, inp)
  <2>1. a \in I!icmp_send_response(d)
    BY <1>1 DEF I!Answers
  <2>. QED BY <1>0, <1>1, <2>1, ErrorIs, BroadcastIs DEF Meant
<1>2. CASE I!ip_input(d, inp) = "taken"
           /\ ~(d.proto = "unknown" /\ d.dst # I!GROUP /\ ~I!ip_addr_isbroadcast(d.dst, inp))
  <2>1. a \in I!icmp_input(d, inp)
    BY <1>2 DEF I!Answers
  <2>2. /\ d.proto = "echo" /\ d.dst # I!GROUP /\ ~I!ip_addr_isbroadcast(d.dst, inp)
        /\ a \in I!ip_output_if("echo", d.dst, d.src, inp)
    BY <2>1 DEF I!icmp_input
  <2>3. /\ d.dst # I!ANY /\ d.dst # I!LIMITED /\ d.dst # [net |-> ifs[inp].ip.net, host |-> "all"]
    BY <1>0, <2>2, BroadcastIs
  <2>4. a.kind = "echo" /\ a.src = d.dst
    BY <2>2, <2>3 DEF I!ip_output_if
  <2>5. I!Accepting(d, inp) # I!NONE
    BY <1>0, <1>2, InputIs
  <2>6. PICK n \in I!Listed : I!Mine(n, d)
    BY <1>0, <2>2, <2>5, AcceptingIs
  <2>7. ASSUME ~I!OthersBroadcast(d, inp) PROVE a.src \in {ifs[m].ip : m \in {m \in I!Listed : I!Up(m)}}
    <3>1. n \in I!Netifs /\ I!Up(n)
      BY <2>6, InList DEF I!Mine
    <3>2. d.dst = ifs[n].ip
      BY <2>2, <2>6, <2>7, <3>1 DEF I!Mine, I!OthersBroadcast
    <3>. QED BY <2>4, <3>1, <3>2
  <2>. QED BY <2>2, <2>3, <2>4, <2>7 DEF Meant
<1>3. CASE I!ip_input(d, inp) = "forward"
  <2>1. a \in I!icmp_send_response(d)
    BY <1>3 DEF I!Answers
  <2>2. ~I!ip_addr_isbroadcast(d.dst, inp)
    BY <1>3, InputIs
  <2>. QED BY <1>0, <1>3, <2>1, <2>2, ErrorIs, BroadcastIs DEF Meant
<1>4. CASE I!ip_input(d, inp) = "dropped"
  BY <1>4 DEF I!Answers
<1>. QED BY <1>1, <1>2, <1>3, <1>4, InputIs

LEMMA NetifsAlone == [MCNext]_mcVars => [I!Next]_ipVars
  BY DEF MCNext, Others, mcVars

\* A datagram is sent by a netif that is up and near its receiver; what is sent
\* to an address of this host is taken, by whichever netif it comes, and what is
\* sent to nobody's is not; nobody but one who asked at an address of this host
\* is answered, and from it; and connections follow the addresses of the netifs
\* (ip.c, icmp.c, netif.c).  It is the half of StackSound that is about IP.
THEOREM IpIsSound == MCSpec => [](part = "ip" => I!TypeOK /\ I!IpSound)
<1>1. MCInit => IpInv
  BY IpInitially DEF MCInit
<1>2. IpInv /\ [MCNext]_mcVars => IpInv'
  BY NetifsAlone, IpInductive
<1>3. IpInv => I!TypeOK /\ I!IpSound
  BY IpTyped, RoutesAreSound, DeliveriesAreSound, AnswersAreSound DEF I!IpSound, IpInv
<1>. QED BY <1>1, <1>2, <1>3, PTL DEF MCSpec

=============================================================================
