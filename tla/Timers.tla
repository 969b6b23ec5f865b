------------------------------- MODULE Timers -------------------------------
(***************************************************************************)
(* lwIP's list of timeouts (core/timers.c): every entry keeps the time      *)
(* after the entry before it, and the first one the time after              *)
(* timeouts_last_time.  sys_check_timeouts is called from the main loop and *)
(* calls the handlers that are due, which arm the next ones.  Beside a      *)
(* handler that always arms itself again ("period": ARP, DHCP, IGMP, DNS)   *)
(* there is TCP's, which stops when no connection is left, and single ones. *)
(***************************************************************************)
EXTENDS Integers, Sequences, FiniteSets, SequencesExt

CONSTANTS
    TCP_TMR_INTERVAL, PERIOD,   \* ms between the calls of a repeated handler
    DELAYS,                     \* ms of a single timeout
    TICKS,                      \* ticks of the clock in a ms
    WRAP,                       \* the clock counts modulo WRAP
    SINGLES                     \* bound: single timeouts pending at a time

TimersAssumption ==
    /\ {TCP_TMR_INTERVAL, PERIOD, TICKS, WRAP} \subseteq Nat \ {0} /\ SINGLES \in Nat
    /\ DELAYS \subseteq Nat

\* An entry: its handler, its time, and what a clock of its own shows: left is
\* the ms until it is due by the list, and soonest the ticks before which it
\* must not be called.
VARIABLES
    next_timeout,               \* the list
    timeouts_last_time,
    now,                        \* the clock
    diff,                       \* ms that a running sys_check_timeouts has left
    pcbs,                       \* TCP has active or waiting connections
    tcpip_tcp_timer_active

timersVars == <<next_timeout, timeouts_last_time, now, diff, pcbs, tcpip_tcp_timer_active>>

NotChecking == -1
U32Diff(a, b) == (a - b) % WRAP
\* Ticks since the time the first entry counts from.
Elapsed == U32Diff(now, timeouts_last_time)

\* The times of the first k entries together.
Upto(list) ==
    LET total[k \in 0..Len(list)] == IF k = 0 THEN 0 ELSE total[k - 1] + list[k].time IN total
\* sys_timeout: the entry goes behind those that are due no later, and takes
\* its time from the one it is put before.  gone are the ticks that the list
\* has behind it already.
sys_timeout(list, msecs, h, gone) ==
    LET k == CHOOSE i \in 0..Len(list) :
               /\ Upto(list)[i] <= msecs
               /\ i = Len(list) \/ Upto(list)[i + 1] > msecs
        t == [h |-> h, time |-> msecs - Upto(list)[k], left |-> msecs,
              soonest |-> IF msecs * TICKS > gone THEN msecs * TICKS - gone ELSE 0]
        later == IF k = Len(list) THEN list ELSE [list EXCEPT ![k + 1].time = @ - t.time]
    IN InsertAt(later, k + 1, t)

\* A mutant: what is taken out takes its time along.
sys_untimeout_TimeLost(list, h) ==
    LET at == {i \in 1..Len(list) : list[i].h = h} IN
    IF at = {} THEN list ELSE RemoveAt(list, CHOOSE i \in at : \A j \in at : i <= j)
\* sys_untimeout: the first entry with the handler goes, and the one after it
\* takes over its time.
sys_untimeout(list, h) ==
    LET at == {i \in 1..Len(list) : list[i].h = h} IN
    IF at = {} THEN list
    ELSE LET k == CHOOSE i \in at : \A j \in at : i <= j
             rest == RemoveAt(list, k)
         IN IF k > Len(rest) THEN rest ELSE [rest EXCEPT ![k].time = @ + list[k].time]

InList(list, h) == Cardinality({i \in 1..Len(list) : list[i].h = h})
Pending(h) == InList(next_timeout, h)

\* sys_timeouts_init arms TCP's handler too, and leaves tcpip_tcp_timer_active
\* as it is.
Entry(h, ms, delta) == [h |-> h, time |-> delta, left |-> ms, soonest |-> ms * TICKS]
Init ==
    /\ next_timeout = IF PERIOD <= TCP_TMR_INTERVAL
                      THEN <<Entry("period", PERIOD, PERIOD), Entry("tcp", TCP_TMR_INTERVAL, TCP_TMR_INTERVAL - PERIOD)>>
                      ELSE <<Entry("tcp", TCP_TMR_INTERVAL, TCP_TMR_INTERVAL), Entry("period", PERIOD, PERIOD - TCP_TMR_INTERVAL)>>
    /\ now = 0 /\ timeouts_last_time = 0 /\ diff = NotChecking
    /\ pcbs = FALSE /\ tcpip_tcp_timer_active = FALSE

Tick ==
    /\ diff = NotChecking
    /\ now' = (now + 1) % WRAP
    /\ next_timeout' = [i \in 1..Len(next_timeout) |->
                          [next_timeout[i] EXCEPT !.soonest = IF @ = 0 THEN 0 ELSE @ - 1]]
    /\ UNCHANGED <<timeouts_last_time, diff, pcbs, tcpip_tcp_timer_active>>

\* A user's call.
Arm(ms) ==
    /\ Pending("single") < SINGLES
    /\ next_timeout' = sys_timeout(next_timeout, ms, "single", Elapsed)
    /\ UNCHANGED <<timeouts_last_time, now, diff, pcbs, tcpip_tcp_timer_active>>
Disarm ==
    /\ Pending("single") > 0
    /\ next_timeout' = sys_untimeout(next_timeout, "single")
    /\ UNCHANGED <<timeouts_last_time, now, diff, pcbs, tcpip_tcp_timer_active>>

\* A mutant: the timer is started whenever a connection is registered.
tcp_timer_needed_Always ==
    /\ pcbs' = TRUE /\ tcpip_tcp_timer_active' = TRUE
    /\ next_timeout' = sys_timeout(next_timeout, TCP_TMR_INTERVAL, "tcp", Elapsed)
    /\ UNCHANGED <<timeouts_last_time, now, diff>>
\* TCP_REG: a connection is registered and its timer started when it is off.
tcp_timer_needed ==
    /\ pcbs' = TRUE
    /\ IF tcpip_tcp_timer_active THEN UNCHANGED <<next_timeout, tcpip_tcp_timer_active>>
       ELSE /\ tcpip_tcp_timer_active' = TRUE
            /\ next_timeout' = sys_timeout(next_timeout, TCP_TMR_INTERVAL, "tcp", Elapsed)
    /\ UNCHANGED <<timeouts_last_time, now, diff>>
LastConnectionGone ==
    /\ pcbs /\ pcbs' = FALSE
    /\ UNCHANGED <<next_timeout, timeouts_last_time, now, diff, tcpip_tcp_timer_active>>

sys_restart_timeouts ==
    /\ diff = NotChecking
    /\ timeouts_last_time' = now
    /\ UNCHANGED <<next_timeout, now, diff, pcbs, tcpip_tcp_timer_active>>

\* sys_check_timeouts begins: whole ms since the last time that one was due.
Check ==
    /\ diff = NotChecking /\ next_timeout # <<>>
    /\ diff' = U32Diff(now, timeouts_last_time) \div TICKS
    /\ UNCHANGED <<next_timeout, timeouts_last_time, now, pcbs, tcpip_tcp_timer_active>>

\* The list without its first entry, whose time has gone by for the others too.
Advance(list) == [i \in 1..(Len(list) - 1) |-> [list[i + 1] EXCEPT !.left = @ - list[1].time]]
\* A mutant: the time that is over is not noted.
Due_TimeKept ==
    /\ diff # NotChecking /\ next_timeout[1].time <= diff
    /\ UNCHANGED timeouts_last_time
    /\ diff' = diff - next_timeout[1].time
    /\ LET h == next_timeout[1].h
           rest == Advance(next_timeout)
           Again(ms) == sys_timeout(rest, ms, h, diff' * TICKS)
       IN CASE h = "period" -> next_timeout' = Again(PERIOD) /\ UNCHANGED tcpip_tcp_timer_active
            [] h = "tcp" /\ pcbs -> next_timeout' = Again(TCP_TMR_INTERVAL) /\ UNCHANGED tcpip_tcp_timer_active
            [] h = "tcp" /\ ~pcbs -> next_timeout' = rest /\ tcpip_tcp_timer_active' = FALSE
            [] h = "single" -> /\ \/ next_timeout' = rest
                                  \/ \E ms \in DELAYS : next_timeout' = Again(ms)
                               /\ UNCHANGED tcpip_tcp_timer_active
    /\ UNCHANGED <<now, pcbs>>
\* One round: the first entry is taken out and its handler called, which may
\* arm itself again.
Due ==
    /\ diff # NotChecking /\ next_timeout[1].time <= diff
    /\ timeouts_last_time' = now
    /\ diff' = diff - next_timeout[1].time
    /\ LET h == next_timeout[1].h
           rest == Advance(next_timeout)
           Again(ms) == sys_timeout(rest, ms, h, diff' * TICKS)
       IN CASE h = "period" -> next_timeout' = Again(PERIOD) /\ UNCHANGED tcpip_tcp_timer_active
            [] h = "tcp" /\ pcbs -> next_timeout' = Again(TCP_TMR_INTERVAL) /\ UNCHANGED tcpip_tcp_timer_active
            [] h = "tcp" /\ ~pcbs -> next_timeout' = rest /\ tcpip_tcp_timer_active' = FALSE
            [] h = "single" -> /\ \/ next_timeout' = rest
                                  \/ \E ms \in DELAYS : next_timeout' = Again(ms)
                               /\ UNCHANGED tcpip_tcp_timer_active
    /\ UNCHANGED <<now, pcbs>>

Checked ==
    /\ diff # NotChecking /\ next_timeout[1].time > diff
    /\ diff' = NotChecking
    /\ UNCHANGED <<next_timeout, timeouts_last_time, now, pcbs, tcpip_tcp_timer_active>>

User == diff = NotChecking /\ (tcp_timer_needed \/ LastConnectionGone \/ Disarm \/ \E ms \in DELAYS : Arm(ms))
Next == Tick \/ User \/ sys_restart_timeouts \/ Check \/ Due \/ Checked
Spec == Init /\ [][Next]_timersVars

-----------------------------------------------------------------------------
TypeOK ==
    /\ now \in 0..(WRAP - 1) /\ timeouts_last_time \in 0..(WRAP - 1)
    /\ diff \in -1..(WRAP \div TICKS)
    /\ \A i \in 1..Len(next_timeout) : next_timeout[i].h \in {"period", "tcp", "single"}

\* However entries come and go, each is due when it was asked for: the times up
\* to it add up to what it has left (timers.c:316-333, 364-366).
DueAsAsked ==
    \A i \in 1..Len(next_timeout) :
        /\ next_timeout[i].time >= 0
        /\ Upto(next_timeout)[i] = next_timeout[i].left

\* No handler is called before its time, counted from the time that the list
\* had when it was armed (timers.c:404-408).
NotEarly ==
    diff # NotChecking /\ next_timeout[1].time <= diff => next_timeout[1].soonest = 0

\* A handler that repeats keeps repeating, so that the loop never meets an empty
\* list (timers.c:403), and TCP's runs while there are connections.  Since it
\* is armed at the start without a note of it, there may be two of it, and never
\* more (timers.c:266, 105).
HandlersRepeat ==
    /\ Pending("period") = 1
    /\ pcbs => Pending("tcp") >= 1
    /\ Pending("tcp") <= 1 + (IF tcpip_tcp_timer_active THEN 1 ELSE 0)

TimersSound == DueAsAsked /\ NotEarly /\ HandlersRepeat

=============================================================================
