-------------------------------- MODULE Sntp --------------------------------
(***************************************************************************)
(* The SNTP client (core/sntp.c): it asks one of several servers, given by  *)
(* address or by name, goes to the next one when no answer comes or the     *)
(* server sends it away, asks the same one again later and later after an   *)
(* answer it cannot use, and keeps a clock of seconds by an answer until    *)
(* the next.  Its delays are steps that may happen at any time.             *)
(***************************************************************************)
EXTENDS Integers, FiniteSets, SequencesExt

CONSTANTS
    SNTP_MAX_SERVERS,
    GOOD,             \* the address of a server that answers well
    BAD,            \* that of one that does not
    SNTP_RETRY_TIMEOUT_MAX,   \* in units of the first timeout
    DAYS, SECONDS,    \* what servers show: days since 1970, seconds of a day
    TIME_ZONE,        \* hours, any an sint8 holds
    USES,             \* bound: calls of the application
    STRAY,            \* bound: messages that were not asked for
    FAILS,            \* bound: allocations that fail
    COUNT             \* bound: seconds counted after an answer

SntpAssumption ==
    /\ SNTP_MAX_SERVERS \in Nat \ {0} /\ GOOD # BAD
    /\ SNTP_RETRY_TIMEOUT_MAX \in Nat \ {0} /\ {USES, STRAY, FAILS, COUNT} \subseteq Nat
    /\ DAYS \subseteq Nat /\ \A d \in DAYS : d < 49710
    /\ SECONDS \subseteq Nat /\ \A s \in SECONDS : s < 86400
    /\ TIME_ZONE \in -128..127

Servers == 0..(SNTP_MAX_SERVERS - 1)
ANY == "any"          \* no address
Addresses == {GOOD, BAD}

VARIABLES
    client,    \* what the handlers work on
    clock,     \* realtime_stamp: day, second and seconds counted, or NotSet
    uses, strays,
    waiting    \* it was stopped, and something that it waited for is left

sntpVars == <<client, clock, uses, strays, waiting>>

NotSet == <<>>
Init ==
    /\ client = [pcb |-> FALSE, name |-> [i \in Servers |-> FALSE], addr |-> [i \in Servers |-> ANY],
                 current |-> 0, retry |-> 1,
                 request |-> 0, next |-> 0, \* timeouts of sntp_request and sntp_try_next_server
                 lookups |-> 0, asked |-> {}, fails |-> FAILS, nullUsed |-> FALSE]
    /\ clock = NotSet /\ uses = 0 /\ strays = 0 /\ waiting = FALSE

\* sntp_send_request: without a pcb udp_sendto reads through NULL; without
\* memory the request is made again later.
sntp_send_request(c, a) ==
    IF ~c.pcb THEN {[c EXCEPT !.nullUsed = TRUE]}
    ELSE {[c EXCEPT !.next = @ + 1, !.asked = @ \cup {a}]}
         \cup {x \in {[c EXCEPT !.request = @ + 1, !.fails = @ - 1]} : c.fails > 0}

\* sntp_request: dns_gethostbyname knows the address, asks for it, or refuses;
\* an address found by a lookup is not kept.
sntp_request(c) ==
    LET i == c.current
        d == [c EXCEPT !.addr[i] = ANY]
        Later(x) == {[x EXCEPT !.next = @ + 1]}
    IN IF c.name[i]
       THEN (UNION {sntp_send_request([d EXCEPT !.addr[i] = a], a) : a \in Addresses})
            \cup {[d EXCEPT !.lookups = @ + 1]} \cup Later(d)
       ELSE IF c.addr[i] = ANY THEN Later(c) ELSE sntp_send_request(c, c.addr[i])

\* sntp_retry: the same server again, after twice the time of the last retry
\* up to a limit.
sntp_retry(c) ==
    {[c EXCEPT !.request = @ + 1, !.retry = IF 2 * @ <= SNTP_RETRY_TIMEOUT_MAX THEN 2 * @ ELSE @]}

\* A mutant: only servers with an address are tried.
sntp_try_next_server_ByAddress(c) ==
    LET after == {k \in 1..(SNTP_MAX_SERVERS - 1) : c.addr[(c.current + k) % SNTP_MAX_SERVERS] # ANY}
        to == (c.current + (CHOOSE k \in after : \A l \in after : k <= l)) % SNTP_MAX_SERVERS
    IN IF after = {} THEN {c} ELSE sntp_request([c EXCEPT !.current = to, !.retry = 1])
\* A mutant: a server that does not answer is asked again and again.
sntp_try_next_server_Same(c) == sntp_retry(c)
\* sntp_try_next_server: the next one with an address or a name, or the same.
Usable(c, i) == c.addr[i] # ANY \/ c.name[i]
sntp_try_next_server(c) ==
    LET after == {k \in 1..(SNTP_MAX_SERVERS - 1) : Usable(c, (c.current + k) % SNTP_MAX_SERVERS)}
        to == (c.current + (CHOOSE k \in after : \A l \in after : k <= l)) % SNTP_MAX_SERVERS
    IN IF after = {} THEN sntp_retry(c) ELSE sntp_request([c EXCEPT !.current = to, !.retry = 1])

-----------------------------------------------------------------------------
\* The clock some days and seconds later, and as the 32 bits of realtime_stamp:
\* 2^32 seconds are 49710 days and 23296 seconds.
Moved(c, days, seconds) ==
    [c EXCEPT !.day = @ + days + ((c.second + seconds) \div 86400), !.second = (@ + seconds) % 86400]
Unsigned(c) ==
    IF c.day < 0 THEN Moved(c, 49710, 23296)
    ELSE IF c.day > 49710 \/ (c.day = 49710 /\ c.second >= 23296) THEN Moved(c, -49710, -23296) ELSE c

Less(n) == IF n = 0 THEN 0 ELSE n - 1
\* A mutant: the wait for an answer does not end.
Untimed_RequestOnly(c) == [c EXCEPT !.request = Less(@)]
\* sntp_recv disarms one timeout of each handler, whoever the message is from.
Untimed(c) == [c EXCEPT !.request = Less(@), !.next = Less(@)]

\* sntp_process: the clock is set to local time and goes on.
Timed(c, d, s) ==
    /\ clock' = Unsigned(Moved([day |-> d, second |-> s, counted |-> 0], 0, TIME_ZONE * 3600))
    /\ client' = [Untimed(c) EXCEPT !.retry = 1, !.request = @ + 1]
sntp_recv(answer, c) ==
    /\ client.pcb
    /\ \/ answer = "time" /\ \E d \in DAYS, s \in SECONDS : Timed(c, d, s)
       \/ answer = "kiss of death" /\ client' \in sntp_try_next_server(Untimed(c)) /\ UNCHANGED clock
       \/ answer = "unusable" /\ client' \in sntp_retry(Untimed(c)) /\ UNCHANGED clock
    /\ UNCHANGED <<uses, waiting>>
\* The good server answers what it was asked; the other one sends the client
\* away or stays silent, and any host may send what it likes.
Answered == GOOD \in client.asked /\ sntp_recv("time", [client EXCEPT !.asked = @ \ {GOOD}]) /\ UNCHANGED strays
Refused == BAD \in client.asked /\ sntp_recv("kiss of death", [client EXCEPT !.asked = @ \ {BAD}]) /\ UNCHANGED strays
Disturbed ==
    /\ strays < STRAY /\ strays' = strays + 1
    /\ \E answer \in {"time", "kiss of death", "unusable"} : sntp_recv(answer, client)

RequestTimer ==
    /\ client.request > 0
    /\ client' \in sntp_request([client EXCEPT !.request = @ - 1])
    /\ UNCHANGED <<clock, uses, strays, waiting>>
NextTimer ==
    /\ client.next > 0
    /\ client' \in sntp_try_next_server([client EXCEPT !.next = @ - 1, !.asked = {}])
    /\ UNCHANGED <<clock, uses, strays, waiting>>
\* sntp_dns_found.
Found(a) ==
    /\ client.lookups > 0
    /\ LET c == [client EXCEPT !.lookups = @ - 1] IN
       client' \in IF a # ANY THEN sntp_send_request(c, a) ELSE sntp_try_next_server(c)
    /\ UNCHANGED <<clock, uses, strays, waiting>>

\* sntp_time_inc, each second.
sntp_time_inc ==
    /\ clock # NotSet /\ clock.counted < COUNT
    /\ clock' = Unsigned(Moved([clock EXCEPT !.counted = @ + 1], 0, 1))
    /\ UNCHANGED <<client, uses, strays, waiting>>

-----------------------------------------------------------------------------
Use == uses < USES /\ uses' = uses + 1 /\ UNCHANGED strays
sntp_init ==
    /\ Use /\ ~client.pcb
    /\ client' \in sntp_request([client EXCEPT !.pcb = TRUE, !.retry = 1])
    /\ UNCHANGED <<clock, waiting>>
\* sntp_stop disarms sntp_request only.
sntp_stop ==
    /\ Use
    /\ client' = IF client.pcb THEN [client EXCEPT !.pcb = FALSE, !.request = Less(@), !.asked = {}] ELSE client
    /\ clock' = NotSet
    /\ waiting' = (waiting \/ (client.pcb /\ Less(client.request) + client.next + client.lookups > 0))
sntp_setserver(i, a) ==
    /\ Use
    /\ client' = [client EXCEPT !.addr[i] = a, !.name[i] = FALSE]
    /\ UNCHANGED <<clock, waiting>>
sntp_setservername(i) ==
    /\ Use
    /\ client' = [client EXCEPT !.name[i] = TRUE]
    /\ UNCHANGED <<clock, waiting>>

User == sntp_init \/ sntp_stop \/ \E i \in Servers : sntp_setservername(i) \/ \E a \in Addresses \cup {ANY} : sntp_setserver(i, a)
Client == Answered \/ Refused \/ RequestTimer \/ NextTimer \/ \E a \in Addresses \cup {ANY} : Found(a)
Next == ~client.nullUsed /\ (User \/ Client \/ Disturbed \/ sntp_time_inc)
Spec == Init /\ [][Next]_sntpVars

-----------------------------------------------------------------------------
\* sntp_mktm_r: the calendar.  A clock of 2^31 seconds and more is negative.
AsLong(c) ==
    IF c.day < 24855 \/ (c.day = 24855 /\ c.second < 11648) THEN c ELSE Moved(c, -49710, -23296)
isleap(y) == (y % 4 = 0 /\ y % 100 # 0) \/ y % 400 = 0
year_lengths(y) == IF isleap(y) THEN 366 ELSE 365
mon_lengths(y) == <<31, IF isleap(y) THEN 29 ELSE 28, 31, 30, 31, 30, 31, 31, 30, 31, 30, 31>>
\* The day a year begins; the loops add and take away whole years.
Begins(y) == 365 * (y - 1970) + Cardinality({l \in 1970..(y - 1) : isleap(l)}) - Cardinality({l \in y..1969 : isleap(l)})
\* The days of the months before each.
DaysBefore(y) ==
    LET total[m \in 0..12] == IF m = 0 THEN 0 ELSE total[m - 1] + mon_lengths(y)[m] IN total
Shown(c, y, day) ==
    LET mon == CHOOSE m \in 0..11 : DaysBefore(y)[m] <= day /\ day < DaysBefore(y)[m + 1]
    IN [year |-> y, mon |-> mon, mday |-> day - DaysBefore(y)[mon] + 1, wday |-> (4 + c.day) % 7,
        hour |-> c.second \div 3600, min |-> (c.second % 3600) \div 60, sec |-> c.second % 60]
\* A mutant: every fourth year is a leap year from 1970 on.
sntp_mktm_r_EarlyLeap(c) ==
    LET y == 1970 + (c.day * 4) \div 1461
    IN Shown(c, y, c.day - 365 * (y - 1970) - (y - 1970) \div 4)
sntp_mktm_r(c) ==
    LET near == 1970 + c.day \div 366
        y == CHOOSE n \in (near - 1)..(near + 1) : Begins(n) <= c.day /\ c.day < Begins(n + 1)
    IN Shown(c, y, c.day - Begins(y))

-----------------------------------------------------------------------------
TypeOK ==
    /\ client.current \in Servers /\ client.retry \in 1..SNTP_RETRY_TIMEOUT_MAX
    /\ {client.request, client.next, client.lookups, client.fails} \subseteq Nat
    /\ clock = NotSet \/ (clock.second \in Nat /\ clock.second < 86400)

\* A running client always waits for a timeout or a lookup, and unless messages
\* came unasked or it was stopped in the middle, for one of them only
\* (sntp.c:801-802, 1010).
Waits == client.request + client.next + client.lookups
OneChain ==
    ~client.nullUsed =>
        /\ client.pcb => Waits >= 1
        /\ strays = 0 /\ ~waiting => Waits = IF client.pcb THEN 1 ELSE 0

\* A request goes out through no pcb only after sntp_stop left a timeout
\* or a lookup behind (sntp.c:1010).
SendsOnPcb == client.nullUsed => waiting

\* The date shown is that of the seconds counted, by the rule for the days of
\* the years before (sntp.c:549-551), until the count turns negative.
DateTrue ==
    clock # NotSet =>
        LET c == AsLong(clock)
            t == sntp_mktm_r(c)
            years == t.year - 1970
            leaps == (years + 1) \div 4 - (years + 69) \div 100 + (years + 369) \div 400
        IN /\ t.mday \in 1..mon_lengths(t.year)[t.mon + 1]
           /\ c.day = 365 * years + leaps + DaysBefore(t.year)[t.mon] + t.mday - 1
           /\ c.second = 3600 * t.hour + 60 * t.min + t.sec
           /\ c = clock => t.year >= 1970

SntpSound == OneChain /\ SendsOnPcb /\ DateTrue

\* A running client with a good server among its servers, by address, gets the
\* time, unless the application changes that.
GoodGiven == client.pcb /\ \E i \in Servers : client.addr[i] = GOOD /\ ~client.name[i]
TimeComes == GoodGiven ~> (clock # NotSet \/ ~GoodGiven \/ client.nullUsed)

\* The timeouts end, lookups are answered, and the good server answers in time
\* again and again.
FairSpec ==
    /\ Spec
    /\ WF_sntpVars(RequestTimer) /\ WF_sntpVars(NextTimer) /\ SF_sntpVars(Answered)
    /\ WF_sntpVars(\E a \in Addresses \cup {ANY} : Found(a))

=============================================================================
