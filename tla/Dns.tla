-------------------------------- MODULE Dns --------------------------------
(***************************************************************************)
(* lwIP's resolver (core/dns.c): a small table of names that are asked for  *)
(* and of answers that are kept for their time to live.  A query carries    *)
(* the place of its entry and a random number, of which only the last is    *)
(* kept: last is the query that may be answered, answers to all others are  *)
(* dropped (two random numbers are taken to differ).                        *)
(*                                                                         *)
(* The callback of a lookup may look up another name, as                    *)
(* sntp_try_next_server does.  A handler is a function of the record dns.     *)
(***************************************************************************)
EXTENDS Integers, FiniteSets, FiniteSetsExt

CONSTANTS
    Names,
    DNS_TABLE_SIZE,   \* 4
    DNS_MAX_RETRIES,  \* 4
    DNS_MAX_SERVERS,  \* 2
    SEQNOS,           \* values of dns_seqno: 256
    TTLS              \* times to live of answers, in calls of dns_tmr

DnsAssumption ==
    /\ {DNS_TABLE_SIZE, DNS_MAX_RETRIES, DNS_MAX_SERVERS, SEQNOS} \subseteq Nat \ {0}
    /\ DNS_MAX_RETRIES > 1 /\ TTLS \subseteq Nat

VARIABLES
    dns,        \* the table, dns_seqno, last, and owed: callbacks to come
    servers,  \* servers that are set, of dns_servers
    entry,    \* the entry dns_check_entries has come to; 0: it does not run
    refused   \* history: this step refused a lookup that had a place

dnsVars == <<dns, servers, entry, refused>>

Place == 1..DNS_TABLE_SIZE
NoName == "none"
NoQuery == [place |-> 0, name |-> NoName]
Unused == [state |-> "UNUSED", name |-> NoName, ipaddr |-> NoName, numdns |-> 0, tmr |-> 0,
           retries |-> 0, ttl |-> 0, seqno |-> 0, age |-> 0]

Init ==
    /\ dns = [table |-> [i \in Place |-> Unused], seqno |-> 0, last |-> NoQuery, owed |-> 0]
    /\ servers = 1 /\ entry = 0 /\ refused = FALSE

In(table, state) == {i \in Place : table[i].state = state}

-----------------------------------------------------------------------------
\* dns_send: without memory nothing is sent, but the number is new.
Asked(n, i, sent) == [n EXCEPT !.last = IF sent THEN [place |-> i, name |-> n.table[i].name] ELSE NoQuery]

\* dns_enqueue takes a free place or that of the oldest answer.  Mutant: of
\* any entry.
Oldest(n, S) == Min({i \in S : \A j \in S : n.table[j].seqno >= n.table[i].seqno})
Recycled_Any(n) ==
    LET older == {i \in Place : n.seqno - n.table[i].seqno > 0}
    IN IF older = {} THEN 1 ELSE Oldest(n, older)
\* The age is a difference of two bytes that is not cut to a byte, so a
\* number that has wrapped is no age; without any age it is the first entry.
Recycled(n) ==
    LET older == {i \in In(n.table, "DONE") : n.seqno - n.table[i].seqno > 0}
        i == IF older = {} THEN 1 ELSE Oldest(n, older)
    IN IF n.table[i].state = "DONE" THEN i ELSE 0
PlaceFor(n) == IF In(n.table, "UNUSED") # {} THEN Min(In(n.table, "UNUSED")) ELSE Recycled(n)
New(n, name) ==
    [Unused EXCEPT !.state = "ASKING", !.name = name, !.tmr = 1, !.seqno = n.seqno]
dns_enqueue(n, name, sent) ==
    IF PlaceFor(n) = 0 THEN n
    ELSE Asked([n EXCEPT !.table[PlaceFor(n)] = New(n, name), !.seqno = (@ + 1) % SEQNOS,
                         !.owed = @ + 1],
               PlaceFor(n), sent)

\* A name whose address is in the table is asked for again: the call of
\* dns_lookup is commented out, so what is kept is never used.
dns_gethostbyname(n, name, sent) == dns_enqueue(n, name, sent)

\* The callback of an entry, and what it looks up.
Found(n, again, sent) ==
    LET called == [n EXCEPT !.owed = @ - 1]
    IN IF again = NoName THEN called ELSE dns_gethostbyname(called, again, sent)
Freed(n, i) == [n EXCEPT !.table[i] = Unused]
\* An entry that was answered is freed after its callback: a lookup made there
\* that was given its place waits for ever, and is not counted as owed.
Flushed(n, i) == Freed([n EXCEPT !.owed = IF n.table[i].state = "ASKING" THEN @ - 1 ELSE @], i)

\* dns_recv, of an answer to the last query, whose name is compared: an answer
\* for another name or without an address is the end, one that lives no time
\* is not kept.
Answered(n, i, ipaddr, ttl) ==
    [n EXCEPT !.table[i].state = "DONE", !.table[i].ttl = ttl, !.table[i].ipaddr = ipaddr]
dns_recv(n, i, ipaddr, ttl, again, sent) ==
    IF ipaddr = NoName \/ n.last.name # n.table[i].name \/ ttl = 0
    THEN Flushed(Found(Answered(n, i, ipaddr, ttl), again, sent), i)
    ELSE Found(Answered(n, i, ipaddr, ttl), again, sent)

\* dns_check_entry.
Older(n, i) == [n EXCEPT !.table[i].age = IF n.table[i].state = "ASKING" THEN @ + 1 ELSE @]
NextServer(n, i) ==
    [n EXCEPT !.table[i].numdns = @ + 1, !.table[i].tmr = 1, !.table[i].retries = 0]
Retried(n, i, sent) ==
    Asked([n EXCEPT !.table[i].retries = @ + 1, !.table[i].tmr = n.table[i].retries + 1], i, sent)
CheckAsking(n, i, again, sent) ==
    IF n.table[i].tmr > 1 THEN [n EXCEPT !.table[i].tmr = @ - 1]
    ELSE IF n.table[i].retries + 1 < DNS_MAX_RETRIES THEN Retried(n, i, sent)
    ELSE IF n.table[i].numdns + 1 < servers THEN NextServer(n, i)
    ELSE Freed(Found(n, again, sent), i)
CheckDone(n, i) ==
    IF n.table[i].ttl <= 1 THEN Freed(n, i) ELSE [n EXCEPT !.table[i].ttl = @ - 1]

-----------------------------------------------------------------------------
Lookup(name, sent) ==
    /\ entry = 0 /\ UNCHANGED <<servers, entry>>
    /\ dns' = dns_gethostbyname(dns, name, sent)
    /\ refused' = (PlaceFor(dns) = 0 /\ In(dns.table, "DONE") # {})
\* An error is dropped, and so is an answer after the first.
Recv(found, ttl, again, sent) ==
    /\ entry = 0 /\ dns.last # NoQuery /\ dns.table[dns.last.place].state = "ASKING"
    /\ dns' = dns_recv(dns, dns.last.place, IF found THEN dns.last.name ELSE NoName, ttl, again, sent)
    /\ refused' = FALSE /\ UNCHANGED <<servers, entry>>

\* dns_tmr, every second: dns_check_entries takes the entries in turn, and
\* nothing comes between.
dns_tmr ==
    /\ entry = 0 /\ In(dns.table, "UNUSED") # Place /\ entry' = 1
    /\ refused' = FALSE /\ UNCHANGED <<dns, servers>>
dns_check_entry(again, sent) ==
    /\ entry # 0 /\ entry' = (entry + 1) % (DNS_TABLE_SIZE + 1)
    /\ again # NoName => dns.table[entry].state = "ASKING"
    /\ dns' = CASE dns.table[entry].state = "ASKING" ->
                       CheckAsking(Older(dns, entry), entry, again, sent)
                [] dns.table[entry].state = "DONE" -> CheckDone(dns, entry)
                [] OTHER -> dns
    /\ refused' = FALSE /\ UNCHANGED servers

\* dns_setserver, by DHCP or the application.
dns_setserver ==
    /\ entry = 0 /\ servers < DNS_MAX_SERVERS /\ servers' = servers + 1
    /\ refused' = FALSE /\ UNCHANGED <<dns, entry>>

Next ==
    \/ dns_setserver \/ dns_tmr
    \/ \E sent \in BOOLEAN :
         \/ \E name \in Names : Lookup(name, sent)
         \/ \E again \in Names \cup {NoName} :
              \/ dns_check_entry(again, sent)
              \/ \E found \in BOOLEAN, ttl \in TTLS : Recv(found, ttl, again, sent)
Spec == Init /\ [][Next]_dnsVars
-----------------------------------------------------------------------------
\* The counters' ranges.
TypeOK ==
    /\ dns.seqno \in 0..(SEQNOS - 1) /\ dns.last.place \in 0..DNS_TABLE_SIZE /\ dns.owed \in 0..DNS_TABLE_SIZE
    /\ \A i \in Place : /\ dns.table[i].retries < DNS_MAX_RETRIES
                        /\ dns.table[i].numdns < DNS_MAX_SERVERS

\* The seconds one server is asked: 1 + 1 + 2 + ... .
Patience == 1 + ((DNS_MAX_RETRIES - 1) * DNS_MAX_RETRIES) \div 2

\* Each lookup that was accepted gets its one callback, within the time the
\* servers may take, but for one that a callback makes and that is given the
\* very place dns_recv frees after that callback; what is kept is the address of its own name and has time
\* to live.  As long as dns_seqno has not wrapped past an entry's, a lookup is
\* refused only when every place is being asked for.
LookupsSound ==
    /\ dns.owed = Cardinality(In(dns.table, "ASKING"))
    /\ \A i \in In(dns.table, "ASKING") :
         dns.table[i].tmr > 0 /\ dns.table[i].age < Patience * DNS_MAX_SERVERS
    /\ \A i \in In(dns.table, "DONE") : dns.table[i].ipaddr = dns.table[i].name /\ dns.table[i].ttl > 0
    /\ refused => \E i \in Place : dns.table[i].seqno >= dns.seqno

=============================================================================
