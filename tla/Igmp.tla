-------------------------------- MODULE Igmp --------------------------------
(***************************************************************************)
(* Multicast membership (core/ipv4/igmp.c): groups on the station's and the *)
(* softap's netif, joined several times over, queried by routers and        *)
(* reported by other hosts at any time.  A report or a leave message may    *)
(* find no memory.  Malformed messages, which change nothing, are left out. *)
(***************************************************************************)
EXTENDS Integers, FiniteSets

CONSTANTS
    NETIFS,     \* netif_list: 1..NETIFS, in its order
    GROUPS,     \* the groups that are joined
    MAXRESP,    \* response times that queries ask for, in ticks
    IGMP_V1_DELAYING_MEMBER_TMR,    \* 10 ticks
    IGMP_JOIN_DELAYING_MEMBER_TMR,  \* 5 ticks
    USES        \* bound: joins of a group at a time

allsystems == "allsystems"

\* Joining and leaving the all systems group is refused at once.
IgmpAssumption ==
    /\ allsystems \notin GROUPS
    /\ NETIFS \in Nat \ {0} /\ USES \in Nat \ {0} /\ MAXRESP \subseteq Nat
    /\ {IGMP_V1_DELAYING_MEMBER_TMR, IGMP_JOIN_DELAYING_MEMBER_TMR} \subseteq Nat \ {0}

VARIABLES
    igmp_group_list,  \* the groups of each netif
    mac_filter,       \* the addresses that igmp_mac_filter lets through
    router            \* history: what the network knows of each group

igmpVars == <<igmp_group_list, mac_filter, router>>

Netifs == 1..NETIFS
Places == Netifs \X (GROUPS \cup {allsystems})

NULL == [group_state |-> "NULL", timer |-> 0, last_reporter_flag |-> 0, use |-> 0]
\* Who reported last, how many ticks are left to answer a query (Never: none
\* waits), and whether there was no memory for the leave message.
Never == -1
NoRouter == [reporter |-> "none", due |-> Never, lost |-> FALSE]

Listed(list, n, g) == list[n, g].group_state # "NULL"
Init ==
    /\ igmp_group_list = [p \in Places |-> NULL]
    /\ mac_filter = {}
    /\ router = [p \in Places |-> NoRouter]

-----------------------------------------------------------------------------
\* igmp_start_timer: a random time below the one allowed.
Times(max_time) == IF max_time <= 1 THEN {1} ELSE 1..(max_time - 1)

\* igmp_delaying_member; t is the random time.  Mutant: a group that has
\* reported, and has not heard another since, does not answer.
igmp_delaying_member_IdleOnly(group, maxresp, t) ==
    IF \/ group.group_state = "IDLE_MEMBER"
       \/ group.group_state = "DELAYING_MEMBER" /\ maxresp < group.timer
    THEN [group EXCEPT !.timer = t, !.group_state = "DELAYING_MEMBER"] ELSE group
igmp_delaying_member(group, maxresp, t) ==
    IF \/ group.group_state = "IDLE_MEMBER"
       \/ group.group_state = "DELAYING_MEMBER" /\ (group.timer = 0 \/ maxresp < group.timer)
    THEN [group EXCEPT !.timer = t, !.group_state = "DELAYING_MEMBER"] ELSE group

\* igmp_send of a report.
Reported(group, sent) == [group EXCEPT !.last_reporter_flag = IF sent THEN 1 ELSE @]
Heard(r, sent) ==
    [r EXCEPT !.reporter = IF sent THEN "us" ELSE @, !.due = Never]

-----------------------------------------------------------------------------
\* igmp_start and igmp_stop, as a netif is added and removed.
igmp_start(n) ==
    /\ ~Listed(igmp_group_list, n, allsystems)
    /\ igmp_group_list' = [igmp_group_list EXCEPT ![<<n, allsystems>>] =
                             [NULL EXCEPT !.group_state = "IDLE_MEMBER", !.use = 1]]
    /\ mac_filter' = mac_filter \cup {<<n, allsystems>>}
    /\ UNCHANGED router
igmp_stop(n) ==
    /\ Listed(igmp_group_list, n, allsystems)
    /\ igmp_group_list' = [p \in Places |-> IF p[1] = n THEN NULL ELSE igmp_group_list[p]]
    /\ mac_filter' = {p \in mac_filter : p[1] # n}
    /\ router' = [p \in Places |-> IF p[1] = n THEN NoRouter ELSE router[p]]

\* igmp_joingroup, on the netifs of an address (0: on all), until memory for
\* the group is missing on one of them.
Match(ifaddr) == {n \in Netifs : Listed(igmp_group_list, n, allsystems) /\ ifaddr \in {0, n}}
New(sent, timer) ==
    [group_state |-> "DELAYING_MEMBER", timer |-> timer, use |-> 1, last_reporter_flag |-> IF sent THEN 1 ELSE 0]
igmp_joingroup(ifaddr, g) ==
    \E until \in 1..(NETIFS + 1), sent \in [Netifs -> BOOLEAN],
       timer \in [Netifs -> Times(IGMP_JOIN_DELAYING_MEMBER_TMR)] :
        LET joined == {n \in Match(ifaddr) : n < until} IN
        /\ \A n \in joined : igmp_group_list[n, g].use < USES
        /\ until <= NETIFS => until \in Match(ifaddr) /\ ~Listed(igmp_group_list, until, g)
        /\ igmp_group_list' = [p \in Places |->
             IF p[1] \notin joined \/ p[2] # g THEN igmp_group_list[p]
             ELSE IF Listed(igmp_group_list, p[1], g) THEN [igmp_group_list[p] EXCEPT !.use = @ + 1]
             ELSE New(sent[p[1]], timer[p[1]])]
        /\ mac_filter' = mac_filter \cup {<<n, g>> : n \in joined}
        /\ router' = [p \in Places |->
             IF p[1] \in joined /\ p[2] = g /\ ~Listed(igmp_group_list, p[1], g) THEN Heard(NoRouter, sent[p[1]])
             ELSE router[p]]

\* igmp_leavegroup: the last use tells the routers, if it was this host that
\* reported last.  Mutant: what the first user leaves is left.
igmp_leavegroup_First(ifaddr, g) ==
    \E sent \in [Netifs -> BOOLEAN] :
        LET members == {n \in Match(ifaddr) : Listed(igmp_group_list, n, g)}
            told(n) == igmp_group_list[n, g].last_reporter_flag = 1 /\ sent[n]
        IN
        /\ members # {}
        /\ igmp_group_list' = [p \in Places |->
             IF p[1] \in members /\ p[2] = g THEN [igmp_group_list[p] EXCEPT !.use = @ - 1]
             ELSE igmp_group_list[p]]
        /\ mac_filter' = mac_filter \ {<<n, g>> : n \in members}
        /\ router' = [p \in Places |->
             IF p[1] \in members /\ p[2] = g
             THEN [reporter |-> IF told(p[1]) THEN "none" ELSE router[p].reporter, due |-> Never, lost |-> ~sent[p[1]]]
             ELSE router[p]]
igmp_leavegroup(ifaddr, g) ==
    \E sent \in [Netifs -> BOOLEAN] :
        LET members == {n \in Match(ifaddr) : Listed(igmp_group_list, n, g)}
            last == {n \in members : igmp_group_list[n, g].use <= 1}
            told(n) == igmp_group_list[n, g].last_reporter_flag = 1 /\ sent[n]
        IN
        /\ members # {}
        /\ igmp_group_list' = [p \in Places |->
             IF p[2] # g THEN igmp_group_list[p]
             ELSE IF p[1] \in last THEN NULL
             ELSE IF p[1] \in members THEN [igmp_group_list[p] EXCEPT !.use = @ - 1]
             ELSE igmp_group_list[p]]
        /\ mac_filter' = mac_filter \ {<<n, g>> : n \in last}
        /\ router' = [p \in Places |->
             IF p[1] \in last /\ p[2] = g
             THEN [reporter |-> IF told(p[1]) THEN "none" ELSE router[p].reporter, due |-> Never, lost |-> ~sent[p[1]]]
             ELSE router[p]]

-----------------------------------------------------------------------------
\* igmp_input: a query of all groups, of one, and another host's report.
Sooner(due, maxresp) == IF due = Never \/ maxresp < due THEN maxresp ELSE due
Delaying(asked, maxresp) ==
    /\ \E t \in [asked -> Times(maxresp)] :
         igmp_group_list' = [p \in Places |->
           IF p \in asked THEN igmp_delaying_member(igmp_group_list[p], maxresp, t[p]) ELSE igmp_group_list[p]]
    /\ UNCHANGED mac_filter
Asked(asked, within) ==
    router' = [p \in Places |-> IF p \in asked THEN [router[p] EXCEPT !.due = Sooner(@, within)] ELSE router[p]]

GeneralQuery(n, igmp_maxresp) ==
    LET maxresp == IF igmp_maxresp = 0 THEN IGMP_V1_DELAYING_MEMBER_TMR ELSE igmp_maxresp
        asked == {p \in Places : p[1] = n /\ p[2] # allsystems /\ Listed(igmp_group_list, n, p[2])}
    IN /\ Listed(igmp_group_list, n, allsystems)
       /\ Delaying(asked, maxresp) /\ Asked(asked, maxresp)
GroupQuery(n, g, maxresp) ==
    /\ Listed(igmp_group_list, n, g)
    /\ Delaying({<<n, g>>}, maxresp)
    /\ Asked({<<n, g>>}, IF maxresp = 0 THEN 1 ELSE maxresp)

\* IGMP_V2_MEMB_REPORT.  Mutant: it does not clear the flag.
Report_Keeps(n, g) ==
    /\ Listed(igmp_group_list, n, g)
    /\ igmp_group_list' = [igmp_group_list EXCEPT ![<<n, g>>] =
         IF @.group_state = "DELAYING_MEMBER"
         THEN [@ EXCEPT !.timer = 0, !.group_state = "IDLE_MEMBER"] ELSE @]
    /\ router' = [router EXCEPT ![<<n, g>>] = [@ EXCEPT !.reporter = "other", !.due = Never]]
    /\ UNCHANGED mac_filter
Report(n, g) ==
    /\ Listed(igmp_group_list, n, g)
    /\ igmp_group_list' = [igmp_group_list EXCEPT ![<<n, g>>] =
         IF @.group_state = "DELAYING_MEMBER"
         THEN [@ EXCEPT !.timer = 0, !.group_state = "IDLE_MEMBER", !.last_reporter_flag = 0] ELSE @]
    /\ router' = [router EXCEPT ![<<n, g>>] = [@ EXCEPT !.reporter = "other", !.due = Never]]
    /\ UNCHANGED mac_filter

\* igmp_report_groups, when a netif comes up: of the all systems group too.
igmp_report_groups(n) ==
    /\ Delaying({p \in Places : p[1] = n /\ Listed(igmp_group_list, n, p[2])}, IGMP_JOIN_DELAYING_MEMBER_TMR)
    /\ UNCHANGED router

\* igmp_tmr and igmp_timeout.
Due == {p \in Places : igmp_group_list[p].timer = 1 /\ igmp_group_list[p].group_state = "DELAYING_MEMBER"}
igmp_tmr ==
    \E sent \in [Due -> BOOLEAN] :
        /\ igmp_group_list' = [p \in Places |->
             LET group == [igmp_group_list[p] EXCEPT !.timer = IF @ > 0 THEN @ - 1 ELSE 0] IN
             IF p \in Due THEN Reported(group, sent[p]) ELSE group]
        /\ router' = [p \in Places |->
             IF p \in Due THEN Heard(router[p], sent[p])
             ELSE [router[p] EXCEPT !.due = IF @ > 0 THEN @ - 1 ELSE @]]
        /\ UNCHANGED mac_filter

Next ==
    \/ igmp_tmr
    \/ \E n \in Netifs :
         \/ igmp_start(n) \/ igmp_stop(n) \/ igmp_report_groups(n)
         \/ \E maxresp \in MAXRESP : GeneralQuery(n, maxresp)
         \/ \E g \in GROUPS : Report(n, g) \/ \E maxresp \in MAXRESP : GroupQuery(n, g, maxresp)
    \/ \E ifaddr \in 0..NETIFS, g \in GROUPS : igmp_joingroup(ifaddr, g) \/ igmp_leavegroup(ifaddr, g)
Spec == Init /\ [][Next]_igmpVars

-----------------------------------------------------------------------------
TypeOK ==
    /\ \A p \in Places :
         /\ igmp_group_list[p].group_state \in {"NULL", "DELAYING_MEMBER", "IDLE_MEMBER"}
         /\ igmp_group_list[p].timer \in Nat /\ igmp_group_list[p].use \in 0..USES
    /\ mac_filter \subseteq Places

\* A netif lets through exactly the groups that someone uses on it.
FilterMatches == \A p \in Places : p \in mac_filter <=> igmp_group_list[p].use > 0

\* A query is answered within the time it asked for, by this host or another,
\* whatever was waiting before.
QueriesAnswered == \A p \in Places : router[p].due # 0

\* Routers that heard of a group from this host last are told when its last
\* user leaves it, unless there was no memory; and only then.
RoutersTold ==
    \A p \in Places :
        /\ Listed(igmp_group_list, p[1], p[2]) =>
             (igmp_group_list[p].last_reporter_flag = 1 <=> router[p].reporter = "us")
        /\ ~Listed(igmp_group_list, p[1], p[2]) /\ router[p].reporter = "us" => router[p].lost

IgmpSound == FilterMatches /\ QueriesAnswered /\ RoutersTold

=============================================================================
