-------------------------------- MODULE Mdns --------------------------------
(***************************************************************************)
(* The multicast DNS responder (core/mdns.c, app/espconn_mdns.c): it        *)
(* announces a service four times after its start, answers questions for it *)
(* and for the list of services, and may be started, closed, enabled,       *)
(* disabled, registered and unregistered by the application at any time.    *)
(* A name is a sequence of letters and dots; in a message it is a sequence  *)
(* of labels, each after its length, up to a 0 or to a reference to the     *)
(* name at the start of the message.                                        *)
(***************************************************************************)
EXTENDS Integers, Sequences, FiniteSets, SequencesExt

CONSTANTS
    INFOS,          \* bound: times that the responder is started
    USES,           \* bound: other calls of the application
    ANNOUNCEMENTS   \* sent after the start, less one

MdnsAssumption == {INFOS, USES, ANNOUNCEMENTS} \subseteq Nat

DOT == 46
LOCAL_NAME == <<12>>            \* "local"
TCP_LOCAL == <<DOT, 11, DOT>> \o LOCAL_NAME
DNS_SD_SERVICE == <<1, DOT, 2, DOT, 13, DOT>> \o LOCAL_NAME
Hosts == {<<3>>, <<3, 4, DOT, 5>>}
Services == {<<6>>, <<6, 7>>}
Netifs == {"sta", "ap"}

\* An information block: what a start was given; 0 is no block.
Ids == 0..INFOS
VARIABLES
    infos,          \* the blocks given so far
    ms_info, mdns_pcb, orphans, \* the current block, a pcb, and pcbs that were lost
    bound,          \* the current pcb is bound to the port
    recv, arg,      \* its handler is set, and the block that gets
    register_flag, mdns_flag,
    mdns_timer,     \* armed, its block, and the static count of announcements
    member,         \* uses of the group on each netif
    host_addr,      \* the netif whose address was given last
    opmode,
    host_name, service_name, PUCK_SERVICE,
    usesLeft, early, moved, \* closed while announcing; the mode changed after a start
    freedUsed       \* a block that was freed has been read

mdnsVars == <<infos, ms_info, mdns_pcb, orphans, bound, recv, arg, register_flag, mdns_flag, mdns_timer,
    member, host_addr, opmode, host_name, service_name, PUCK_SERVICE, usesLeft, early, moved, freedUsed>>
names == <<host_name, service_name, PUCK_SERVICE, host_addr>>
socket == <<mdns_pcb, orphans, bound, recv, arg>>

Default == <<15, DOT, 11, DOT, 14>>     \* "_Espressif._tcp._local"
Init ==
    /\ infos = <<>> /\ ms_info = 0
    /\ mdns_pcb = FALSE /\ orphans = 0 /\ bound = FALSE /\ recv = FALSE /\ arg = 0
    /\ register_flag = FALSE /\ mdns_flag = FALSE
    /\ mdns_timer = [armed |-> FALSE, info |-> 0, i |-> 0]
    /\ member = [n \in Netifs |-> 0] /\ opmode \in {{"sta"}, {"ap"}, Netifs}
    /\ host_addr = "none" /\ host_name = <<>> /\ service_name = <<>> /\ PUCK_SERVICE = Default
    /\ usesLeft = USES /\ early = FALSE /\ moved = FALSE /\ freedUsed = FALSE

-----------------------------------------------------------------------------
\* Names in a message.
Labels(name) ==
    FoldLeft(LAMBDA labels, c : IF c = DOT THEN Append(labels, <<>>)
                                ELSE Front(labels) \o <<Append(Last(labels), c)>>, <<<<>>>>, name)
Encoded(name) == FlattenSeq([i \in 1..Len(Labels(name)) |-> <<Len(Labels(name)[i])>> \o Labels(name)[i]])
End == <<0>>
Reference == <<192, 12>>    \* DNS_OFFSET_FLAG, DNS_DEFAULT_OFFSET

\* A mutant: names are equal when their last labels are.
mdns_compare_name_Last(query, labels) == IF Last(Labels(query)) = Last(labels) THEN {0} ELSE {1}
\* mdns_compare_name: the outcomes, 0 for equal.  The comparison ends with the
\* name in the message, or with a reference in it; a name that is longer than
\* the one it is compared with is compared with what lies behind that.
mdns_compare_name(query, labels) ==
    LET at(i) == 1 + FoldLeft(LAMBDA n, l : n + Len(l) + 1, 0, SubSeq(labels, 1, i - 1))
        differs(i) == \E k \in 1..Len(labels[i]) : at(i) + k - 1 <= Len(query) /\ query[at(i) + k - 1] # labels[i][k]
        tooLong(i) == at(i) + Len(labels[i]) - 1 > Len(query)
    IN IF \E i \in 1..Len(labels) : differs(i) \/ (tooLong(i) /\ at(i) <= Len(query) + 1) THEN {1}
       ELSE IF \E i \in 1..Len(labels) : tooLong(i) THEN {0, 1} ELSE {0}

\* mdns_answer, for the list of services: PTR to the service's name.
mdns_answer ==
    <<[name |-> Encoded(DNS_SD_SERVICE) \o End, type |-> "PTR", len |-> Len(PUCK_SERVICE) + 1 + 1,
       data |-> Encoded(PUCK_SERVICE) \o End]>>

\* mdns_send_service: the records of one message.  The text "vendor = Espressif"
\* comes before those of the block; the target is the host as named at the start.
Own(info) == Encoded(info.host) \o Reference
PtrRecord(info) ==
    [name |-> Encoded(PUCK_SERVICE) \o End, type |-> "PTR", len |-> Len(info.host) + 2 + 1, data |-> Own(info)]
TxtRecord(info) ==
    LET texts == <<<<16>>>> \o info.txt
    IN [name |-> Own(info), type |-> "TXT", len |-> FoldLeft(LAMBDA n, t : n + Len(t) + 1, 0, texts),
        data |-> FlattenSeq([i \in 1..Len(texts) |-> <<Len(texts[i])>> \o texts[i]])]
Target == service_name \o <<DOT>> \o LOCAL_NAME
\* A mutant: the length leaves out the end of the name.
SrvRecord_Short(info) ==
    [name |-> Own(info), type |-> "SRV", len |-> 6 + Len(Target) + 1, data |-> [i \in 1..6 |-> 0] \o Encoded(Target) \o End]
SrvRecord(info) ==
    [name |-> Own(info), type |-> "SRV", len |-> 6 + Len(Target) + 2, data |-> [i \in 1..6 |-> 0] \o Encoded(Target) \o End]
AddressRecord == [name |-> Encoded(Target) \o End, type |-> "A", len |-> 4, data |-> [i \in 1..4 |-> 0]]
mdns_send_service(info) == <<PtrRecord(info), TxtRecord(info), SrvRecord(info), AddressRecord>>

\* What is sent when a question comes: the answers mdns_recv gives it.
mdns_recv(labels) ==
    UNION {IF c = 0 THEN {mdns_answer}
           ELSE {IF d = 0 THEN mdns_send_service(infos[arg].info) ELSE <<>> : d \in mdns_compare_name(PUCK_SERVICE, labels)}
             : c \in mdns_compare_name(DNS_SD_SERVICE, labels)}

-----------------------------------------------------------------------------
Joins(n) == member' = [member EXCEPT ![n] = @ + 1]

\* mdns_set_hostname copies the letters and no end: a longer name before it
\* shows behind them.  mdns_set_servername makes a name of the service.
Over(new, old) == new \o SubSeq(old, Len(new) + 1, Len(old))
Named(info) ==
    /\ host_name' = Over(info.host, host_name)
    /\ service_name' = info.host /\ host_addr' = info.home
    /\ PUCK_SERVICE' = info.server \o TCP_LOCAL

\* mdns_init: a new block, even if there is one; each failure leaves what has
\* been done.  Two pcbs cannot be bound to the port.
Fresh(info) ==
    /\ Len(infos) < INFOS /\ info.home \in opmode
    /\ infos' = Append(infos, [info |-> info, freed |-> FALSE])
    /\ ms_info' = Len(infos) + 1
    /\ UNCHANGED <<opmode, usesLeft, early, moved, freedUsed>>
NoAddress(info) ==
    /\ Fresh(info)
    /\ UNCHANGED <<socket, register_flag, mdns_flag, mdns_timer, member, names>>
NewPcb == mdns_pcb' = TRUE /\ orphans' = orphans + (IF mdns_pcb /\ bound THEN 1 ELSE 0)
\* The addresses joined in the order of the code: the host's in a mode with a
\* station, the softap's in a mode with a softap.
JoinedBy(info) ==
    [n \in Netifs |-> member[n] + (IF "sta" \in opmode /\ info.home = n THEN 1 ELSE 0) + (IF "ap" \in opmode /\ n = "ap" THEN 1 ELSE 0)]
Incomplete(info) ==
    /\ Fresh(info) /\ Named(info)
    /\ \/ mdns_pcb' = FALSE /\ orphans' = orphans + (IF mdns_pcb /\ bound THEN 1 ELSE 0) /\ UNCHANGED <<member, register_flag>>
       \/ NewPcb /\ UNCHANGED <<member, register_flag>>
       \/ NewPcb /\ opmode = Netifs /\ Joins(info.home) /\ UNCHANGED register_flag
       \/ NewPcb /\ member' = JoinedBy(info) /\ register_flag' = TRUE
    /\ bound' = FALSE /\ recv' = FALSE /\ arg' = 0
    /\ UNCHANGED <<mdns_flag, mdns_timer>>
Started(info) ==
    /\ Fresh(info) /\ Named(info)
    /\ ~(mdns_pcb /\ bound) /\ orphans = 0
    /\ NewPcb /\ member' = JoinedBy(info) /\ register_flag' = TRUE
    /\ bound' = TRUE /\ recv' = TRUE /\ arg' = ms_info'
    /\ mdns_flag' = TRUE
    /\ mdns_timer' = [mdns_timer EXCEPT !.armed = TRUE, !.info = ms_info']
mdns_init(info) == NoAddress(info) \/ Incomplete(info) \/ Started(info)

\* A mutant: closing leaves the handler.
mdns_close_Keeps ==
    /\ mdns_pcb /\ ms_info # 0
    /\ infos' = [infos EXCEPT ![ms_info].freed = TRUE]
    /\ ms_info' = 0
    /\ early' = (early \/ (mdns_timer.armed /\ mdns_timer.info = ms_info))
    /\ UNCHANGED <<socket, register_flag, mdns_flag, mdns_timer, member, opmode, names, moved, freedUsed>>
\* mdns_close: neither the timer nor the group is given up.
mdns_close ==
    /\ mdns_pcb /\ ms_info # 0
    /\ mdns_pcb' = FALSE /\ bound' = FALSE /\ recv' = FALSE /\ arg' = 0
    /\ infos' = [infos EXCEPT ![ms_info].freed = TRUE]
    /\ ms_info' = 0
    /\ early' = (early \/ (mdns_timer.armed /\ mdns_timer.info = ms_info))
    /\ UNCHANGED <<orphans, register_flag, mdns_flag, mdns_timer, member, opmode, names, moved, freedUsed>>

\* mdns_disable leaves mdns_flag set, so that mdns_enable does nothing later.
mdns_disable ==
    /\ mdns_flag /\ mdns_pcb
    /\ recv' = FALSE /\ arg' = 0
    /\ UNCHANGED <<infos, ms_info, mdns_pcb, orphans, bound, register_flag, mdns_flag, mdns_timer, member, opmode, names,
                   early, moved, freedUsed>>

mdns_server_register ==
    /\ ~register_flag /\ host_addr \in opmode
    /\ Joins(host_addr)
    /\ register_flag' = TRUE
    /\ UNCHANGED <<infos, ms_info, socket, mdns_flag, mdns_timer, opmode, names, early, moved, freedUsed>>

\* mdns_server_unregister: the host's address first, and then the softap's; the
\* one that is no member ends it.
mdns_server_unregister ==
    /\ register_flag /\ host_addr \in opmode /\ member[host_addr] > 0
    /\ LET left == [member EXCEPT ![host_addr] = @ - 1] IN
       IF "ap" \notin opmode THEN member' = left /\ register_flag' = FALSE
       ELSE IF left["ap"] = 0 THEN member' = left /\ UNCHANGED register_flag
       ELSE member' = [left EXCEPT !["ap"] = @ - 1] /\ register_flag' = FALSE
    /\ UNCHANGED <<infos, ms_info, socket, mdns_flag, mdns_timer, opmode, names, early, moved, freedUsed>>

mdns_set_hostname(name) ==
    /\ host_name' = Over(name, host_name)
    /\ UNCHANGED <<infos, ms_info, socket, register_flag, mdns_flag, mdns_timer, member, opmode, service_name, PUCK_SERVICE, host_addr,
                   early, moved, freedUsed>>
mdns_set_servername(name) ==
    /\ PUCK_SERVICE' = name \o TCP_LOCAL
    /\ UNCHANGED <<infos, ms_info, socket, register_flag, mdns_flag, mdns_timer, member, opmode, host_name, service_name, host_addr,
                   early, moved, freedUsed>>

\* Not in mdns.c: the application changes the mode.
SetOpmode ==
    /\ opmode' \in {{"sta"}, {"ap"}, Netifs} \ {opmode} /\ moved' = (moved \/ infos # <<>>)
    /\ UNCHANGED <<infos, ms_info, socket, register_flag, mdns_flag, mdns_timer, member, names, early, freedUsed>>

\* mdns_reg, each second: the count is never set back, so that a later start
\* announces what the first ones left.
mdns_reg ==
    /\ mdns_timer.armed
    /\ IF mdns_timer.i <= ANNOUNCEMENTS
       THEN /\ mdns_timer' = [mdns_timer EXCEPT !.i = @ + 1]
            /\ freedUsed' = (freedUsed \/ infos[mdns_timer.info].freed)
       ELSE mdns_timer' = [mdns_timer EXCEPT !.armed = FALSE] /\ UNCHANGED freedUsed
    /\ UNCHANGED <<infos, ms_info, socket, register_flag, mdns_flag, member, opmode, names, usesLeft, early, moved>>

Call ==
    \/ mdns_close \/ mdns_disable \/ mdns_server_register \/ mdns_server_unregister \/ SetOpmode
    \/ \E name \in Hosts : mdns_set_hostname(name)
    \/ \E name \in Services : mdns_set_servername(name)
Infos == [host : {<<3>>}, server : {<<6>>}, txt : {<<>>}, home : Netifs]
         \cup [host : {<<3, 4, DOT, 5>>}, server : {<<6, 7>>}, txt : {<<<<8>>, <<8, 9>>>>}, home : Netifs]
Next ==
    \/ usesLeft > 0 /\ usesLeft' = usesLeft - 1 /\ Call
    \/ \E info \in Infos : mdns_init(info)
    \/ mdns_reg
Spec == Init /\ [][Next]_mdnsVars

-----------------------------------------------------------------------------
TypeOK ==
    /\ ms_info \in Ids /\ arg \in Ids /\ mdns_timer.info \in Ids /\ mdns_timer.i \in 0..(ANNOUNCEMENTS + 1)
    /\ \A n \in Netifs : member[n] \in Nat
    /\ orphans \in Nat /\ register_flag \in BOOLEAN /\ mdns_flag \in BOOLEAN

\* The blocks that the handler, the timer and the next close will read are not
\* freed; the timer's is only when the responder was closed while it announced
\* itself (mdns.c:920, 1132).
BlocksLive ==
    /\ recv => arg # 0 /\ ~infos[arg].freed
    /\ ms_info # 0 => ~infos[ms_info].freed
    /\ mdns_timer.armed /\ ~early => ~infos[mdns_timer.info].freed
    /\ freedUsed => early

\* A responder that counts as registered is a member of the group, as long as
\* the mode stays that of a station: with a softap, leaving fails at an address
\* that was not joined, and the note stays (mdns.c:1009-1012).
RegisteredHears == register_flag /\ ~moved /\ opmode = {"sta"} => member["sta"] > 0

\* A resolver reads the names that were meant from the messages, and each
\* record is as long as it says (mdns.c:609-641, 724-755).
Decoded(bytes, first) ==
    LET Step(acc, b) ==
            IF acc.done THEN acc
            ELSE IF acc.left > 0
                 THEN [acc EXCEPT !.left = @ - 1, !.labels = Front(@) \o <<Append(Last(@), b)>>]
            ELSE IF b = 0 THEN [acc EXCEPT !.done = TRUE]
            ELSE IF b = 192 THEN [acc EXCEPT !.done = TRUE, !.labels = @ \o first]
            ELSE [acc EXCEPT !.left = b, !.labels = Append(@, <<>>)]
    IN FoldLeft(Step, [left |-> 0, labels |-> <<>>, done |-> FALSE], bytes).labels
MessagesRead ==
    recv =>
        LET m == mdns_send_service(infos[arg].info)
            service == Labels(PUCK_SERVICE)
            named == [i \in 1..Len(m) |-> Decoded(m[i].name, service)]
            own == Labels(infos[arg].info.host) \o service
            target == Labels(service_name \o <<DOT>> \o LOCAL_NAME)
        IN /\ \A i \in 1..Len(m) : m[i].len = Len(m[i].data)
           /\ named = <<service, own, own, target>>
           /\ Decoded(m[1].data, service) = own
           /\ Decoded(SubSeq(m[3].data, 7, Len(m[3].data)), service) = target
           /\ mdns_answer[1].len = Len(mdns_answer[1].data) /\ Decoded(mdns_answer[1].data, <<>>) = service

\* The questions for the list of services and for the service are answered, and
\* one for another name of no more labels is not (mdns.c:224-249, 875-884).
RightAnswers ==
    recv =>
        /\ mdns_recv(Labels(DNS_SD_SERVICE)) = {mdns_answer}
        /\ mdns_recv(Labels(PUCK_SERVICE)) = {mdns_send_service(infos[arg].info)}
        /\ mdns_recv(Labels(<<6, 8>> \o TCP_LOCAL)) = {<<>>}

MdnsSound == BlocksLive /\ RegisteredHears /\ MessagesRead /\ RightAnswers

=============================================================================
