------------------------------ MODULE Platform ------------------------------
(***************************************************************************)
(* The cloud client of examples/IoT_Demo (user_esp_platform.c), as it is    *)
(* configured: the light, with USE_DNS and AP_CACHE.  One timer,            *)
(* client_timer, does everything that waits: each arming takes the place of *)
(* what it was armed for before.  Espconn, the resolver and the station are *)
(* external; every wait of theirs may end in any way.  Left out: what the   *)
(* light does with a command, the upgrade's transfer, and what only the web *)
(* page or the radio reads (device_status, the wifi mode).                       *)
(***************************************************************************)
EXTENDS Integers

CONSTANTS
    RECON,           \* failures after which another access point is tried: 5
    WRAP,            \* device_recon_count counts modulo 256
    DNS_TABLE_SIZE,  \* lookups the resolver takes at a time: 4
    LINKS,           \* TCP connections espconn allows: 5
    REQUESTS         \* bound: requests of the local web page

PlatformAssumption == RECON \in 1..(WRAP - 1) /\ {WRAP, DNS_TABLE_SIZE, LINKS, REQUESTS} \subseteq Nat

VARIABLES
    client,         \* the file's variables, and what others hold for it
    requests,  \* requests of the local web page so far
    refused,   \* history: the last espconn_connect failed
    starved,   \* history: no memory for the last ping
    answered   \* history: this connection brought a message

platformVars == <<client, requests, refused, starved, answered>>

Messages == {"activated", "sys_upgrade", "sys_reboot", "set timers",
             "request", "ping success", "device", "other"}

\* The state user_esp_platform_init leaves.
Boot(activeflag) ==
    [client_timer |-> "check_ip", beacon_timer |-> FALSE,
     device_recon_count |-> 0, activeflag |-> activeflag,
     ping_status |-> 0, esp_server_ip |-> FALSE, pbuffer |-> {}, upgrading |-> FALSE,
     state |-> "NONE", closing |-> FALSE, connecting |-> 0, connected |-> 0, lookups |-> 0]
Init ==
    /\ client \in {Boot(0), Boot(1)}
    /\ requests = 0 /\ refused = FALSE /\ starved = FALSE /\ answered = FALSE

-----------------------------------------------------------------------------
\* user_esp_platform_reset_mode.  Mutant: as without AP_CACHE, nothing waits.
user_esp_platform_reset_mode_NoCache(q) == [q EXCEPT !.client_timer = "off"]
user_esp_platform_reset_mode(q) == [q EXCEPT !.client_timer = "ap_change"]

\* espconn_gethostbyname: an address the resolver still knows is stored in
\* esp_server_ip at once, and no callback follows.
Lookups == {"known", "asked", "refused"}
espconn_gethostbyname(q, lookup) ==
    CASE lookup = "known" -> [q EXCEPT !.esp_server_ip = TRUE]
      [] lookup = "asked" /\ q.lookups < DNS_TABLE_SIZE -> [q EXCEPT !.lookups = @ + 1]
      [] OTHER -> q

user_esp_platform_start_dns(q, lookup) ==
    [espconn_gethostbyname([q EXCEPT !.esp_server_ip = FALSE], lookup) EXCEPT !.client_timer = "dns_check"]

\* user_esp_platform_check_ip; station is what wifi_station_get_connect_status
\* returns, "other" while there is no address yet.
Stations == {"GOT_IP", "failed", "other"}
user_esp_platform_check_ip(q, reset_flag, station, lookup) ==
    CASE station = "GOT_IP" ->
           user_esp_platform_start_dns(
             [q EXCEPT !.state = "NONE", !.beacon_timer = FALSE,
                       !.device_recon_count = IF reset_flag THEN 0 ELSE @], lookup)
      [] station = "failed" -> user_esp_platform_reset_mode(q)
      [] OTHER -> [q EXCEPT !.client_timer = "check_ip"]

\* The failures counted in one variable, by user_esp_platform_recon_cb and
\* user_esp_platform_dns_found.
Failed(q) == [q EXCEPT !.device_recon_count = (@ + 1) % WRAP]
AllTried(q) == q.device_recon_count = RECON

\* user_esp_platform_sent and the other senders: without memory, nothing.
Sendings(q) == {q} \cup (IF q.connected > 0 THEN {[q EXCEPT !.state = "WRITE"]} ELSE {})
\* user_esp_platform_discon, of a connection that espconn finds.
user_esp_platform_discon(q) == IF q.connected > 0 THEN [q EXCEPT !.state = "CLOSE", !.closing = TRUE] ELSE q

-----------------------------------------------------------------------------
\* client_timer runs out.
client_timer ==
    /\ client.client_timer # "off"
    /\ LET off == [client EXCEPT !.client_timer = "off"] IN
       \/ /\ client.client_timer \in {"check_ip", "reconnect"}
          /\ \E station \in Stations, lookup \in Lookups :
               client' = user_esp_platform_check_ip(off, FALSE, station, lookup)
          /\ UNCHANGED <<refused, starved, answered>>
       \/ /\ client.client_timer = "dns_check"
          /\ \E lookup \in Lookups : client' = espconn_gethostbyname(client, lookup)
          /\ UNCHANGED <<refused, starved, answered>>
       \/ /\ client.client_timer = "timer_get"
          /\ client' \in Sendings(off)
          /\ UNCHANGED <<refused, starved, answered>>
       \/ /\ client.client_timer = "ap_change"
          /\ client' = [client EXCEPT !.client_timer = "check_ip", !.device_recon_count = 0]
          /\ UNCHANGED <<refused, starved, answered>>
       \/ /\ client.client_timer = "reboot"
          /\ client' = Boot(client.activeflag)
          /\ refused' = FALSE /\ starved' = FALSE /\ answered' = FALSE
    /\ UNCHANGED requests

\* user_esp_platform_sent_beacon.
user_esp_platform_sent_beacon ==
    /\ client.beacon_timer
    /\ LET off == [client EXCEPT !.beacon_timer = FALSE] IN
       \/ /\ client.state = "CONNECT" /\ client.activeflag = 0
          /\ client' \in Sendings(off) /\ UNCHANGED starved
       \/ /\ client.state = "CONNECT" /\ client.activeflag = 1 /\ client.ping_status = 1
          /\ \/ /\ client' \in {[q EXCEPT !.ping_status = 0, !.beacon_timer = TRUE] : q \in Sendings(client)}
                /\ UNCHANGED starved
             \/ client' = off /\ starved' = TRUE
       \/ /\ client.state = "CONNECT" => client.activeflag = 1 /\ client.ping_status = 0
          /\ client' = user_esp_platform_discon(off) /\ UNCHANGED starved
    /\ UNCHANGED <<requests, refused, answered>>

\* user_esp_platform_dns_found, without and with an address.
NotFound ==
    /\ client.lookups > 0
    /\ LET q == Failed([client EXCEPT !.lookups = @ - 1]) IN
       client' = IF AllTried(q) THEN user_esp_platform_reset_mode(q) ELSE q
    /\ UNCHANGED <<requests, refused, starved, answered>>
Found ==
    /\ client.lookups > 0
    /\ LET q == [client EXCEPT !.lookups = @ - 1]
           found == [q EXCEPT !.client_timer = "off", !.esp_server_ip = TRUE, !.ping_status = 1]
       IN \/ client.esp_server_ip /\ client' = q /\ UNCHANGED refused
          \/ /\ ~client.esp_server_ip /\ client.connecting + client.connected < LINKS
             /\ client' = [found EXCEPT !.connecting = @ + 1, !.state = "WAIT"] /\ refused' = FALSE
          \/ ~client.esp_server_ip /\ client' = found /\ refused' = TRUE
    /\ UNCHANGED <<requests, starved, answered>>

user_esp_platform_connect_cb ==
    /\ client.connecting > 0
    /\ client' \in Sendings([client EXCEPT !.connecting = @ - 1, !.connected = @ + 1, !.state = "CONNECT",
                                 !.device_recon_count = 0])
    /\ starved' = FALSE /\ answered' = FALSE
    /\ UNCHANGED <<requests, refused>>

\* user_esp_platform_recon_cb: a connection ends by an error.
user_esp_platform_recon_cb ==
    /\ \E field \in {"connecting", "connected"} :
         /\ client[field] > 0
         /\ LET q == Failed([client EXCEPT ![field] = @ - 1, !.closing = FALSE, !.beacon_timer = FALSE]) IN
            client' = IF AllTried(q) THEN user_esp_platform_reset_mode(q) ELSE [q EXCEPT !.client_timer = "reconnect"]
    /\ UNCHANGED <<requests, refused, starved, answered>>

\* user_esp_platform_discon_cb: a connection is closed, by either side.
user_esp_platform_discon_cb ==
    /\ client.connected > 0
    /\ \E station \in Stations, lookup \in Lookups :
         client' = user_esp_platform_check_ip(
                [client EXCEPT !.connected = @ - 1, !.closing = FALSE, !.beacon_timer = FALSE],
                FALSE, station, lookup)
    /\ UNCHANGED <<requests, refused, starved, answered>>

\* Espconn is done with a packet.
Sent ==
    /\ client.state = "WRITE"
    /\ client' = [client EXCEPT !.state = "CONNECT"]
    /\ UNCHANGED <<requests, refused, starved, answered>>

\* user_esp_platform_recv_cb: of what the buffer holds, the first that is
\* looked for is acted upon.  Mutant: only a whole message arms the beacon.
Rank(m) == CASE m = "activated" -> 1 [] m = "sys_upgrade" -> 2
             [] m = "sys_reboot" -> 3 [] m = "set timers" -> 4 [] m = "request" -> 5
             [] m = "ping success" -> 6 [] m = "device" -> 8 [] OTHER -> 7
Handled(q, m) ==
    CASE m = "activated" -> {Boot(1)}
      [] m = "sys_upgrade" -> {[r EXCEPT !.upgrading = TRUE] : r \in Sendings(q)}
      [] m = "sys_reboot" -> {[q EXCEPT !.client_timer = "reboot"]}
      [] m = "set timers" -> {[r EXCEPT !.client_timer = "timer_get"] : r \in Sendings(q)}
      [] m \in {"request", "device"} -> Sendings(q)
      [] m = "ping success" -> {[q EXCEPT !.ping_status = 1]}
      [] OTHER -> {q}
\* A segment of 1460 bytes is taken for the first piece of a message.
Piece(m) ==
    /\ client.connected > 0
    /\ client' = [client EXCEPT !.pbuffer = {m}, !.beacon_timer = TRUE]
    /\ answered' = TRUE /\ starved' = FALSE /\ UNCHANGED <<requests, refused>>
user_esp_platform_recv_cb_Quiet(m) ==
    /\ client.connected > 0
    /\ \E first \in client.pbuffer \cup {m} :
         /\ \A other \in client.pbuffer \cup {m} : Rank(first) <= Rank(other)
         /\ client' \in Handled([client EXCEPT !.pbuffer = {}, !.beacon_timer = m # "other"], first)
         /\ IF first = "activated" THEN refused' = FALSE /\ starved' = FALSE /\ answered' = FALSE
            ELSE answered' = TRUE /\ starved' = FALSE /\ UNCHANGED refused
    /\ UNCHANGED requests
user_esp_platform_recv_cb(m) ==
    /\ client.connected > 0
    /\ \E first \in client.pbuffer \cup {m} :
         /\ \A other \in client.pbuffer \cup {m} : Rank(first) <= Rank(other)
         /\ client' \in Handled([client EXCEPT !.pbuffer = {}, !.beacon_timer = TRUE], first)
         /\ IF first = "activated" THEN refused' = FALSE /\ starved' = FALSE /\ answered' = FALSE
            ELSE answered' = TRUE /\ starved' = FALSE /\ UNCHANGED refused
    /\ UNCHANGED requests

\* user_esp_platform_upgrade_rsp.
UpgradeEnds ==
    /\ client.upgrading
    /\ client' \in Sendings([client EXCEPT !.upgrading = FALSE])
    /\ UNCHANGED <<requests, refused, starved, answered>>

-----------------------------------------------------------------------------
\* What the local web page asks for: another access point, a new token, or
\* everything forgotten.
Configure ==
    /\ requests < REQUESTS /\ requests' = requests + 1
    /\ \/ /\ \E station \in Stations, lookup \in Lookups :
               client' = user_esp_platform_check_ip([client EXCEPT !.client_timer = "off"], TRUE, station, lookup)
          /\ UNCHANGED <<refused, starved, answered>>
       \/ /\ client' = [client EXCEPT !.activeflag = 0]
          /\ UNCHANGED <<refused, starved, answered>>
       \/ /\ client' = Boot(0)
          /\ refused' = FALSE /\ starved' = FALSE /\ answered' = FALSE

Next ==
    \/ client_timer \/ user_esp_platform_sent_beacon \/ NotFound \/ Found
    \/ user_esp_platform_connect_cb \/ user_esp_platform_recon_cb \/ user_esp_platform_discon_cb
    \/ Sent \/ UpgradeEnds \/ Configure
    \/ \E m \in Messages : user_esp_platform_recv_cb(m) \/ Piece(m)
Spec == Init /\ [][Next]_platformVars
-----------------------------------------------------------------------------
\* The fields' types.
TypeOK ==
    /\ client.client_timer \in {"off", "check_ip", "reconnect", "dns_check", "timer_get", "reboot", "ap_change"}
    /\ client.device_recon_count \in 0..(WRAP - 1) /\ client.activeflag \in {0, 1} /\ client.ping_status \in {0, 1}
    /\ client.state \in {"NONE", "WAIT", "CONNECT", "WRITE", "CLOSE"}
    /\ client.connecting + client.connected \in 0..LINKS /\ client.lookups \in 0..DNS_TABLE_SIZE
    /\ client.pbuffer \subseteq Messages

\* The client always waits for something that will wake it: its timer, or a
\* connection.  Only a connect that espconn refuses, whose result nobody
\* reads, leaves it with nothing.
Awake == client.client_timer # "off" \/ client.connecting + client.connected > 0 \/ refused

\* A server that falls silent is noticed: once it said something the beacon
\* runs, unless the client is on its way to another connection, has closed
\* this one, had no memory for the ping, or is not activated.
Reconnecting == client.client_timer \in {"reconnect", "check_ip", "dns_check", "ap_change"} \/ client.connecting > 0
Listens ==
    client.connected > 0 /\ answered /\ ~client.beacon_timer =>
        client.closing \/ starved \/ refused \/ client.activeflag = 0 \/ Reconnecting

PlatformSound == Awake /\ Listens

=============================================================================
