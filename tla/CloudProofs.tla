---------------------------- MODULE CloudProofs ----------------------------
(***************************************************************************)
(* Proofs about what is checked beside the detection.  The two programs of   *)
(* IoT_Demo: the cloud client, which one timer and its connections keep      *)
(* awake, and the web server, whose requests share one set of variables; for *)
(* any number of connections, lookups, access points and entries of a page,  *)
(* and images of any length.  And UDP with raw IP and espconn's UDP: lists   *)
(* that are reordered while they are walked, for any number of blocks.       *)
(***************************************************************************)
EXTENDS MCDetect, FiniteSetTheorems, SequenceTheorems, WellFoundedInduction, TLAPS

LEMMA PlatformNumbers ==
    /\ RECON \in Nat \ {0} /\ WRAP \in Nat /\ RECON < WRAP
    /\ DNS_TABLE_SIZE \in Nat /\ LINKS \in Nat
  BY PartsAssumption DEF L!PlatformAssumption
LEMMA WebserverNumbers ==
    PIECES \in Nat \ {0} /\ SEGMENTS \in Nat /\ FOUND \subseteq Nat /\ PAGE \in Nat \ {0}
  BY PartsAssumption DEF B!WebserverAssumption

-----------------------------------------------------------------------------
(* The cloud client.                                                        *)

USE PlatformNumbers

Clients ==
    [client_timer : {"off", "check_ip", "reconnect", "dns_check", "timer_get", "reboot", "ap_change"},
     beacon_timer : BOOLEAN, device_recon_count : 0..(WRAP - 1), activeflag : {0, 1},
     ping_status : {0, 1}, esp_server_ip : BOOLEAN, pbuffer : SUBSET L!Messages,
     upgrading : BOOLEAN, state : {"NONE", "WAIT", "CONNECT", "WRITE", "CLOSE"},
     closing : BOOLEAN, connecting : Nat, connected : Nat, lookups : 0..DNS_TABLE_SIZE]
Connections(q) == q.connecting + q.connected
PlatformTyped ==
    /\ client \in Clients /\ Connections(client) <= LINKS
    /\ refused \in BOOLEAN /\ starved \in BOOLEAN /\ answered \in BOOLEAN

\* The timer that asks for the device's timers is armed on a connection, and
\* it leaves nothing behind.
GetsTimers == client.client_timer = "timer_get" => Connections(client) > 0 \/ refused

PlatformInv == PlatformTyped /\ L!Awake /\ L!Listens /\ GetsTimers

\* The fields that say what wakes the client and who listens.
Links(q) == <<q.connecting, q.connected, q.closing, q.activeflag>>

LEMMA BootTyped ==
    \A flag \in {0, 1} :
      LET q == L!Boot(flag) IN
      q \in Clients /\ Connections(q) = 0 /\ q.client_timer = "check_ip" /\ q.connected = 0
  BY DEF L!Boot, Clients, Connections

LEMMA LookedUp ==
    ASSUME NEW q \in Clients, NEW lookup
    PROVE  LET r == L!espconn_gethostbyname(q, lookup) IN
           /\ r \in Clients /\ Links(r) = Links(q)
           /\ r.client_timer = q.client_timer /\ r.beacon_timer = q.beacon_timer
<1> DEFINE known == [q EXCEPT !.esp_server_ip = TRUE]
           asked == [q EXCEPT !.lookups = @ + 1]
<1>1. known \in Clients /\ Links(known) = Links(q)
      /\ known.client_timer = q.client_timer /\ known.beacon_timer = q.beacon_timer
  BY DEF Clients, Links
<1>2. q.lookups < DNS_TABLE_SIZE =>
      /\ asked \in Clients /\ Links(asked) = Links(q)
      /\ asked.client_timer = q.client_timer /\ asked.beacon_timer = q.beacon_timer
  BY DEF Clients, Links
<1>3. L!espconn_gethostbyname(q, lookup) \in
        {known, q} \cup (IF q.lookups < DNS_TABLE_SIZE THEN {asked} ELSE {})
  BY DEF L!espconn_gethostbyname
<1>. QED BY <1>1, <1>2, <1>3

LEMMA DnsStarted ==
    ASSUME NEW q \in Clients, NEW lookup
    PROVE  LET r == L!user_esp_platform_start_dns(q, lookup) IN
           /\ r \in Clients /\ Links(r) = Links(q)
           /\ r.client_timer = "dns_check" /\ r.beacon_timer = q.beacon_timer
<1> DEFINE p == [q EXCEPT !.esp_server_ip = FALSE]
           s == L!espconn_gethostbyname(p, lookup)
<1>1. p \in Clients /\ Links(p) = Links(q) /\ p.beacon_timer = q.beacon_timer
  BY DEF Clients, Links
<1>2. s \in Clients /\ Links(s) = Links(p) /\ s.beacon_timer = p.beacon_timer
  BY <1>1, LookedUp
<1> HIDE DEF s
<1>3. LET r == [s EXCEPT !.client_timer = "dns_check"] IN
      r \in Clients /\ Links(r) = Links(s) /\ r.client_timer = "dns_check" /\ r.beacon_timer = s.beacon_timer
  BY <1>2 DEF Clients, Links
<1>. QED BY <1>1, <1>2, <1>3 DEF L!user_esp_platform_start_dns, s

\* Whoever checks the address waits afterwards.
LEMMA IpChecked ==
    ASSUME NEW q \in Clients, NEW flag \in BOOLEAN, NEW station, NEW lookup
    PROVE  LET r == L!user_esp_platform_check_ip(q, flag, station, lookup) IN
           /\ r \in Clients /\ Links(r) = Links(q)
           /\ r.client_timer \in {"check_ip", "dns_check", "ap_change"}
<1> DEFINE p == [q EXCEPT !.state = "NONE", !.beacon_timer = FALSE,
                          !.device_recon_count = IF flag THEN 0 ELSE @]
<1>1. p \in Clients /\ Links(p) = Links(q)
  <2>1. (IF flag THEN 0 ELSE q.device_recon_count) \in 0..(WRAP - 1)
    BY DEF Clients
  <2>. QED BY <2>1 DEF Clients, Links
<1>2. LET r == L!user_esp_platform_start_dns(p, lookup) IN
      r \in Clients /\ Links(r) = Links(q) /\ r.client_timer = "dns_check"
  BY <1>1, DnsStarted
<1>3. LET r == [q EXCEPT !.client_timer = "ap_change"] IN
      r \in Clients /\ Links(r) = Links(q) /\ r.client_timer = "ap_change"
  BY DEF Clients, Links
<1>4. LET r == [q EXCEPT !.client_timer = "check_ip"] IN
      r \in Clients /\ Links(r) = Links(q) /\ r.client_timer = "check_ip"
  BY DEF Clients, Links
<1>. QED BY <1>2, <1>3, <1>4 DEF L!user_esp_platform_check_ip, L!user_esp_platform_reset_mode

LEMMA SendingTyped ==
    ASSUME NEW q \in Clients, NEW r \in L!Sendings(q)
    PROVE  /\ r \in Clients /\ Links(r) = Links(q)
           /\ r.client_timer = q.client_timer /\ r.beacon_timer = q.beacon_timer
  BY DEF L!Sendings, Clients, Links

\* A failure is counted, and either the next access point is tried or the
\* timer is that of q.
LEMMA FailureCounted ==
    ASSUME NEW q \in Clients
    PROVE  LET f == L!Failed(q) IN
           /\ f \in Clients /\ Links(f) = Links(q)
           /\ f.client_timer = q.client_timer /\ f.beacon_timer = q.beacon_timer
<1>1. ((q.device_recon_count + 1) % WRAP) \in 0..(WRAP - 1)
  BY DEF Clients
<1>. QED BY <1>1 DEF L!Failed, Clients, Links

LEMMA Disconnects ==
    ASSUME NEW q \in Clients
    PROVE  LET r == L!user_esp_platform_discon(q) IN
           /\ r \in Clients /\ r.connecting = q.connecting /\ r.connected = q.connected
           /\ r.activeflag = q.activeflag /\ r.client_timer = q.client_timer
           /\ q.connected > 0 => r.closing
  BY ZenonT(40) DEF L!user_esp_platform_discon, Clients

-----------------------------------------------------------------------------
LEMMA PlatformInitially == L!Init => PlatformInv
<1> SUFFICES ASSUME L!Init PROVE PlatformInv
  OBVIOUS
<1>1. client \in Clients /\ Connections(client) = 0 /\ client.client_timer = "check_ip" /\ client.connected = 0
  BY BootTyped DEF L!Init
<1>2. refused \in BOOLEAN /\ starved \in BOOLEAN /\ answered \in BOOLEAN
  BY DEF L!Init
<1>3. Connections(client) <= LINKS
  BY <1>1
<1>4. L!Awake /\ L!Listens /\ GetsTimers
  BY <1>1 DEF L!Awake, L!Listens, GetsTimers
<1>. QED BY <1>1, <1>2, <1>3, <1>4 DEF PlatformInv, PlatformTyped

\* A step that leaves the connections and whoever listens, and waits for the
\* next try, or for what it waited for before.
Waits(q) == q.client_timer \in {"check_ip", "reconnect", "dns_check", "ap_change"}
LEMMA WaitingKeeps ==
    ASSUME client' \in Clients, Connections(client') <= LINKS, Waits(client'),
           refused' \in BOOLEAN, starved' \in BOOLEAN, answered' \in BOOLEAN
    PROVE  PlatformInv'
<1>1. PlatformTyped'
  BY DEF PlatformTyped
<1>2. L!Awake' /\ L!Listens'
  BY DEF Waits, L!Awake, L!Listens, L!Reconnecting
<1>3. GetsTimers'
  BY DEF Waits, GetsTimers
<1>. QED BY <1>1, <1>2, <1>3 DEF PlatformInv

LEMMA BootKeeps ==
    ASSUME NEW flag \in {0, 1}, client' = L!Boot(flag),
           refused' = FALSE, starved' = FALSE, answered' = FALSE
    PROVE  PlatformInv'
<1>1. client' \in Clients /\ Connections(client') = 0 /\ Waits(client')
  BY BootTyped DEF Waits
<1>2. Connections(client') <= LINKS
  BY <1>1
<1>3. refused' \in BOOLEAN /\ starved' \in BOOLEAN /\ answered' \in BOOLEAN
  OBVIOUS
<1>. QED BY <1>1, <1>2, <1>3, WaitingKeeps

\* The same connections and histories, and the beacon still running, keep it
\* whatever is armed, if something is.
LEMMA SameKeeps ==
    ASSUME PlatformInv, client' \in Clients, Links(client') = Links(client),
           client'.client_timer = client.client_timer,
           client'.beacon_timer = client.beacon_timer,
           UNCHANGED <<refused, starved, answered>>
    PROVE  PlatformInv'
<1>1. /\ client'.connecting = client.connecting /\ client'.connected = client.connected
      /\ client'.closing = client.closing /\ client'.activeflag = client.activeflag
  BY DEF Links
<1>2. Connections(client') = Connections(client)
  BY <1>1 DEF Connections
<1>3. PlatformTyped'
  BY <1>2 DEF PlatformTyped, PlatformInv
<1>4. L!Awake'
  BY <1>1 DEF L!Awake, PlatformInv
<1>5. L!Listens'
  BY <1>1 DEF L!Listens, L!Reconnecting, PlatformInv
<1>6. GetsTimers'
  BY <1>2 DEF GetsTimers, PlatformInv
<1>. QED BY <1>3, <1>4, <1>5, <1>6 DEF PlatformInv

LEMMA TimerKeeps == ASSUME PlatformInv, L!client_timer PROVE PlatformInv'
<1> DEFINE off == [client EXCEPT !.client_timer = "off"]
<1>1. client \in Clients /\ Connections(client) <= LINKS
      /\ refused \in BOOLEAN /\ starved \in BOOLEAN /\ answered \in BOOLEAN
  BY DEF PlatformInv, PlatformTyped
<1>2. off \in Clients /\ Links(off) = Links(client) /\ off.client_timer = "off"
      /\ off.beacon_timer = client.beacon_timer
  BY <1>1 DEF Clients, Links
<1> HIDE DEF off
<1>3. CASE /\ \E station \in L!Stations, lookup \in L!Lookups :
                client' = L!user_esp_platform_check_ip(off, FALSE, station, lookup)
           /\ UNCHANGED <<refused, starved, answered>>
  <2>0. PICK station \in L!Stations, lookup \in L!Lookups :
          client' = L!user_esp_platform_check_ip(off, FALSE, station, lookup)
    BY <1>3
  <2>1. client' \in Clients /\ Links(client') = Links(client) /\ Waits(client')
    BY <1>2, <2>0, IpChecked, ZenonT(40) DEF Waits
  <2>2. Connections(client') <= LINKS
    BY <1>1, <2>1 DEF Links, Connections
  <2>. QED BY <1>1, <1>3, <2>1, <2>2, WaitingKeeps
<1>4. CASE /\ \E lookup \in L!Lookups : client' = L!espconn_gethostbyname(client, lookup)
           /\ UNCHANGED <<refused, starved, answered>>
  BY <1>1, <1>4, LookedUp, SameKeeps
<1>5. CASE /\ client.client_timer = "timer_get" /\ client' \in L!Sendings(off)
           /\ UNCHANGED <<refused, starved, answered>>
  <2>1. client' \in Clients /\ Links(client') = Links(off) /\ client'.client_timer = "off"
        /\ client'.beacon_timer = client.beacon_timer
    BY <1>2, <1>5, SendingTyped
  <2>2. /\ client'.connecting = client.connecting /\ client'.connected = client.connected
        /\ client'.closing = client.closing /\ client'.activeflag = client.activeflag
    BY <1>2, <2>1 DEF Links
  <2>3. Connections(client') = Connections(client)
    BY <2>2 DEF Connections
  <2>4. PlatformTyped'
    BY <1>1, <1>5, <2>1, <2>3 DEF PlatformTyped
  <2>5. L!Awake'
    BY <1>5, <2>2 DEF L!Awake, PlatformInv, GetsTimers, Connections
  <2>6. L!Listens'
    BY <1>5, <2>1, <2>2 DEF L!Listens, L!Reconnecting, PlatformInv
  <2>. QED BY <2>1, <2>4, <2>5, <2>6 DEF PlatformInv, GetsTimers
<1>6. CASE /\ client' = [client EXCEPT !.client_timer = "check_ip", !.device_recon_count = 0]
           /\ UNCHANGED <<refused, starved, answered>>
  <2>0. 0 \in 0..(WRAP - 1)
    OBVIOUS
  <2>1. client' \in Clients /\ Links(client') = Links(client) /\ client'.client_timer = "check_ip"
    BY <1>1, <1>6, <2>0 DEF Clients, Links
  <2>2. Connections(client') <= LINKS
    BY <1>1, <2>1 DEF Links, Connections
  <2>3. Waits(client')
    BY <2>1 DEF Waits
  <2>. QED BY <1>1, <1>6, <2>1, <2>2, <2>3, WaitingKeeps
<1>7. CASE client' = L!Boot(client.activeflag) /\ refused' = FALSE /\ starved' = FALSE /\ answered' = FALSE
  <2>1. client.activeflag \in {0, 1}
    BY <1>1 DEF Clients
  <2>. QED BY <1>7, <2>1, BootKeeps
<1>. QED BY <1>3, <1>4, <1>5, <1>6, <1>7 DEF L!client_timer, off

LEMMA BeaconKeeps == ASSUME PlatformInv, L!user_esp_platform_sent_beacon PROVE PlatformInv'
<1> DEFINE off == [client EXCEPT !.beacon_timer = FALSE]
<1>1. client \in Clients /\ Connections(client) <= LINKS
      /\ refused \in BOOLEAN /\ starved \in BOOLEAN /\ answered \in BOOLEAN
  BY DEF PlatformInv, PlatformTyped
<1>2. off \in Clients /\ Links(off) = Links(client) /\ off.client_timer = client.client_timer
  BY <1>1 DEF Clients, Links
<1> HIDE DEF off
<1>3. \/ client.activeflag = 0 /\ client' \in L!Sendings(off) /\ UNCHANGED starved
      \/ /\ client' \in {[q EXCEPT !.ping_status = 0, !.beacon_timer = TRUE] : q \in L!Sendings(client)}
         /\ UNCHANGED starved
      \/ client' = off /\ starved' = TRUE
      \/ client' = L!user_esp_platform_discon(off) /\ UNCHANGED starved
  BY DEF L!user_esp_platform_sent_beacon, off
<1>4. UNCHANGED <<refused, answered>>
  BY DEF L!user_esp_platform_sent_beacon
\* Where the beacon stops there is a reason to listen no more.
<1>5. /\ client' \in Clients /\ client'.connecting = client.connecting
      /\ client'.connected = client.connected
      /\ client'.client_timer = client.client_timer /\ starved' \in BOOLEAN
      /\ \/ client'.beacon_timer \/ client'.activeflag = 0 \/ starved'
         \/ client'.connected > 0 => client'.closing
  <2>1. CASE client.activeflag = 0 /\ client' \in L!Sendings(off) /\ UNCHANGED starved
    BY <1>1, <1>2, <2>1, SendingTyped DEF Links
  <2>2. CASE client' \in {[q EXCEPT !.ping_status = 0, !.beacon_timer = TRUE] : q \in L!Sendings(client)}
             /\ UNCHANGED starved
    <3>1. PICK q \in L!Sendings(client) : client' = [q EXCEPT !.ping_status = 0, !.beacon_timer = TRUE]
      BY <2>2
    <3>2. q \in Clients /\ Links(q) = Links(client) /\ q.client_timer = client.client_timer
      BY <1>1, <3>1, SendingTyped
    <3>. QED BY <1>1, <2>2, <3>1, <3>2 DEF Clients, Links
  <2>3. CASE client' = off /\ starved' = TRUE
    BY <1>2, <2>3 DEF Links
  <2>4. CASE client' = L!user_esp_platform_discon(off) /\ UNCHANGED starved
    <3>1. /\ client' \in Clients /\ client'.connecting = off.connecting /\ client'.connected = off.connected
          /\ client'.client_timer = off.client_timer /\ (off.connected > 0 => client'.closing)
      BY <1>2, <2>4, Disconnects
    <3>2. off.connecting = client.connecting /\ off.connected = client.connected
      BY <1>2 DEF Links
    <3>. QED BY <1>1, <1>2, <2>4, <3>1, <3>2
  <2>. QED BY <1>3, <2>1, <2>2, <2>3, <2>4
<1>6. Connections(client') = Connections(client)
  BY <1>5 DEF Connections
<1>7. PlatformTyped'
  BY <1>1, <1>4, <1>5, <1>6 DEF PlatformTyped
<1>8. L!Awake' /\ GetsTimers'
  BY <1>4, <1>5, <1>6 DEF L!Awake, GetsTimers, PlatformInv
<1>9. L!Listens'
  BY <1>5 DEF L!Listens
<1>. QED BY <1>7, <1>8, <1>9 DEF PlatformInv

LEMMA LookupKeeps == ASSUME PlatformInv, L!NotFound \/ L!Found PROVE PlatformInv'
<1> DEFINE q == [client EXCEPT !.lookups = @ - 1]
<1>1. client \in Clients /\ Connections(client) <= LINKS /\ client.lookups > 0
      /\ refused \in BOOLEAN /\ starved \in BOOLEAN /\ answered \in BOOLEAN
  BY DEF PlatformInv, PlatformTyped, L!NotFound, L!Found
<1>2. q \in Clients /\ Links(q) = Links(client) /\ q.client_timer = client.client_timer
      /\ q.beacon_timer = client.beacon_timer
  BY <1>1 DEF Clients, Links
<1> HIDE DEF q
<1>3. UNCHANGED <<starved, answered>>
  BY DEF L!NotFound, L!Found
<1>4. CASE L!NotFound
  <2> DEFINE f == L!Failed(q)
  <2>1. f \in Clients /\ Links(f) = Links(client) /\ f.client_timer = client.client_timer
        /\ f.beacon_timer = client.beacon_timer
    BY <1>2, FailureCounted
  <2>2. (client' = f \/ client' = L!user_esp_platform_reset_mode(f)) /\ UNCHANGED refused
    BY <1>4 DEF L!NotFound, q
  <2> HIDE DEF f
  <2>3. CASE client' = f
    BY <1>3, <2>1, <2>2, <2>3, SameKeeps
  <2>4. CASE client' = L!user_esp_platform_reset_mode(f)
    <3>1. client' \in Clients /\ Links(client') = Links(client) /\ Waits(client')
      BY <2>1, <2>4 DEF L!user_esp_platform_reset_mode, Clients, Links, Waits
    <3>2. Connections(client') <= LINKS
      BY <1>1, <3>1 DEF Links, Connections
    <3>. QED BY <1>1, <1>3, <2>2, <3>1, <3>2, WaitingKeeps
  <2>. QED BY <2>2, <2>3, <2>4
<1>5. CASE L!Found
  <2> DEFINE found == [q EXCEPT !.client_timer = "off", !.esp_server_ip = TRUE, !.ping_status = 1]
  <2>1. /\ found \in Clients /\ found.client_timer = "off" /\ found.beacon_timer = client.beacon_timer
        /\ found.connecting = client.connecting /\ found.connected = client.connected
        /\ found.closing = client.closing /\ found.activeflag = client.activeflag
    BY <1>2 DEF Clients, Links
  <2> HIDE DEF found
  <2>2. \/ client' = q /\ UNCHANGED refused
        \/ /\ Connections(client) < LINKS /\ refused' = FALSE
           /\ client' = [found EXCEPT !.connecting = @ + 1, !.state = "WAIT"]
        \/ client' = found /\ refused' = TRUE
    BY <1>5 DEF L!Found, q, found, Connections
  <2>3. CASE client' = q /\ UNCHANGED refused
    BY <1>2, <1>3, <2>3, SameKeeps
  <2>4. CASE /\ Connections(client) < LINKS /\ refused' = FALSE
             /\ client' = [found EXCEPT !.connecting = @ + 1, !.state = "WAIT"]
    <3>0. found.connecting \in Nat /\ found.connecting + 1 \in Nat
      BY <2>1 DEF Clients
    <3>1. /\ client' \in Clients /\ client'.client_timer = "off"
          /\ client'.connecting = client.connecting + 1 /\ client'.connected = client.connected
      BY <2>1, <2>4, <3>0 DEF Clients
    <3>2. client.connecting \in Nat /\ client.connected \in Nat /\ LINKS \in Nat
      BY <1>1 DEF Clients
    <3>3. Connections(client') <= LINKS /\ client'.connecting > 0 /\ Connections(client') > 0
      BY <2>4, <3>1, <3>2 DEF Connections
    <3>4. PlatformTyped'
      BY <1>1, <1>3, <2>4, <3>1, <3>3 DEF PlatformTyped
    <3>5. L!Awake' /\ L!Listens' /\ GetsTimers'
      BY <3>1, <3>3 DEF L!Awake, L!Listens, L!Reconnecting, GetsTimers, Connections
    <3>. QED BY <3>4, <3>5 DEF PlatformInv
  <2>5. CASE client' = found /\ refused' = TRUE
    <3>1. Connections(client') = Connections(client)
      BY <2>1, <2>5 DEF Connections
    <3>2. PlatformTyped'
      BY <1>1, <1>3, <2>1, <2>5, <3>1 DEF PlatformTyped
    <3>. QED BY <2>5, <3>2 DEF PlatformInv, L!Awake, L!Listens, GetsTimers
  <2>. QED BY <2>2, <2>3, <2>4, <2>5
<1>. QED BY <1>4, <1>5

LEMMA ConnectKeeps == ASSUME PlatformInv, L!user_esp_platform_connect_cb PROVE PlatformInv'
<1> DEFINE q == [client EXCEPT !.connecting = @ - 1, !.connected = @ + 1, !.state = "CONNECT",
                               !.device_recon_count = 0]
<1>1. client \in Clients /\ Connections(client) <= LINKS /\ client.connecting > 0
      /\ refused \in BOOLEAN
  BY DEF PlatformInv, PlatformTyped, L!user_esp_platform_connect_cb
<1>0. client.connecting - 1 \in Nat /\ client.connected + 1 \in Nat /\ 0 \in 0..(WRAP - 1)
  BY <1>1 DEF Clients
<1>2. q \in Clients /\ q.client_timer = client.client_timer /\ q.connected = client.connected + 1
      /\ q.connecting = client.connecting - 1
  BY <1>0, <1>1 DEF Clients
<1> HIDE DEF q
<1>3. client' \in L!Sendings(q) /\ starved' = FALSE /\ answered' = FALSE /\ UNCHANGED refused
  BY DEF L!user_esp_platform_connect_cb, q
<1>4. /\ client' \in Clients /\ client'.client_timer = client.client_timer
      /\ client'.connected = client.connected + 1 /\ client'.connecting = client.connecting - 1
  BY <1>2, <1>3, SendingTyped DEF Links
<1>5. client.connecting \in Nat /\ client.connected \in Nat
  BY <1>1 DEF Clients
<1>6. Connections(client') = Connections(client) /\ Connections(client') > 0
  BY <1>1, <1>4, <1>5 DEF Connections
<1>7. PlatformTyped'
  BY <1>1, <1>3, <1>4, <1>6 DEF PlatformTyped
<1>8. L!Awake' /\ L!Listens' /\ GetsTimers'
  BY <1>3, <1>6 DEF L!Awake, L!Listens, GetsTimers, Connections
<1>. QED BY <1>7, <1>8 DEF PlatformInv

\* A connection ends, by an error or by a close.
LEMMA EndKeeps ==
    ASSUME PlatformInv, L!user_esp_platform_recon_cb \/ L!user_esp_platform_discon_cb PROVE PlatformInv'
<1>1. client \in Clients /\ Connections(client) <= LINKS
      /\ refused \in BOOLEAN /\ starved \in BOOLEAN /\ answered \in BOOLEAN
  BY DEF PlatformInv, PlatformTyped
<1>2. client.connecting \in Nat /\ client.connected \in Nat /\ LINKS \in Nat
  BY <1>1 DEF Clients
<1>3. UNCHANGED <<refused, starved, answered>>
  BY DEF L!user_esp_platform_recon_cb, L!user_esp_platform_discon_cb
<1>4. CASE L!user_esp_platform_recon_cb
  <2>1. PICK field \in {"connecting", "connected"} :
          /\ client[field] > 0
          /\ LET q == L!Failed([client EXCEPT ![field] = @ - 1, !.closing = FALSE, !.beacon_timer = FALSE]) IN
             client' = IF L!AllTried(q) THEN L!user_esp_platform_reset_mode(q)
                       ELSE [q EXCEPT !.client_timer = "reconnect"]
    BY <1>4 DEF L!user_esp_platform_recon_cb
  <2> DEFINE e == [client EXCEPT ![field] = @ - 1, !.closing = FALSE, !.beacon_timer = FALSE]
             f == L!Failed(e)
  <2>2. e \in Clients /\ Connections(e) = Connections(client) - 1
    <3>1. CASE field = "connecting"
      <4>1. client.connecting > 0
        BY <2>1, <3>1, Zenon
      <4>2. client.connecting - 1 \in Nat
        BY <1>2, <4>1
      <4>3. e \in Clients /\ e.connecting = client.connecting - 1 /\ e.connected = client.connected
        BY <1>1, <3>1, <4>2 DEF Clients
      <4> HIDE DEF e
      <4>. QED BY <1>2, <4>3 DEF Connections
    <3>2. CASE field = "connected"
      <4>1. client.connected > 0
        BY <2>1, <3>2, Zenon
      <4>2. client.connected - 1 \in Nat
        BY <1>2, <4>1
      <4>3. e \in Clients /\ e.connecting = client.connecting /\ e.connected = client.connected - 1
        BY <1>1, <3>2, <4>2 DEF Clients
      <4> HIDE DEF e
      <4>. QED BY <1>2, <4>3 DEF Connections
    <3>. QED BY <3>1, <3>2
  <2> HIDE DEF e
  <2>3. f \in Clients /\ Links(f) = Links(e)
    BY <2>2, FailureCounted
  <2>4. client' \in {L!user_esp_platform_reset_mode(f), [f EXCEPT !.client_timer = "reconnect"]}
    BY <2>1 DEF e
  <2> HIDE DEF f
  <2>5. client' \in Clients /\ Links(client') = Links(f) /\ Waits(client')
    BY <2>3, <2>4 DEF L!user_esp_platform_reset_mode, Clients, Links, Waits
  <2>6. Connections(client') = Connections(e)
    BY <2>3, <2>5 DEF Links, Connections
  <2>7. Connections(client') <= LINKS
    BY <1>1, <1>2, <2>2, <2>6 DEF Connections
  <2>. QED BY <1>1, <1>3, <2>5, <2>7, WaitingKeeps
<1>5. CASE L!user_esp_platform_discon_cb
  <2> DEFINE e == [client EXCEPT !.connected = @ - 1, !.closing = FALSE, !.beacon_timer = FALSE]
  <2>1. client.connected > 0 /\ \E station \in L!Stations, lookup \in L!Lookups :
          client' = L!user_esp_platform_check_ip(e, FALSE, station, lookup)
    BY <1>5 DEF L!user_esp_platform_discon_cb
  <2>2. e \in Clients /\ Connections(e) = Connections(client) - 1
    <3>1. client.connected - 1 \in Nat
      BY <1>2, <2>1
    <3>2. e \in Clients /\ e.connecting = client.connecting /\ e.connected = client.connected - 1
      BY <1>1, <3>1 DEF Clients
    <3>. QED BY <1>2, <3>2 DEF Connections
  <2> HIDE DEF e
  <2>3. client' \in Clients /\ Links(client') = Links(e) /\ Waits(client')
    BY ZenonT(40), <2>1, <2>2, IpChecked DEF Waits
  <2>4. Connections(client') = Connections(e)
    BY <2>3 DEF Links, Connections
  <2>5. Connections(client') <= LINKS
    BY <1>1, <1>2, <2>2, <2>4 DEF Connections
  <2>. QED BY <1>1, <1>3, <2>3, <2>5, WaitingKeeps
<1>. QED BY <1>4, <1>5

\* What a message does leaves the connections and, unless it ends the client's
\* activation, the beacon that it armed.
LEMMA UpgradingTyped ==
    ASSUME NEW r \in Clients
    PROVE  LET s == [r EXCEPT !.upgrading = TRUE] IN
           s \in Clients /\ Links(s) = Links(r) /\ s.beacon_timer = r.beacon_timer
<1> DEFINE s == [r EXCEPT !.upgrading = TRUE]
<1>1. s \in Clients
  BY DEF Clients
<1>2. /\ s.connecting = r.connecting /\ s.connected = r.connected /\ s.closing = r.closing
      /\ s.activeflag = r.activeflag /\ s.beacon_timer = r.beacon_timer
  BY DEF Clients
<1> HIDE DEF s
<1>. QED BY <1>1, <1>2 DEF Links, s

LEMMA MessageKeeps ==
    ASSUME PlatformInv, NEW m \in L!Messages, L!user_esp_platform_recv_cb(m) PROVE PlatformInv'
<1> DEFINE q == [client EXCEPT !.pbuffer = {}, !.beacon_timer = TRUE]
<1>1. client \in Clients /\ Connections(client) <= LINKS /\ client.connected > 0
      /\ refused \in BOOLEAN
  BY DEF PlatformInv, PlatformTyped, L!user_esp_platform_recv_cb
<1>2. PICK first \in client.pbuffer \cup {m} :
        /\ client' \in L!Handled(q, first)
        /\ IF first = "activated" THEN refused' = FALSE /\ starved' = FALSE /\ answered' = FALSE
           ELSE answered' = TRUE /\ starved' = FALSE /\ UNCHANGED refused
  BY DEF L!user_esp_platform_recv_cb
<1>3. q \in Clients /\ Links(q) = Links(client) /\ q.beacon_timer = TRUE
  BY <1>1 DEF Clients, Links
<1> HIDE DEF q
<1>4. CASE first = "activated"
  <2>1. client' = L!Boot(1)
    BY <1>2, <1>4 DEF L!Handled
  <2>. QED BY <1>2, <1>4, <2>1, BootKeeps
<1>5. CASE first # "activated"
  <2>1. \/ client' \in L!Sendings(q) \/ client' = q
        \/ client' \in {[r EXCEPT !.upgrading = TRUE] : r \in L!Sendings(q)}
        \/ client' = [q EXCEPT !.client_timer = "reboot"]
        \/ client' \in {[r EXCEPT !.client_timer = "timer_get"] : r \in L!Sendings(q)}
        \/ client' = [q EXCEPT !.ping_status = 1]
    BY <1>2, <1>5 DEF L!Handled
  <2>2. \A r \in L!Sendings(q) : r \in Clients /\ Links(r) = Links(q) /\ r.beacon_timer = TRUE
    BY <1>3, SendingTyped
  <2>3. client' \in Clients /\ Links(client') = Links(q) /\ client'.beacon_timer = TRUE
    <3>1. CASE client' \in L!Sendings(q) \/ client' = q
      BY <1>3, <2>2, <3>1
    <3>2. CASE client' \in {[r EXCEPT !.upgrading = TRUE] : r \in L!Sendings(q)}
      <4>1. PICK r \in L!Sendings(q) : client' = [r EXCEPT !.upgrading = TRUE]
        BY <3>2
      <4>2. r \in Clients /\ Links(r) = Links(q) /\ r.beacon_timer = TRUE
        BY <2>2
      <4>. QED BY <4>1, <4>2, UpgradingTyped
    <3>3. CASE client' = [q EXCEPT !.client_timer = "reboot"] \/ client' = [q EXCEPT !.ping_status = 1]
      BY <1>3, <3>3 DEF Clients, Links
    <3>4. CASE client' \in {[r EXCEPT !.client_timer = "timer_get"] : r \in L!Sendings(q)}
      <4>1. PICK r \in L!Sendings(q) : client' = [r EXCEPT !.client_timer = "timer_get"]
        BY <3>4
      <4>. QED BY <2>2, <4>1 DEF Clients, Links
    <3>. QED BY <2>1, <3>1, <3>2, <3>3, <3>4
  <2>4. /\ client'.connecting = client.connecting /\ client'.connected = client.connected
        /\ client.connecting \in Nat /\ client.connected \in Nat
    BY <1>1, <1>3, <2>3 DEF Links, Clients
  <2>5. Connections(client') = Connections(client) /\ Connections(client') > 0
    BY <1>1, <2>4 DEF Connections
  <2>6. PlatformTyped'
    BY <1>1, <1>2, <1>5, <2>3, <2>5 DEF PlatformTyped
  <2>7. L!Awake' /\ L!Listens' /\ GetsTimers'
    BY <2>3, <2>5 DEF L!Awake, L!Listens, GetsTimers, Connections
  <2>. QED BY <2>6, <2>7 DEF PlatformInv
<1>. QED BY <1>4, <1>5

LEMMA PieceKeeps ==
    ASSUME PlatformInv, NEW m \in L!Messages, L!Piece(m) PROVE PlatformInv'
<1>1. client \in Clients /\ Connections(client) <= LINKS /\ client.connected > 0
      /\ refused \in BOOLEAN
  BY DEF PlatformInv, PlatformTyped, L!Piece
<1>2. client' = [client EXCEPT !.pbuffer = {m}, !.beacon_timer = TRUE]
      /\ answered' = TRUE /\ starved' = FALSE /\ UNCHANGED refused
  BY DEF L!Piece
<1>3. /\ client' \in Clients /\ client'.beacon_timer = TRUE
      /\ client'.connecting = client.connecting /\ client'.connected = client.connected
      /\ client.connecting \in Nat /\ client.connected \in Nat
  BY <1>1, <1>2 DEF Clients
<1>4. Connections(client') = Connections(client) /\ Connections(client') > 0
  BY <1>1, <1>3 DEF Connections
<1>5. PlatformTyped'
  BY <1>1, <1>2, <1>3, <1>4 DEF PlatformTyped
<1>. QED BY <1>3, <1>4, <1>5 DEF PlatformInv, L!Awake, L!Listens, GetsTimers, Connections

LEMMA SentKeeps == ASSUME PlatformInv, L!Sent \/ L!UpgradeEnds PROVE PlatformInv'
<1> DEFINE q == [client EXCEPT !.upgrading = FALSE]
<1>1. client \in Clients
  BY DEF PlatformInv, PlatformTyped
<1>2. q \in Clients /\ Links(q) = Links(client) /\ q.client_timer = client.client_timer
      /\ q.beacon_timer = client.beacon_timer
  BY <1>1 DEF Clients, Links
<1> HIDE DEF q
<1>3. client' = [client EXCEPT !.state = "CONNECT"] \/ client' \in L!Sendings(q)
  BY DEF L!Sent, L!UpgradeEnds, q
<1>4. /\ client' \in Clients /\ Links(client') = Links(client)
      /\ client'.client_timer = client.client_timer /\ client'.beacon_timer = client.beacon_timer
  <2>1. CASE client' = [client EXCEPT !.state = "CONNECT"]
    BY <1>1, <2>1 DEF Clients, Links
  <2>2. CASE client' \in L!Sendings(q)
    BY <1>2, <2>2, SendingTyped
  <2>. QED BY <1>3, <2>1, <2>2
<1>5. UNCHANGED <<refused, starved, answered>>
  BY DEF L!Sent, L!UpgradeEnds
<1>. QED BY <1>4, <1>5, SameKeeps

LEMMA ConfigureKeeps == ASSUME PlatformInv, L!Configure PROVE PlatformInv'
<1> DEFINE off == [client EXCEPT !.client_timer = "off"]
<1>1. client \in Clients /\ Connections(client) <= LINKS
      /\ refused \in BOOLEAN /\ starved \in BOOLEAN /\ answered \in BOOLEAN
  BY DEF PlatformInv, PlatformTyped
<1>2. off \in Clients /\ Links(off) = Links(client)
  BY <1>1 DEF Clients, Links
<1> HIDE DEF off
<1>3. CASE /\ \E station \in L!Stations, lookup \in L!Lookups :
                client' = L!user_esp_platform_check_ip(off, TRUE, station, lookup)
           /\ UNCHANGED <<refused, starved, answered>>
  <2>0. PICK station \in L!Stations, lookup \in L!Lookups :
          client' = L!user_esp_platform_check_ip(off, TRUE, station, lookup)
    BY <1>3
  <2>1. client' \in Clients /\ Links(client') = Links(client) /\ Waits(client')
    <3>1. \A flag \in BOOLEAN : LET r == L!user_esp_platform_check_ip(off, flag, station, lookup) IN
            /\ r \in Clients /\ Links(r) = Links(off)
            /\ r.client_timer \in {"check_ip", "dns_check", "ap_change"}
      BY <1>2, IpChecked
    <3>2. LET r == L!user_esp_platform_check_ip(off, TRUE, station, lookup) IN
            /\ r \in Clients /\ Links(r) = Links(off)
            /\ r.client_timer \in {"check_ip", "dns_check", "ap_change"}
      BY <3>1
    <3>3. client'.client_timer \in {"check_ip", "dns_check", "ap_change"}
      BY <2>0, <3>2
    <3>4. Waits(client')
      BY <3>3 DEF Waits
    <3>. QED BY <1>2, <2>0, <3>2, <3>4
  <2>2. Connections(client') <= LINKS
    BY <1>1, <2>1 DEF Links, Connections
  <2>. QED BY <1>1, <1>3, <2>1, <2>2, WaitingKeeps
<1>4. CASE client' = [client EXCEPT !.activeflag = 0] /\ UNCHANGED <<refused, starved, answered>>
  <2>1. /\ client' \in Clients /\ client'.activeflag = 0
        /\ client'.connecting = client.connecting /\ client'.connected = client.connected
        /\ client'.client_timer = client.client_timer
    BY <1>1, <1>4 DEF Clients
  <2>2. Connections(client') = Connections(client)
    BY <2>1 DEF Connections
  <2>3. PlatformTyped'
    BY <1>1, <1>4, <2>1, <2>2 DEF PlatformTyped
  <2>4. L!Awake' /\ L!Listens' /\ GetsTimers'
    BY <1>4, <2>1, <2>2 DEF PlatformInv, L!Awake, L!Listens, GetsTimers
  <2>. QED BY <2>3, <2>4 DEF PlatformInv
<1>5. CASE client' = L!Boot(0) /\ refused' = FALSE /\ starved' = FALSE /\ answered' = FALSE
  BY <1>5, BootKeeps
<1>. QED BY <1>3, <1>4, <1>5 DEF L!Configure, off

LEMMA PlatformInductive == PlatformInv /\ [L!Next]_platformVars => PlatformInv'
<1> SUFFICES ASSUME PlatformInv, [L!Next]_platformVars PROVE PlatformInv'
  OBVIOUS
<1>1. CASE UNCHANGED platformVars
  BY <1>1 DEF platformVars, PlatformInv, PlatformTyped, L!Awake, L!Listens, L!Reconnecting, GetsTimers
<1>2. CASE L!Next
  BY <1>2, TimerKeeps, BeaconKeeps, LookupKeeps, ConnectKeeps, EndKeeps, MessageKeeps, PieceKeeps,
     SentKeeps, ConfigureKeeps DEF L!Next
<1>. QED BY <1>1, <1>2

-----------------------------------------------------------------------------
(* The web server.                                                          *)

USE WebserverNumbers

Parameters == {B!NULL, "blank", "ssid"}
Confs ==
    [sta_conf : Parameters, ap_conf : Parameters, rstparm : {B!NULL, "WIFI", "REBOOT"},
     restart_10ms : BOOLEAN]
Uploads ==
    [upgrade_lock : {0, 1}, flag : {"IDLE", "START", "FINISH"},
     upgrade_check_timer : {"off", "10ms", "120s"}, app_upgrade_10s : BOOLEAN,
     totallength : Nat, sumlength : 0..PIECES]
Images ==
    [segments : 0..SEGMENTS, pieces : Nat, of : Nat, mixed : BOOLEAN,
     result : {"none", "mixed", "whole", "broken"}]
Scans ==
    [pscaninfo : BOOLEAN, under_way : BOOLEAN, bss_head : BOOLEAN, scannum : Nat,
     totalpage : Nat, page_sn : Nat, data_cnt : Nat, bss : Nat]
Views == [page : Nat, first : Nat, jumped : BOOLEAN, finished : BOOLEAN]

\* What was counted are the pieces of the image under way, unless others were
\* counted with them.
Counted ==
    /\ upload.totallength <= image.segments
    /\ upload.totallength = 0 => image.pieces = 0 /\ image.of = 0
    /\ upload.totallength > 0 /\ ~image.mixed =>
         image.pieces = upload.totallength /\ image.of = upload.sumlength

\* The pages are those of the list, and the next entry is the one that follows
\* the last page asked for in turn.
Listed ==
    /\ scan.totalpage = (scan.scannum + PAGE - 1) \div PAGE
    /\ scan.bss <= scan.scannum
    /\ scan.bss_head => scan.scannum > 0
    /\ scan.totalpage > 0 /\ ~scan.bss_head => shown.finished
    /\ ~shown.jumped /\ shown.page * PAGE < scan.scannum => scan.bss = shown.page * PAGE

ConfigurationInv == conf \in Confs /\ read \in BOOLEAN /\ B!ConfigurationWaits
UploadInv == upload \in Uploads /\ image \in Images /\ Counted /\ B!UploadsEnd
ScanInv == scan \in Scans /\ shown \in Views /\ Listed /\ B!PagesInTurn
WebserverInv == ConfigurationInv /\ UploadInv /\ ScanInv

-----------------------------------------------------------------------------
(* The configuration that waits for its timer.                              *)

LEMMA NoConfiguration == B!NoConf \in Confs /\ (conf = B!NoConf => B!ConfigurationWaits)
  BY DEF B!NoConf, Confs, Parameters, B!ConfigurationWaits, B!NULL

LEMMA NullDiffers == B!NULL # "ssid" /\ B!NULL # "blank"
  BY DEF B!NULL

LEMMA ConfigurationRestarts == B!system_restart => ConfigurationInv'
<1> SUFFICES ASSUME B!system_restart PROVE ConfigurationInv'
  OBVIOUS
<1>1. conf' = B!NoConf /\ read' = FALSE
  BY DEF B!system_restart
<1>2. conf' \in Confs /\ ~conf'.restart_10ms
  BY <1>1, NoConfiguration DEF B!NoConf
<1>3. read' \in BOOLEAN
  BY <1>1
<1>. QED BY <1>2, <1>3 DEF ConfigurationInv, B!ConfigurationWaits

LEMMA Posted ==
    ASSUME ConfigurationInv, NEW station \in BOOLEAN, NEW softap \in BOOLEAN, B!PostWifi(station, softap)
    PROVE  ConfigurationInv'
<1> DEFINE sta == B!Given(conf.sta_conf, station)
           ap == B!Given(conf.ap_conf, softap)
<1>1. conf \in Confs
  BY DEF ConfigurationInv
<1>2. sta \in {"blank", "ssid"} /\ ap \in {"blank", "ssid"}
  BY <1>1 DEF Confs, Parameters, B!Given
<1>3. read' = FALSE /\ conf' = IF "ssid" \in {sta, ap}
                 THEN [sta_conf |-> sta, ap_conf |-> ap, rstparm |-> "WIFI", restart_10ms |-> TRUE]
                 ELSE B!NoConf
  BY DEF B!PostWifi
<1>4. read' \in BOOLEAN
  BY <1>3
<1> HIDE DEF sta, ap
<1>5. CASE "ssid" \in {sta, ap}
  <2>1. conf' = [sta_conf |-> sta, ap_conf |-> ap, rstparm |-> "WIFI", restart_10ms |-> TRUE]
    BY <1>3, <1>5
  <2>2. conf' \in Confs
    BY <1>2, <2>1 DEF Confs, Parameters
  <2>3. conf'.sta_conf = sta /\ conf'.ap_conf = ap
    BY <2>1
  <2>. QED BY <1>2, <1>4, <1>5, <2>2, <2>3, NullDiffers DEF ConfigurationInv, B!ConfigurationWaits, B!Present
<1>6. CASE "ssid" \notin {sta, ap}
  <2>1. conf' = B!NoConf
    BY <1>3, <1>6
  <2>2. conf' \in Confs /\ ~conf'.restart_10ms
    BY <2>1, NoConfiguration DEF B!NoConf
  <2>. QED BY <1>4, <2>2 DEF ConfigurationInv, B!ConfigurationWaits
<1>. QED BY <1>5, <1>6

\* The configuration's own requests, and its timer's callback.
LEMMA ConfigurationKeeps == ConfigurationInv /\ [B!Next]_webserverVars => ConfigurationInv'
<1> SUFFICES ASSUME ConfigurationInv, [B!Next]_webserverVars PROVE ConfigurationInv'
  OBVIOUS
<1>1. conf \in Confs /\ read \in BOOLEAN
  BY DEF ConfigurationInv
<1>2. CASE UNCHANGED <<conf, read>>
  BY <1>2 DEF ConfigurationInv, B!ConfigurationWaits, B!Present
<1>3. CASE B!system_restart
  BY <1>3, ConfigurationRestarts
<1>4. CASE B!GetWifi
  <2>1. conf' \in Confs /\ read' = TRUE
    BY <1>1, <1>4 DEF B!GetWifi, Confs, Parameters
  <2>2. read' \in BOOLEAN
    BY <2>1
  <2>. QED BY <2>1, <2>2 DEF ConfigurationInv, B!ConfigurationWaits
<1>5. CASE B!PostReboot
  <2>1. conf' \in Confs /\ conf'.rstparm = "REBOOT" /\ read' = read
    BY <1>1, <1>5 DEF B!PostReboot, Confs
  <2>. QED BY <1>1, <2>1 DEF ConfigurationInv, B!ConfigurationWaits
<1>6. CASE B!restart_10ms_cb
  <2>1. CASE conf' = B!NoConf /\ read' = read
    <3>1. conf' \in Confs /\ ~conf'.restart_10ms
      BY <2>1, NoConfiguration DEF B!NoConf
    <3>. QED BY <1>1, <2>1, <3>1 DEF ConfigurationInv, B!ConfigurationWaits
  <2>2. CASE /\ conf.rstparm = "REBOOT" /\ read' = read
             /\ \E closed \in BOOLEAN : conf' = [conf EXCEPT !.restart_10ms = ~closed]
    <3>1. conf' \in Confs /\ conf'.rstparm = "REBOOT"
      BY <1>1, <2>2 DEF Confs
    <3>. QED BY <1>1, <2>2, <3>1 DEF ConfigurationInv, B!ConfigurationWaits
  <2>. QED BY <1>3, <1>6, <2>1, <2>2 DEF B!restart_10ms_cb
<1>7. CASE \E station, softap \in BOOLEAN : B!PostWifi(station, softap)
  BY <1>7, Posted
<1>8. CASE B!Start \/ B!upgrade_check_timer \/ B!local_upgrade_deinit \/ B!local_upgrade_download
  BY SMTT(40), <1>2, <1>8 DEF B!Start, B!upgrade_check_timer, B!local_upgrade_deinit, B!local_upgrade_download
<1>9. CASE B!Scan \/ B!Finish \/ \E k \in 1..scan.totalpage : B!Page(k)
  BY <1>2, <1>9 DEF B!Scan, B!Finish, B!Page
<1>10. CASE \E found \in FOUND : B!json_scan_cb(found)
  BY <1>2, <1>3, <1>10 DEF B!json_scan_cb
<1>11. CASE UNCHANGED webserverVars
  BY <1>2, <1>11 DEF webserverVars
<1>. QED BY <1>3, <1>4, <1>5, <1>6, <1>7, <1>8, <1>9, <1>10, <1>11 DEF B!Next, B!system_upgrade_reboot

-----------------------------------------------------------------------------
(* The upload that holds the lock.                                          *)

LEMMA UploadTyped ==
    ASSUME UploadInv
    PROVE  /\ upload \in Uploads /\ image \in Images
           /\ upload.totallength \in Nat /\ upload.sumlength \in Nat
           /\ image.segments \in Nat /\ image.pieces \in Nat /\ image.of \in Nat
           /\ upload.upgrade_lock \in {0, 1}
  BY DEF UploadInv, Uploads, Images

LEMMA UploadRestarts == B!system_restart => UploadInv'
<1> SUFFICES ASSUME B!system_restart PROVE UploadInv'
  OBVIOUS
<1>1. upload' = B!NoUpload /\ image' = B!NoImage
  BY DEF B!system_restart
<1>2. /\ upload' \in Uploads /\ upload'.upgrade_lock = 0 /\ upload'.upgrade_check_timer = "off"
      /\ upload'.flag = "IDLE" /\ upload'.totallength = 0
  BY <1>1 DEF B!NoUpload, Uploads
<1>3. image' \in Images /\ image'.segments = 0 /\ image'.pieces = 0 /\ image'.of = 0 /\ image'.result = "none"
  BY <1>1 DEF B!NoImage, Images
<1>. QED BY <1>2, <1>3 DEF UploadInv, Counted, B!UploadsEnd

\* One more segment is counted: the upload goes on, or it ends and gives the
\* lock back.
LEMMA CountedOnce ==
    ASSUME NEW u \in Uploads
    PROVE  LET v == B!Counted(u) IN
           /\ v \in Uploads
           /\ u.totallength + 1 = u.sumlength =>
                /\ v.flag = "FINISH" /\ v.totallength = 0
                /\ v.upgrade_lock = 0 /\ v.upgrade_check_timer = "off"
           /\ u.totallength + 1 # u.sumlength =>
                /\ v.totallength = u.totallength + 1 /\ v.sumlength = u.sumlength
                /\ v.flag = u.flag /\ v.upgrade_lock = u.upgrade_lock
                /\ v.upgrade_check_timer = u.upgrade_check_timer
<1> DEFINE w == [u EXCEPT !.totallength = @ + 1]
           d == [w EXCEPT !.flag = "FINISH", !.totallength = 0, !.sumlength = 0,
                          !.app_upgrade_10s = TRUE]
           e == B!upgrade_check_func(d)
<1>0. u.totallength \in Nat /\ u.totallength + 1 \in Nat
  BY DEF Uploads
<1>1. /\ w \in Uploads /\ w.totallength = u.totallength + 1 /\ w.sumlength = u.sumlength
      /\ w.flag = u.flag /\ w.upgrade_lock = u.upgrade_lock
      /\ w.upgrade_check_timer = u.upgrade_check_timer
  BY <1>0 DEF Uploads
<1> HIDE DEF w
<1>2. 0 \in Nat /\ 0 \in 0..PIECES
  OBVIOUS
<1>3. d \in Uploads /\ d.flag = "FINISH" /\ d.totallength = 0
  BY <1>1, <1>2 DEF Uploads
<1> HIDE DEF d
<1>4. /\ e \in Uploads /\ e.flag = "FINISH" /\ e.totallength = 0
      /\ e.upgrade_lock = 0 /\ e.upgrade_check_timer = "off"
  BY <1>3 DEF Uploads, B!upgrade_check_func
<1> HIDE DEF e
<1>5. B!Counted(u) = IF u.totallength + 1 = u.sumlength THEN e ELSE w
  BY <1>1 DEF B!Counted, e, d, w
<1>. QED BY <1>1, <1>4, <1>5

\* What the history keeps of an image: it goes on, or it has ended.
LEMMA EndedTyped ==
    ASSUME NEW i \in Images
    PROVE  /\ upload'.flag # "FINISH" => B!Ended(i) = i
           /\ upload'.flag = "FINISH" =>
                LET e == B!Ended(i) IN
                /\ e \in Images /\ e.segments = i.segments /\ e.pieces = 0 /\ e.of = 0
                /\ i.mixed \/ i.pieces = i.of => e.result # "broken"
<1>1. 0 \in Nat /\ FALSE \in BOOLEAN
  OBVIOUS
<1>. QED BY <1>1 DEF B!Ended, Images, B!NoImage

\* A segment counted with an image i whose pieces the counter agrees with.
LEMMA SegmentKeeps ==
    ASSUME NEW u \in Uploads, NEW i \in Images,
           u.upgrade_lock = 1, u.flag = "START", u.upgrade_check_timer # "off",
           u.totallength + 1 <= i.segments, i.result # "broken",
           ~i.mixed => i.pieces = u.totallength + 1 /\ i.of = u.sumlength,
           upload' = B!Counted(u), image' = B!Ended(i)
    PROVE  UploadInv'
<1>1. u.totallength \in Nat /\ u.sumlength \in Nat /\ i.segments \in Nat /\ i.mixed \in BOOLEAN
  BY DEF Uploads, Images
<1>2. CASE u.totallength + 1 = u.sumlength
  <2>1. /\ upload' \in Uploads /\ upload'.flag = "FINISH" /\ upload'.totallength = 0
        /\ upload'.upgrade_lock = 0 /\ upload'.upgrade_check_timer = "off"
    BY <1>2, CountedOnce
  <2>2. i.mixed \/ i.pieces = i.of
    BY <1>2
  <2>3. /\ image' \in Images /\ image'.segments = i.segments /\ image'.pieces = 0 /\ image'.of = 0
        /\ image'.result # "broken"
    BY <2>1, <2>2, EndedTyped
  <2>. QED BY <1>1, <2>1, <2>3 DEF UploadInv, Counted, B!UploadsEnd
<1>3. CASE u.totallength + 1 # u.sumlength
  <2>1. /\ upload' \in Uploads /\ upload'.flag = "START" /\ upload'.totallength = u.totallength + 1
        /\ upload'.sumlength = u.sumlength
        /\ upload'.upgrade_lock = 1 /\ upload'.upgrade_check_timer # "off"
    BY <1>3, CountedOnce
  <2>2. image' = i
    BY <2>1, EndedTyped
  <2>. QED BY <1>1, <2>1, <2>2 DEF UploadInv, Counted, B!UploadsEnd
<1>. QED BY <1>2, <1>3

LEMMA DownloadKeeps == ASSUME UploadInv, B!local_upgrade_download PROVE UploadInv'
<1>1. /\ upload \in Uploads /\ image \in Images
      /\ upload.totallength \in Nat /\ upload.sumlength \in Nat
      /\ image.segments \in Nat /\ image.pieces \in Nat /\ image.of \in Nat
  BY UploadTyped
<1>2. /\ upload.upgrade_lock = 1 /\ upload.flag = "START" /\ upload.upgrade_check_timer # "off"
      /\ image.segments < SEGMENTS /\ image.result # "broken"
      /\ upload.totallength <= image.segments
  BY UploadTyped DEF B!local_upgrade_download, B!Serving, UploadInv, B!UploadsEnd, Counted
<1>3. image.segments + 1 \in 0..SEGMENTS
  BY <1>1, <1>2
<1> DEFINE foreign == [image EXCEPT !.segments = @ + 1, !.mixed = TRUE]
<1>4. foreign \in Images /\ foreign.segments = image.segments + 1 /\ foreign.mixed = TRUE /\ foreign.result = image.result
  BY <1>1, <1>3 DEF Images
<1> HIDE DEF foreign
<1>5. upload' = B!Counted(upload) /\ image' = B!Ended(foreign) => UploadInv'
  BY <1>1, <1>2, <1>4, SegmentKeeps
<1>6. ASSUME NEW pieces \in 0..PIECES, B!Head(pieces) PROVE UploadInv'
  <2>1. CASE upload.totallength > 0
    BY <1>5, <1>6, <2>1 DEF B!Head, foreign
  <2>2. CASE ~(upload.totallength > 0) /\ pieces = 0
    <3>1. /\ upload' = [upload EXCEPT !.sumlength = 0, !.upgrade_check_timer = "10ms"]
          /\ image' = [image EXCEPT !.segments = @ + 1]
      BY <1>6, <2>2 DEF B!Head
    <3>2. upload.totallength = 0 /\ image.pieces = 0 /\ image.of = 0
      BY <1>1, <2>2 DEF UploadInv, Counted
    <3>3. 0 \in 0..PIECES
      OBVIOUS
    <3>4. /\ upload' \in Uploads /\ upload'.totallength = 0 /\ upload'.upgrade_check_timer # "off"
          /\ upload'.upgrade_lock = 1 /\ upload'.flag = "START"
      BY <1>1, <1>2, <3>1, <3>2, <3>3 DEF Uploads
    <3>5. /\ image' \in Images /\ image'.pieces = 0 /\ image'.of = 0 /\ image'.segments = image.segments + 1
          /\ image'.result # "broken"
      BY <1>1, <1>2, <1>3, <3>1, <3>2 DEF Images
    <3>. QED BY <1>1, <3>4, <3>5 DEF UploadInv, Counted, B!UploadsEnd
  <2>3. CASE ~(upload.totallength > 0) /\ pieces # 0
    <3> DEFINE u == [upload EXCEPT !.sumlength = pieces]
               i == [segments |-> image.segments + 1, pieces |-> 1, of |-> pieces,
                     mixed |-> FALSE, result |-> "none"]
    <3>1. upload' = B!Counted(u) /\ image' = B!Ended(i)
      BY <1>6, <2>3 DEF B!Head
    <3>2. upload.totallength = 0
      BY <1>1, <2>3
    <3>3. /\ u \in Uploads /\ u.totallength = 0 /\ u.sumlength = pieces
          /\ u.upgrade_lock = 1 /\ u.flag = "START" /\ u.upgrade_check_timer # "off"
      BY <1>1, <1>2, <3>2 DEF Uploads
    <3>4. pieces \in Nat /\ 1 \in Nat /\ FALSE \in BOOLEAN
      OBVIOUS
    <3>5. /\ i \in Images /\ i.segments = image.segments + 1 /\ i.pieces = 1 /\ i.of = pieces
          /\ i.result # "broken"
      BY <1>3, <3>4 DEF Images
    <3> HIDE DEF u, i
    <3>6. u.totallength + 1 <= i.segments
      BY <1>1, <3>3, <3>5
    <3>. QED BY <3>1, <3>3, <3>5, <3>6, SegmentKeeps
  <2>. QED BY <2>1, <2>2, <2>3
<1>7. CASE B!NextPiece
  <2> DEFINE i == [image EXCEPT !.segments = @ + 1, !.pieces = @ + 1]
  <2>1. upload' = B!Counted(upload) /\ image' = B!Ended(i) /\ image.pieces > 0
    BY <1>1, <1>7 DEF B!NextPiece
  <2>2. upload.totallength > 0
    BY <1>1, <2>1 DEF UploadInv, Counted
  <2>3. image.pieces + 1 \in Nat
    BY <1>1
  <2>4. /\ i \in Images /\ i.segments = image.segments + 1 /\ i.pieces = image.pieces + 1 /\ i.of = image.of
        /\ i.result = image.result /\ i.mixed = image.mixed
    BY <1>1, <1>3, <2>3 DEF Images
  <2> HIDE DEF i
  <2>5. ~i.mixed => i.pieces = upload.totallength + 1 /\ i.of = upload.sumlength
    BY <1>1, <2>2, <2>4 DEF UploadInv, Counted
  <2>. QED BY <1>1, <1>2, <2>1, <2>4, <2>5, SegmentKeeps
<1>8. CASE B!Foreign
  BY <1>5, <1>8 DEF B!Foreign, foreign
<1>. QED BY <1>6, <1>7, <1>8 DEF B!local_upgrade_download

LEMMA UploadKeeps == UploadInv /\ [B!Next]_webserverVars => UploadInv'
<1> SUFFICES ASSUME UploadInv, [B!Next]_webserverVars PROVE UploadInv'
  OBVIOUS
<1>1. /\ upload \in Uploads /\ image \in Images
      /\ upload.totallength \in Nat /\ image.segments \in Nat
  BY UploadTyped
<1>2. CASE UNCHANGED <<upload, image>>
  BY <1>2 DEF UploadInv, Counted, B!UploadsEnd
<1>3. CASE B!system_restart
  BY <1>3, UploadRestarts
<1>4. CASE B!Start
  <2>1. /\ upload' \in Uploads /\ upload'.upgrade_lock = 1 /\ upload'.flag = "START"
        /\ upload'.upgrade_check_timer # "off" /\ upload'.totallength = upload.totallength
        /\ upload'.sumlength = upload.sumlength
    BY <1>1, <1>4 DEF B!Start, Uploads
  <2>2. /\ image' \in Images /\ image'.result # "broken" /\ image'.segments = image.segments
        /\ image'.pieces = image.pieces /\ image'.of = image.of /\ image'.mixed = image.mixed
    BY <1>1, <1>4 DEF B!Start, Images
  <2>. QED BY <2>1, <2>2 DEF UploadInv, Counted, B!UploadsEnd
<1>5. CASE B!upgrade_check_timer
  <2>1. upload.upgrade_check_timer # "off" /\ upload.flag = "START" /\ upload.upgrade_lock = 1
    BY <1>1, <1>5, UploadTyped DEF B!upgrade_check_timer, UploadInv, B!UploadsEnd
  <2>2. /\ upload' \in Uploads /\ upload'.upgrade_lock = 0 /\ upload'.flag = "IDLE"
        /\ upload'.upgrade_check_timer = "off" /\ upload'.totallength = upload.totallength
    BY <1>1, <1>5, <2>1 DEF B!upgrade_check_timer, B!upgrade_check_func, Uploads
  <2>3. (upload.totallength > 0) \in BOOLEAN
    BY <1>1
  <2>4. image' = [image EXCEPT !.mixed = (upload.totallength > 0)]
    BY <1>5 DEF B!upgrade_check_timer
  <2>5. image' \in Images /\ image'.mixed = (upload.totallength > 0)
    BY <1>1, <2>3, <2>4 DEF Images
  <2>6. /\ image'.segments = image.segments /\ image'.pieces = image.pieces /\ image'.of = image.of
        /\ image'.result = image.result
    BY <1>1, <2>4 DEF Images
  <2>7. upload.totallength > 0 => image'.mixed
    BY <2>5, Zenon
  <2>. QED BY <1>1, <2>2, <2>5, <2>6, <2>7 DEF UploadInv, Counted, B!UploadsEnd
<1>6. CASE B!local_upgrade_deinit
  <2>1. /\ upload' \in Uploads /\ upload'.upgrade_lock = upload.upgrade_lock
        /\ upload'.flag = upload.flag /\ upload'.upgrade_check_timer = upload.upgrade_check_timer
        /\ upload'.totallength = upload.totallength /\ upload'.sumlength = upload.sumlength
        /\ image' = image
    BY <1>1, <1>6 DEF B!local_upgrade_deinit, Uploads
  <2>. QED BY <1>1, <2>1 DEF UploadInv, Counted, B!UploadsEnd
<1>7. CASE B!local_upgrade_download
  BY <1>7, DownloadKeeps
<1>8. CASE B!GetWifi \/ B!PostReboot \/ \E station, softap \in BOOLEAN : B!PostWifi(station, softap)
  BY <1>2, <1>8 DEF B!GetWifi, B!PostReboot, B!PostWifi
<1>9. CASE B!restart_10ms_cb
  BY SMTT(40), <1>2, <1>3, <1>9 DEF B!restart_10ms_cb
<1>10. CASE B!Scan \/ B!Finish \/ \E k \in 1..scan.totalpage : B!Page(k)
  BY <1>2, <1>10 DEF B!Scan, B!Finish, B!Page
<1>11. CASE \E found \in FOUND : B!json_scan_cb(found)
  BY <1>2, <1>3, <1>11 DEF B!json_scan_cb
<1>12. CASE UNCHANGED webserverVars
  BY <1>2, <1>12 DEF webserverVars
<1>. QED BY <1>3, <1>4, <1>5, <1>6, <1>7, <1>8, <1>9, <1>10, <1>11, <1>12 DEF B!Next, B!system_upgrade_reboot

-----------------------------------------------------------------------------
(* The list of access points and its pages.                                 *)

LEMMA PageMonotone ==
    ASSUME NEW p \in Int, NEW q \in Int
    PROVE  /\ p * PAGE \in Int /\ q * PAGE \in Int
           /\ p <= q => p * PAGE <= q * PAGE
           /\ p * PAGE < q * PAGE => p < q
           /\ (p + 1) * PAGE = p * PAGE + PAGE
<1> DEFINE b == PAGE
<1>1. b \in Nat \ {0}
  OBVIOUS
<1> HIDE DEF b
<1>2. /\ p * b \in Int /\ q * b \in Int
      /\ p <= q => p * b <= q * b
      /\ p * b < q * b => p < q
      /\ (p + 1) * b = p * b + b
  BY <1>1
<1>. QED BY <1>2 DEF b

LEMMA DivideByPage ==
    ASSUME NEW a \in Nat
    PROVE  /\ a \div PAGE \in Nat
           /\ (a \div PAGE) * PAGE <= a
           /\ a < (a \div PAGE) * PAGE + PAGE
<1> DEFINE b == PAGE
<1>1. b \in Nat \ {0}
  OBVIOUS
<1> HIDE DEF b
<1>2. a \div b \in Nat /\ (a % b) \in 0..(b - 1) /\ a = (a \div b) * b + (a % b)
  BY <1>1
<1> DEFINE q == (a \div b) * b
           r == (a % b)
<1>3. q \in Int
  BY <1>1, <1>2
<1> HIDE DEF q, r
<1>4. q <= a /\ a < q + b
  BY <1>1, <1>2, <1>3 DEF q, r
<1>. QED BY <1>2, <1>4 DEF b, q

LEMMA SmallRemainder ==
    ASSUME NEW a \in Nat, NEW b \in Nat \ {0}
    PROVE  (a % b) \in 0..(b - 1) /\ (a < b => (a % b) = a)
  OBVIOUS

\* Every page of the list begins with one of its entries.
LEMMA PageBegins ==
    ASSUME NEW n \in Nat, NEW k \in 1..((n + PAGE - 1) \div PAGE)
    PROVE  (k - 1) * PAGE < n
<1> DEFINE t == (n + PAGE - 1) \div PAGE
<1>1. n + PAGE - 1 \in Nat
  OBVIOUS
<1>2. t \in Nat /\ t * PAGE <= n + PAGE - 1
  BY <1>1, DivideByPage
<1> HIDE DEF t
<1>3. k \in Int /\ k <= t /\ k - 1 \in Int
  BY <1>2 DEF t
<1>4. k * PAGE <= t * PAGE /\ k * PAGE \in Int /\ t * PAGE \in Int
  BY <1>2, <1>3, PageMonotone
<1>5. ((k - 1) + 1) * PAGE = (k - 1) * PAGE + PAGE /\ (k - 1) * PAGE \in Int
  BY <1>3, PageMonotone
<1>6. (k - 1) + 1 = k
  BY <1>3
<1>7. k * PAGE = (k - 1) * PAGE + PAGE
  BY <1>5, <1>6
<1>. QED BY <1>2, <1>4, <1>5, <1>7

LEMMA NoPages == (0 + PAGE - 1) \div PAGE = 0
<1> DEFINE t == (0 + PAGE - 1) \div PAGE
<1>1. 0 + PAGE - 1 \in Nat
  OBVIOUS
<1>2. t \in Nat /\ t * PAGE <= 0 + PAGE - 1
  BY <1>1, DivideByPage
<1> HIDE DEF t
<1>3. t >= 1 => 1 * PAGE <= t * PAGE
  BY <1>2, PageMonotone
<1>4. 1 * PAGE = PAGE /\ t * PAGE \in Int
  BY <1>2, PageMonotone
<1>5. ~(t >= 1)
  BY <1>2, <1>3, <1>4
<1>6. t = 0
  BY <1>2, <1>5
<1>. QED BY <1>6 DEF t

LEMMA ScanTyped ==
    ASSUME ScanInv
    PROVE  /\ scan \in Scans /\ shown \in Views
           /\ scan.scannum \in Nat /\ scan.totalpage \in Nat /\ scan.data_cnt \in Nat
           /\ scan.bss \in Nat /\ shown.page \in Nat /\ shown.first \in Nat
  BY DEF ScanInv, Scans, Views

LEMMA NothingListed ==
    ASSUME scan' \in Scans, shown' \in Views, scan'.scannum = 0, scan'.totalpage = 0, scan'.bss = 0,
           ~scan'.bss_head, scan'.under_way => scan'.pscaninfo, shown'.page = 0
    PROVE  ScanInv'
<1>1. 0 = (0 + PAGE - 1) \div PAGE
  BY NoPages
<1>2. scan'.totalpage = (scan'.scannum + PAGE - 1) \div PAGE
  BY <1>1
<1>3. ~(0 * PAGE < 0)
  OBVIOUS
<1>. QED BY <1>2, <1>3 DEF ScanInv, Listed, B!PagesInTurn

LEMMA ScanRestarts == B!system_restart => ScanInv'
<1> SUFFICES ASSUME B!system_restart PROVE ScanInv'
  OBVIOUS
<1>1. scan' = B!NoScan /\ shown' = B!NotShown
  BY DEF B!system_restart
<1>2. /\ scan' \in Scans /\ scan'.scannum = 0 /\ scan'.totalpage = 0 /\ scan'.bss = 0
      /\ ~scan'.bss_head /\ ~scan'.under_way
  BY <1>1 DEF B!NoScan, Scans
<1>3. shown' \in Views /\ shown'.page = 0
  BY <1>1 DEF B!NotShown, Views
<1>. QED BY <1>2, <1>3, NothingListed

\* What a step does that leaves the list, its pages and the next entry alone.
LEMMA ListStays ==
    ASSUME ScanInv, scan' \in Scans, shown' \in Views,
           scan'.scannum = scan.scannum, scan'.totalpage = scan.totalpage, scan'.bss = scan.bss,
           scan'.bss_head => scan.bss_head,
           ~scan'.bss_head /\ scan'.totalpage > 0 => shown'.finished,
           scan'.under_way => scan'.pscaninfo \/ shown'.finished,
           ~shown'.jumped => ~shown.jumped, shown'.page = shown.page, shown'.first = shown.first
    PROVE  ScanInv'
<1>1. Listed'
  BY DEF ScanInv, Listed
<1>. QED BY <1>1 DEF ScanInv, B!PagesInTurn

LEMMA Listing ==
    ASSUME ScanInv, NEW found \in FOUND, B!json_scan_cb(found)
    PROVE  ScanInv'
<1>1. CASE B!system_restart
  BY <1>1, ScanRestarts
<1>2. CASE ~B!system_restart
  <2>1. /\ scan' = [scan EXCEPT !.under_way = FALSE, !.bss_head = (found > 0), !.scannum = found,
                                !.totalpage = (found + PAGE - 1) \div PAGE, !.bss = 0]
        /\ shown' = [B!NotShown EXCEPT !.jumped = (scan.data_cnt > 0)]
    BY <1>2 DEF B!json_scan_cb
  <2>2. found \in Nat /\ found + PAGE - 1 \in Nat /\ 0 \in Nat
    OBVIOUS
  <2>3. (found + PAGE - 1) \div PAGE \in Nat
    BY <2>2, DivideByPage
  <2>4. (found > 0) \in BOOLEAN /\ (scan.data_cnt > 0) \in BOOLEAN
    BY <2>2, ScanTyped
  <2> DEFINE t == (found + PAGE - 1) \div PAGE
             h == (found > 0)
             j == (scan.data_cnt > 0)
  <2>5. t \in Nat /\ h \in BOOLEAN /\ j \in BOOLEAN
    BY <2>3, <2>4
  <2>6. /\ scan' = [scan EXCEPT !.under_way = FALSE, !.bss_head = h, !.scannum = found,
                                !.totalpage = t, !.bss = 0]
        /\ shown' = [B!NotShown EXCEPT !.jumped = j]
    BY <2>1
  <2>7. h => found > 0
    OBVIOUS
  <2>8. ~h => found = 0
    BY <2>2
  <2>9. found = 0 => t = 0
    BY NoPages
  <2>10. t = (found + PAGE - 1) \div PAGE
    OBVIOUS
  <2> HIDE DEF t, h, j
  <2>11. /\ scan' \in Scans /\ scan'.scannum = found /\ scan'.totalpage = t /\ scan'.bss = 0
         /\ ~scan'.under_way
    BY <2>2, <2>5, <2>6, ScanTyped DEF Scans
  <2>12. scan'.bss_head = h
    BY <2>6, ScanTyped DEF Scans
  <2>13. shown' \in Views /\ shown'.page = 0
    BY <2>2, <2>5, <2>6 DEF Views, B!NotShown
  <2>14. scan'.totalpage = (scan'.scannum + PAGE - 1) \div PAGE
    BY <2>10, <2>11
  <2>15. scan'.bss_head => scan'.scannum > 0
    BY <2>7, <2>11, <2>12
  <2>16. ~(scan'.totalpage > 0 /\ ~scan'.bss_head)
    BY <2>5, <2>8, <2>9, <2>11, <2>12
  <2>17. 0 * PAGE = 0
    OBVIOUS
  <2>18. Listed'
    BY <2>2, <2>11, <2>13, <2>14, <2>15, <2>16, <2>17 DEF Listed
  <2>. QED BY <2>11, <2>13, <2>18 DEF ScanInv, B!PagesInTurn
<1>. QED BY <1>1, <1>2

\* The entries that a page shows: the next ones, of a list that has them.
LEMMA PageShown ==
    ASSUME ScanInv, NEW k \in 1..scan.totalpage, scan.bss_head,
           LET next == ~shown.jumped /\ k = shown.page + 1 IN
           /\ scan' = [scan EXCEPT !.page_sn = k, !.data_cnt = @ + B!OnPage(k),
                                   !.bss = (@ + B!OnPage(k)) % scan.scannum]
           /\ shown' = [shown EXCEPT !.page = k, !.first = scan.bss + 1, !.jumped = ~next]
    PROVE  ScanInv'
<1> DEFINE n == scan.scannum
           on == B!OnPage(k)
           next == (~shown.jumped /\ k = shown.page + 1)
           b == ((scan.bss + on) % n)
<1>1. n \in Nat \ {0} /\ k \in Nat \ {0} /\ k - 1 \in Nat /\ scan.bss \in Nat /\ scan.data_cnt \in Nat /\ shown.page \in Nat
  BY ScanTyped DEF ScanInv, Listed
<1>2. (k - 1) * PAGE < n
  <2>1. scan.totalpage = (n + PAGE - 1) \div PAGE
    BY DEF ScanInv, Listed
  <2> HIDE DEF n
  <2>2. k \in 1..((n + PAGE - 1) \div PAGE)
    BY <2>1
  <2>. QED BY <1>1, <2>2, PageBegins
<1>3. (k - 1) * PAGE \in Int /\ k * PAGE \in Int /\ k * PAGE = (k - 1) * PAGE + PAGE
  <2>1. (k - 1) * PAGE \in Int /\ k * PAGE \in Int /\ ((k - 1) + 1) * PAGE = (k - 1) * PAGE + PAGE
    BY <1>1, PageMonotone
  <2>2. (k - 1) + 1 = k
    BY <1>1
  <2>. QED BY <2>1, <2>2
<1> DEFINE s == (k - 1) * PAGE
           e == k * PAGE
<1>4. s \in Int /\ e = s + PAGE /\ s < n
  BY <1>2, <1>3
<1>5. on = IF n - s >= PAGE THEN PAGE ELSE n - s
  BY DEF B!OnPage
<1>6. s >= 0
  <2>1. 0 * PAGE <= (k - 1) * PAGE
    BY <1>1, PageMonotone
  <2>2. 0 * PAGE = 0
    OBVIOUS
  <2>. QED BY <2>1, <2>2
<1> HIDE DEF s, e, on
<1>7. on \in Nat /\ (e < n => on = PAGE)
  BY <1>1, <1>4, <1>5
<1>8. scan.bss + on \in Nat /\ scan.data_cnt + on \in Nat
  BY <1>1, <1>7
<1>9. b \in 0..(n - 1) /\ (scan.bss + on < n => b = scan.bss + on)
  BY <1>1, <1>8, SmallRemainder
<1>10. b \in Nat
  BY <1>1, <1>9
<1>11. next \in BOOLEAN /\ (~next) \in BOOLEAN
  OBVIOUS
<1>12. /\ scan' = [scan EXCEPT !.page_sn = k, !.data_cnt = scan.data_cnt + on, !.bss = b]
       /\ shown' = [shown EXCEPT !.page = k, !.first = scan.bss + 1, !.jumped = ~next]
  BY DEF on
<1>13. next => ~shown.jumped /\ k = shown.page + 1
  OBVIOUS
<1> DEFINE j == ~next
<1>14. j \in BOOLEAN /\ (~j => ~shown.jumped /\ k = shown.page + 1)
  BY <1>11, <1>13
<1>15. shown' = [shown EXCEPT !.page = k, !.first = scan.bss + 1, !.jumped = j]
  BY <1>12
<1> HIDE DEF b, j, next
<1>16. /\ scan' \in Scans /\ scan'.scannum = n /\ scan'.totalpage = scan.totalpage /\ scan'.bss = b
       /\ scan'.data_cnt = scan.data_cnt + on
  BY <1>1, <1>8, <1>10, <1>12, ScanTyped DEF Scans
<1>17. scan'.bss_head = scan.bss_head /\ scan'.under_way = scan.under_way /\ scan'.pscaninfo = scan.pscaninfo
  BY <1>12, ScanTyped DEF Scans
<1>18. scan.bss + 1 \in Nat
  BY <1>1
<1>19. shown' \in Views /\ shown'.page = k /\ shown'.first = scan.bss + 1
  BY <1>1, <1>14, <1>15, <1>18, ScanTyped DEF Views
<1>20. shown'.jumped = j /\ shown'.finished = shown.finished
  BY <1>15, ScanTyped DEF Views
\* The page before ended where this one begins.
<1>21. ~j => scan.bss = s
  <2>1. ~j => ~shown.jumped /\ shown.page = k - 1
    BY <1>1, <1>14
  <2>2. ~j => shown.page * PAGE = s
    BY <2>1 DEF s
  <2>3. ~shown.jumped /\ shown.page * PAGE < n => scan.bss = shown.page * PAGE
    BY DEF ScanInv, Listed
  <2>. QED BY <1>4, <2>1, <2>2, <2>3
<1>22. ~j /\ e < n => b = e
  BY <1>1, <1>4, <1>7, <1>9, <1>21
<1>23. ~shown'.jumped /\ shown'.page * PAGE < scan'.scannum => scan'.bss = shown'.page * PAGE
  BY <1>16, <1>19, <1>20, <1>22 DEF e
<1>24. scan'.totalpage = (scan'.scannum + PAGE - 1) \div PAGE
  BY <1>16 DEF ScanInv, Listed
<1>25. scan'.bss <= scan'.scannum
  BY <1>1, <1>9, <1>16
<1>26. Listed'
  BY <1>1, <1>16, <1>17, <1>23, <1>24, <1>25 DEF Listed
<1>27. ~shown'.jumped => shown'.first = (shown'.page - 1) * PAGE + 1
  BY <1>19, <1>20, <1>21 DEF s
<1>28. B!PagesInTurn'
  BY <1>17, <1>20, <1>27 DEF ScanInv, B!PagesInTurn
<1>. QED BY <1>16, <1>19, <1>26, <1>28 DEF ScanInv

LEMMA PageKeeps ==
    ASSUME ScanInv, NEW k \in 1..scan.totalpage, B!Page(k)
    PROVE  ScanInv'
<1> USE ScanTyped
<1>0. k \in Nat /\ scan.totalpage > 0 /\ 0 \in Nat
  OBVIOUS
<1>1. CASE ~scan.bss_head
  <2>1. scan' = [scan EXCEPT !.pscaninfo = FALSE] /\ shown' = shown
    BY <1>1 DEF B!Page
  <2>2. shown.finished
    BY <1>0, <1>1 DEF ScanInv, Listed
  <2>3. /\ scan' \in Scans /\ scan'.scannum = scan.scannum /\ scan'.totalpage = scan.totalpage
        /\ scan'.bss = scan.bss /\ scan'.bss_head = scan.bss_head
    BY <2>1 DEF Scans
  <2>. QED BY <2>1, <2>2, <2>3, ListStays
<1>2. CASE /\ scan.bss_head
           /\ \/ scan' = [scan EXCEPT !.page_sn = 0]
              \/ scan' = [scan EXCEPT !.page_sn = k]
           /\ shown' = [shown EXCEPT !.jumped = TRUE]
  <2>1. /\ scan' \in Scans /\ scan'.scannum = scan.scannum /\ scan'.totalpage = scan.totalpage
        /\ scan'.bss = scan.bss /\ scan'.bss_head = scan.bss_head
        /\ scan'.under_way = scan.under_way /\ scan'.pscaninfo = scan.pscaninfo
    BY <1>0, <1>2 DEF Scans
  <2>2. /\ shown' \in Views /\ shown'.jumped /\ shown'.page = shown.page /\ shown'.first = shown.first
        /\ shown'.finished = shown.finished
    BY <1>2 DEF Views
  <2>3. scan.under_way => scan.pscaninfo \/ shown.finished
    BY DEF ScanInv, B!PagesInTurn
  <2>. QED BY <1>2, <2>1, <2>2, <2>3, ListStays
<1>3. CASE /\ scan.bss_head
           /\ scan' = [scan EXCEPT !.page_sn = k, !.data_cnt = @ + B!OnPage(k),
                                   !.bss = (@ + B!OnPage(k)) % scan.scannum]
           /\ shown' = [shown EXCEPT !.page = k, !.first = scan.bss + 1,
                                     !.jumped = ~(~shown.jumped /\ k = shown.page + 1)]
  BY <1>3, PageShown
<1>. QED BY <1>1, <1>2, <1>3 DEF B!Page

LEMMA ScanKeeps == ScanInv /\ [B!Next]_webserverVars => ScanInv'
<1> SUFFICES ASSUME ScanInv, [B!Next]_webserverVars PROVE ScanInv'
  OBVIOUS
<1>1. CASE UNCHANGED <<scan, shown>>
  BY <1>1 DEF ScanInv, Listed, B!PagesInTurn
<1>2. CASE B!system_restart
  BY <1>2, ScanRestarts
<1>3. CASE B!Scan
  <2>1. /\ scan' \in Scans /\ scan'.scannum = scan.scannum /\ scan'.totalpage = scan.totalpage
        /\ scan'.bss = scan.bss /\ scan'.bss_head = scan.bss_head /\ scan'.pscaninfo
    BY <1>3, ScanTyped DEF B!Scan, Scans
  <2>2. /\ shown' \in Views /\ shown'.jumped /\ shown'.page = shown.page /\ shown'.first = shown.first
        /\ shown'.finished = shown.finished
    BY <1>3, ScanTyped DEF B!Scan, Views
  <2>3. ~scan.bss_head /\ scan.totalpage > 0 => shown.finished
    BY DEF ScanInv, Listed
  <2>. QED BY <2>1, <2>2, <2>3, ListStays
<1>4. CASE B!Finish
  <2>1. /\ scan' \in Scans /\ scan'.scannum = scan.scannum /\ scan'.totalpage = scan.totalpage
        /\ scan'.bss = scan.bss /\ ~scan'.bss_head
    BY <1>4, ScanTyped DEF B!Finish, Scans
  <2>2. /\ shown' \in Views /\ shown'.page = shown.page /\ shown'.first = shown.first
        /\ shown'.finished
    BY <1>4, ScanTyped DEF B!Finish, Views
  <2>3. shown'.jumped = shown.jumped
    BY <1>4, ScanTyped DEF B!Finish, Views
  <2>. QED BY <2>1, <2>2, <2>3, ListStays
<1>5. CASE \E found \in FOUND : B!json_scan_cb(found)
  BY <1>5, Listing
<1>6. CASE \E k \in 1..scan.totalpage : B!Page(k)
  BY <1>6, PageKeeps
<1>7. CASE B!GetWifi \/ B!PostReboot \/ \E station, softap \in BOOLEAN : B!PostWifi(station, softap)
  BY <1>1, <1>7 DEF B!GetWifi, B!PostReboot, B!PostWifi
<1>8. CASE B!restart_10ms_cb
  BY <1>1, <1>2, <1>8 DEF B!restart_10ms_cb
<1>9. CASE B!Start \/ B!upgrade_check_timer \/ B!local_upgrade_deinit \/ B!local_upgrade_download
  BY <1>1, <1>9 DEF B!Start, B!upgrade_check_timer, B!local_upgrade_deinit, B!local_upgrade_download
<1>10. CASE UNCHANGED webserverVars
  BY <1>1, <1>10 DEF webserverVars
<1>. QED BY <1>2, <1>3, <1>4, <1>5, <1>6, <1>7, <1>8, <1>9, <1>10 DEF B!Next, B!system_upgrade_reboot

-----------------------------------------------------------------------------
(* Both programs, as the run composes them.                                 *)

LEMMA PlatformAlone == [MCNext]_mcVars => [L!Next]_platformVars
  BY DEF MCNext, Others, mcVars

LEMMA WebserverAlone == [MCNext]_mcVars => [B!Next]_webserverVars
  BY DEF MCNext, Others, mcVars

LEMMA WebserverInitially == B!Init => WebserverInv
<1> SUFFICES ASSUME B!Init PROVE WebserverInv
  OBVIOUS
<1>1. conf = B!NoConf /\ read = FALSE
  BY DEF B!Init
<1>2. read \in BOOLEAN
  BY <1>1
<1>3. ConfigurationInv
  BY <1>1, <1>2, NoConfiguration DEF ConfigurationInv
<1>4. /\ upload \in Uploads /\ upload.upgrade_lock = 0 /\ upload.upgrade_check_timer = "off"
      /\ upload.flag = "IDLE" /\ upload.totallength = 0
  BY DEF B!Init, B!NoUpload, Uploads
<1>5. image \in Images /\ image.segments = 0 /\ image.pieces = 0 /\ image.of = 0 /\ image.result = "none"
  BY DEF B!Init, B!NoImage, Images
<1>6. UploadInv
  BY <1>4, <1>5 DEF UploadInv, Counted, B!UploadsEnd
<1>7. /\ scan \in Scans /\ scan.scannum = 0 /\ scan.totalpage = 0 /\ scan.bss = 0
      /\ ~scan.bss_head /\ ~scan.under_way
  BY DEF B!Init, B!NoScan, Scans
<1>8. shown \in Views /\ shown.page = 0
  BY DEF B!Init, B!NotShown, Views
<1>9. 0 = (0 + PAGE - 1) \div PAGE /\ ~(0 * PAGE < 0)
  BY NoPages
<1>10. scan.totalpage = (scan.scannum + PAGE - 1) \div PAGE
  BY <1>7, <1>9
<1>11. Listed
  BY <1>7, <1>8, <1>9, <1>10 DEF Listed
<1>12. ScanInv
  BY <1>7, <1>8, <1>11 DEF ScanInv, B!PagesInTurn
<1>. QED BY <1>3, <1>6, <1>12 DEF WebserverInv

LEMMA PlatformTypes == PlatformInv => L!TypeOK /\ L!PlatformSound
<1> SUFFICES ASSUME PlatformInv PROVE L!TypeOK /\ L!PlatformSound
  OBVIOUS
<1>1. client \in Clients /\ Connections(client) <= LINKS
  BY DEF PlatformInv, PlatformTyped
<1>2. client.connecting \in Nat /\ client.connected \in Nat
  BY <1>1 DEF Clients
<1>3. client.connecting + client.connected \in 0..LINKS
  BY <1>1, <1>2 DEF Connections
<1>4. client.pbuffer \subseteq L!Messages
  BY <1>1 DEF Clients
<1>5. L!TypeOK
  BY <1>1, <1>3, <1>4 DEF Clients, L!TypeOK
<1>. QED BY <1>5 DEF PlatformInv, L!PlatformSound

LEMMA WebserverTypes == WebserverInv => B!TypeOK /\ B!WebserverSound
<1> SUFFICES ASSUME WebserverInv PROVE B!TypeOK /\ B!WebserverSound
  OBVIOUS
<1>1. {conf.sta_conf, conf.ap_conf} \subseteq {B!NULL, "blank", "ssid"} /\ conf.rstparm \in {B!NULL, "WIFI", "REBOOT"}
  BY DEF WebserverInv, ConfigurationInv, Confs, Parameters
<1>2. upload \in Uploads /\ image.segments \in 0..SEGMENTS /\ upload.totallength \in Nat /\ upload.totallength <= image.segments
  BY DEF WebserverInv, UploadInv, Counted, Uploads, Images
<1>3. upload.totallength \in 0..SEGMENTS
  BY <1>2
<1>4. scan.data_cnt \in Nat /\ scan.bss \in Nat /\ scan.scannum \in Nat /\ scan.bss <= scan.scannum
  BY DEF WebserverInv, ScanInv, Listed, Scans
<1>5. scan.bss \in 0..scan.scannum
  BY <1>4
<1>6. /\ upload.upgrade_lock \in {0, 1} /\ upload.flag \in {"IDLE", "START", "FINISH"}
      /\ upload.upgrade_check_timer \in {"off", "10ms", "120s"} /\ upload.sumlength \in 0..PIECES
  BY <1>2 DEF Uploads
<1>7. B!TypeOK
  BY <1>1, <1>3, <1>4, <1>5, <1>6 DEF B!TypeOK
<1>. QED BY <1>7 DEF WebserverInv, ConfigurationInv, UploadInv, ScanInv, B!WebserverSound

\* The cloud client always has something that will wake it, and the server
\* that fell silent is noticed; the configuration that waits is the one that
\* was posted, an upload that ends well has left the whole image, and pages
\* asked for in turn show their own entries (esp_platform's timers and
\* callbacks, user_webserver.c).
THEOREM CloudKept == MCSpec => []CloudSound
<1> DEFINE Inv == PlatformInv /\ WebserverInv
<1>1. MCInit => Inv
  <2>1. MCInit => L!Init /\ B!Init
    BY DEF MCInit
  <2>. QED BY <2>1, PlatformInitially, WebserverInitially
<1>2. Inv /\ [MCNext]_mcVars => Inv'
  <2> SUFFICES ASSUME Inv, [MCNext]_mcVars PROVE Inv'
    OBVIOUS
  <2>1. PlatformInv'
    BY PlatformAlone, PlatformInductive
  <2>2. ConfigurationInv' /\ UploadInv' /\ ScanInv'
    BY WebserverAlone, ConfigurationKeeps, UploadKeeps, ScanKeeps DEF WebserverInv
  <2>. QED BY <2>1, <2>2 DEF WebserverInv
<1>3. Inv => CloudSound
  BY PlatformTypes, WebserverTypes DEF CloudSound
<1> HIDE DEF Inv
<1>. QED BY <1>1, <1>2, <1>3, PTL DEF MCSpec

-----------------------------------------------------------------------------
LEMMA LeastExists ==
    ASSUME NEW Z \in SUBSET Nat, Z # {}
    PROVE  \E x \in Z : \A y \in Z : x <= y
<1>1. \E x \in Z : \A y \in Z : ~(<<y, x>> \in OpToRel(<, Nat))
  BY NatLessThanWellFounded, WFMin
<1>2. PICK x \in Z : \A y \in Z : ~(<<y, x>> \in OpToRel(<, Nat))
  BY <1>1
<1>3. \A y \in Z : ~(y < x)
  BY <1>2 DEF OpToRel
<1>. QED BY <1>3

\* A list in which nothing is twice.
Distinct(s) == \A k, l \in 1..Len(s) : s[k] = s[l] => k = l

\* What is left of a list when an element is taken out.
LEMMA TakenOut ==
    ASSUME NEW T, NEW s \in Seq(T), Distinct(s), NEW e
    PROVE  LET r == U!RemoveFirst(s, e)
           IN r \in Seq(T) /\ Distinct(r) /\ U!ToSet(r) = U!ToSet(s) \ {e}
<1> DEFINE r == U!RemoveFirst(s, e)
           Z == {i \in 1..Len(s) : s[i] = e}
           k == CHOOSE x \in Z : \A y \in Z : x =< y
<1> SUFFICES r \in Seq(T) /\ Distinct(r) /\ U!ToSet(r) = U!ToSet(s) \ {e}
  OBVIOUS
<1>0. Len(s) \in Nat /\ DOMAIN s = 1..Len(s)
  BY LenProperties
<1>1. CASE Z = {}
  <2>1. r = s
    BY <1>1 DEF U!RemoveFirst
  <2>2. e \notin U!ToSet(s)
    BY <1>0, <1>1 DEF U!ToSet
  <2> HIDE DEF r
  <2>. QED BY <2>1, <2>2
<1>2. CASE Z # {}
  <2>1. k \in 1..Len(s) /\ s[k] = e
    <3>1. \E x \in Z : \A y \in Z : x =< y
      <4>1. Z \in SUBSET Nat
        BY <1>0
      <4> HIDE DEF Z
      <4>. QED BY <1>2, <4>1, LeastExists
    <3>. QED BY <3>1
  <2>2. r = SubSeq(s, 1, k - 1) \o SubSeq(s, k + 1, Len(s))
    BY <1>2 DEF U!RemoveFirst, U!RemoveAt, U!SelectInSeq, U!Min
  <2> HIDE DEF r, k, Z
  <2> DEFINE p == SubSeq(s, 1, k - 1)
             q == SubSeq(s, k + 1, Len(s))
  <2>3. p \in Seq(T) /\ Len(p) = k - 1 /\ \A i \in 1..(k - 1) : p[i] = s[i]
    <3>1. k - 1 \in Int /\ 1 \in Int /\ \A i \in 1..(k - 1) : s[i] \in T
      BY <1>0, <2>1, ElementOfSeq
    <3>2. p \in Seq(T) /\ Len(p) = (IF 1 <= k - 1 THEN k - 1 - 1 + 1 ELSE 0)
          /\ \A i \in 1..(k - 1 - 1 + 1) : p[i] = s[1 + i - 1]
      BY <3>1, SubSeqProperties
    <3> HIDE DEF p
    <3>. QED BY <1>0, <2>1, <3>2
  <2>4. q \in Seq(T) /\ Len(q) = Len(s) - k /\ \A i \in 1..(Len(s) - k) : q[i] = s[k + i]
    <3>1. k + 1 \in Int /\ Len(s) \in Int /\ \A i \in (k + 1)..Len(s) : s[i] \in T
      BY <1>0, <2>1, ElementOfSeq
    <3>2. q \in Seq(T) /\ Len(q) = (IF k + 1 <= Len(s) THEN Len(s) - (k + 1) + 1 ELSE 0)
          /\ \A i \in 1..(Len(s) - (k + 1) + 1) : q[i] = s[(k + 1) + i - 1]
      BY <3>1, SubSeqProperties
    <3> HIDE DEF q
    <3>3. Len(q) = Len(s) - k
      <4>1. Len(q) = IF k + 1 <= Len(s) THEN Len(s) - (k + 1) + 1 ELSE 0
        BY <3>2
      <4> DEFINE n == Len(s)
      <4>2. n \in Nat /\ k \in 1..n
        BY <1>0, <2>1
      <4> HIDE DEF n
      <4>3. CASE k + 1 <= n
        BY <4>1, <4>2, <4>3 DEF n
      <4>4. CASE ~(k + 1 <= n)
        <5>1. Len(q) = 0
          BY <4>1, <4>4 DEF n
        <5>2. k = n
          BY <4>2, <4>4
        <5>. QED BY <1>0, <5>1, <5>2 DEF n
      <4>. QED BY <4>3, <4>4
    <3>4. ASSUME NEW i \in 1..(Len(s) - k) PROVE q[i] = s[k + i]
      <4>1. (k + 1) + i - 1 = k + i /\ i \in 1..(Len(s) - (k + 1) + 1)
        BY <1>0, <2>1
      <4>. QED BY <3>2, <4>1
    <3>. QED BY <3>2, <3>3, <3>4
  <2>b. r = p \o q
    BY <2>2
  <2> HIDE DEF p, q
  <2>5. /\ r \in Seq(T) /\ Len(r) = Len(s) - 1
        /\ \A i \in 1..Len(r) : r[i] = IF i < k THEN s[i] ELSE s[i + 1]
    <3>1. /\ r \in Seq(T) /\ Len(r) = Len(p) + Len(q)
          /\ \A i \in 1..(Len(p) + Len(q)) : r[i] = IF i <= Len(p) THEN p[i] ELSE q[i - Len(p)]
      BY <2>b, <2>3, <2>4, ConcatProperties
    <3>2. Len(r) = Len(s) - 1
      BY <1>0, <2>1, <2>3, <2>4, <3>1
    <3>3. ASSUME NEW i \in 1..Len(r) PROVE r[i] = IF i < k THEN s[i] ELSE s[i + 1]
      <4>1. CASE i < k
        BY <1>0, <2>1, <2>3, <2>4, <3>1, <3>2, <4>1
      <4>2. CASE ~(i < k)
        <5>1. i - Len(p) \in 1..(Len(s) - k) /\ k + (i - Len(p)) = i + 1 /\ ~(i <= Len(p))
          BY <1>0, <2>1, <2>3, <3>2, <4>2
        <5>2. i \in 1..(Len(p) + Len(q))
          BY <3>1
        <5>3. r[i] = q[i - Len(p)]
          BY <3>1, <5>1, <5>2
        <5>. QED BY <2>4, <4>2, <5>1, <5>3
      <4>. QED BY <4>1, <4>2
    <3>. QED BY <3>1, <3>2, <3>3
  <2>6. Distinct(r)
    BY <1>0, <2>1, <2>5 DEF Distinct
  <2>7. DOMAIN r = 1..Len(r)
    BY <2>5, LenProperties
  <2>8. U!ToSet(r) = U!ToSet(s) \ {e}
    <3>1. ASSUME NEW x \in U!ToSet(s), x # e PROVE x \in U!ToSet(r)
      <4>1. PICK i \in 1..Len(s) : s[i] = x
        BY <1>0, <3>1 DEF U!ToSet
      <4>2. i # k
        BY <2>1, <3>1, <4>1
      <4>3. CASE i < k
        BY <1>0, <2>1, <2>5, <2>7, <4>1, <4>3 DEF U!ToSet
      <4>4. CASE i > k
        <5>1. i - 1 \in 1..Len(r) /\ r[i - 1] = x
          BY <1>0, <2>1, <2>5, <4>1, <4>4
        <5>. QED BY <2>7, <5>1 DEF U!ToSet
      <4>. QED BY <1>0, <2>1, <4>2, <4>3, <4>4
    <3>2. ASSUME NEW x \in U!ToSet(r) PROVE x \in U!ToSet(s) \ {e}
      <4>1. PICK i \in 1..Len(r) : r[i] = x
        BY <2>7 DEF U!ToSet
      <4> DEFINE j == IF i < k THEN i ELSE i + 1
      <4>2. j \in 1..Len(s) /\ s[j] = x /\ j # k
        BY <1>0, <2>1, <2>5, <4>1
      <4>3. x # e
        BY <2>1, <4>2 DEF Distinct
      <4> HIDE DEF j
      <4>. QED BY <1>0, <4>2, <4>3 DEF U!ToSet
    <3>. QED BY <3>1, <3>2
  <2>. QED BY <2>5, <2>6, <2>8
<1>. QED BY <1>1, <1>2

\* A list with one more in front.
LEMMA PutInFront ==
    ASSUME NEW T, NEW s \in Seq(T), Distinct(s), NEW e \in T, e \notin U!ToSet(s)
    PROVE  LET r == <<e>> \o s
           IN r \in Seq(T) /\ Distinct(r) /\ U!ToSet(r) = U!ToSet(s) \cup {e}
<1> DEFINE r == <<e>> \o s
<1>0. Len(s) \in Nat /\ DOMAIN s = 1..Len(s) /\ <<e>> \in Seq(T) /\ Len(<<e>>) = 1 /\ <<e>>[1] = e
  BY LenProperties
<1>1. /\ r \in Seq(T) /\ Len(r) = Len(s) + 1
      /\ \A i \in 1..Len(r) : r[i] = IF i = 1 THEN e ELSE s[i - 1]
  BY <1>0, ConcatProperties
<1>2. DOMAIN r = 1..Len(r)
  BY <1>1, LenProperties
<1> HIDE DEF r
<1>3. \A i \in 1..Len(s) : s[i] # e
  BY <1>0 DEF U!ToSet
<1>4. Distinct(r)
  <2> SUFFICES ASSUME NEW i \in 1..Len(r), NEW j \in 1..Len(r), r[i] = r[j] PROVE i = j
    BY DEF Distinct
  <2>1. CASE i = 1 \/ j = 1
    BY <1>0, <1>1, <1>3, <2>1
  <2>2. CASE i # 1 /\ j # 1
    <3>1. i - 1 \in 1..Len(s) /\ j - 1 \in 1..Len(s) /\ s[i - 1] = s[j - 1]
      BY <1>0, <1>1, <2>2
    <3>. QED BY <3>1 DEF Distinct
  <2>. QED BY <2>1, <2>2
<1>5. U!ToSet(r) = U!ToSet(s) \cup {e}
  <2>1. ASSUME NEW x \in U!ToSet(s) PROVE x \in U!ToSet(r)
    <3>1. PICK i \in 1..Len(s) : s[i] = x
      BY <1>0 DEF U!ToSet
    <3>2. i + 1 \in 1..Len(r) /\ r[i + 1] = x
      BY <1>0, <1>1, <3>1
    <3>. QED BY <1>2, <3>2 DEF U!ToSet
  <2>2. e \in U!ToSet(r)
    <3>1. 1 \in 1..Len(r) /\ r[1] = e
      BY <1>0, <1>1
    <3>. QED BY <1>2, <3>1 DEF U!ToSet
  <2>3. ASSUME NEW x \in U!ToSet(r), x # e PROVE x \in U!ToSet(s)
    <3>1. PICK i \in 1..Len(r) : r[i] = x
      BY <1>2 DEF U!ToSet
    <3>2. i - 1 \in 1..Len(s) /\ s[i - 1] = x
      BY <1>0, <1>1, <2>3, <3>1
    <3>. QED BY <1>0, <3>2 DEF U!ToSet
  <2>. QED BY <2>1, <2>2, <2>3
<1>. QED BY <1>1, <1>4, <1>5 DEF r

\* A list in which nothing is twice is as long as the set of what is in it.
LEMMA CountsAlike == \A Z : U!Cardinality(Z) = Cardinality(Z)
  BY DEF U!Cardinality, Cardinality
LEMMA AsMany ==
    ASSUME NEW T, NEW s \in Seq(T), Distinct(s)
    PROVE  U!Cardinality(U!ToSet(s)) = Len(s)
<1> DEFINE f == [k \in 1..Len(s) |-> s[k]]
           Z == U!ToSet(s)
<1>0. Len(s) \in Nat /\ DOMAIN s = 1..Len(s)
  BY LenProperties
<1>1. f \in Bijection(1..Len(s), Z)
  <2>1. f \in [1..Len(s) -> Z]
    BY <1>0 DEF U!ToSet
  <2>2. \A a, b \in 1..Len(s) : f[a] = f[b] => a = b
    BY DEF Distinct
  <2>3. \A x \in Z : \E a \in 1..Len(s) : f[a] = x
    BY <1>0 DEF U!ToSet
  <2> HIDE DEF f, Z
  <2>. QED BY <2>1, <2>2, <2>3 DEF Bijection, Injection, Surjection, IsInjective
<1>2. ExistsBijection(1..Len(s), Z)
  BY <1>1 DEF ExistsBijection
<1>3. IsFiniteSet(1..Len(s)) /\ Cardinality(1..Len(s)) = Len(s)
  <2> DEFINE n == Len(s)
  <2>1. n \in Nat
    BY <1>0
  <2> HIDE DEF n
  <2>2. IsFiniteSet(1..n) /\ Cardinality(1..n) = IF 1 > n THEN 0 ELSE n - 1 + 1
    BY <2>1, FS_Interval
  <2>3. IsFiniteSet(1..n) /\ Cardinality(1..n) = n
    BY <2>1, <2>2
  <2>. QED BY <2>3 DEF n
<1> HIDE DEF Z
<1>4. Cardinality(Z) = Len(s)
  BY <1>2, <1>3, FS_Bijection
<1>. QED BY <1>4, CountsAlike DEF Z

-----------------------------------------------------------------------------
(* UDP and raw IP.                                                          *)

LEMMA UdpNumbers ==
    /\ PCBS \in Nat /\ DATAGRAM \in Nat \ {0} /\ LENGTHS \subseteq Nat \ {0}
    /\ OWN # OLD /\ {OWN, OLD} \cap PEERS = {}
    /\ PORTS \subseteq Nat \ {0} /\ UDP_LOCAL_PORT_RANGE_START \in Nat \ {0} /\ UDP_LOCAL_PORT_RANGE_END \in Nat \ {0}
    /\ UDP_LOCAL_PORT_RANGE_START <= UDP_LOCAL_PORT_RANGE_END
    /\ DHCP_CLIENT_PORT \in Nat \ {0} /\ DHCP_SERVER_PORT \in Nat \ {0}
  BY PartsAssumption DEF U!UdpAssumption

\* Adding up the elements of each set of places, the greatest first.
Adds(g, v, n) ==
    g = [s \in SUBSET (1..n) |-> IF s = {} THEN 0
                                 ELSE LET x == U!Max(s) IN g[s \ {x}] + v[x]]

LEMMA GreatestIs ==
    ASSUME NEW n \in Nat, NEW s \in SUBSET (1..n), s # {}
    PROVE  U!Max(s) \in s /\ \A y \in s : U!Max(s) >= y
<1> DEFINE Z == {n - x : x \in s}
<1>1. Z \in SUBSET Nat /\ Z # {}
  <2>1. ASSUME NEW x \in s PROVE n - x \in Nat
    <3>1. x \in 1..n
      OBVIOUS
    <3>. QED BY <3>1
  <2>. QED BY <2>1
<1>2. PICK z \in Z : \A y \in Z : z <= y
  <2> HIDE DEF Z
  <2>. QED BY <1>1, LeastExists
<1>3. PICK x \in s : z = n - x
  BY <1>2
<1>4. \A y \in s : x >= y
  <2> SUFFICES ASSUME NEW y \in s PROVE x >= y
    OBVIOUS
  <2>1. n - y \in Z
    OBVIOUS
  <2>2. n - x <= n - y
    BY <1>2, <1>3, <2>1
  <2>. QED BY <2>2
<1>. QED BY <1>4 DEF U!Max

LEMMA AddsExists ==
    ASSUME NEW N0 \in Nat, NEW v \in [1..N0 -> Int]
    PROVE  \E g : Adds(g, v, N0)
<1> DEFINE Some(n) == \E g : Adds(g, v, n)
           Bad == {n \in 0..N0 : ~Some(n)}
<1> HIDE DEF Some
<1>0. Bad = {} => Some(N0)
  OBVIOUS
<1>1. SUFFICES ASSUME Bad # {} PROVE FALSE
  <2> HIDE DEF Bad
  <2>. QED BY <1>0 DEF Some
<1>2. PICK n \in Bad : \A y \in Bad : n <= y
  <2>1. Bad \in SUBSET Nat
    OBVIOUS
  <2> HIDE DEF Bad
  <2>. QED BY <1>1, <2>1, LeastExists
<1>3. n \in 0..N0
  OBVIOUS
<1>4. CASE n = 0
  <2> DEFINE g == [s \in SUBSET (1..0) |-> 0]
  <2>1. SUBSET (1..0) = {{}}
    OBVIOUS
  <2>2. Adds(g, v, 0)
    BY <2>1 DEF Adds
  <2>. QED BY <1>2, <1>4, <2>2 DEF Some
<1>5. CASE n # 0
  <2> DEFINE m == n - 1
  <2>1. m \in 0..N0 /\ n = m + 1 /\ m \notin Bad /\ m \in Nat /\ n \in Nat
    BY <1>2, <1>3, <1>5
  <2>2. PICK g : Adds(g, v, m)
    BY <2>1 DEF Some
  <2> DEFINE h == [s \in SUBSET (1..n) |-> IF n \in s THEN g[s \ {n}] + v[n] ELSE g[s]]
  <2> HIDE DEF m, Bad
  <2>h. /\ h = [s \in SUBSET (1..n) |-> h[s]]
        /\ \A s \in SUBSET (1..n) : h[s] = IF n \in s THEN g[s \ {n}] + v[n] ELSE g[s]
    OBVIOUS
  <2> HIDE DEF h
  <2>3. ASSUME NEW s \in SUBSET (1..n)
        PROVE  h[s] = IF s = {} THEN 0 ELSE LET x == U!Max(s) IN h[s \ {x}] + v[x]
    <3>1. CASE s = {}
      <4>1. s \in SUBSET (1..m) /\ n \notin s
        BY <3>1
      <4>2. g[s] = 0
        BY <2>2, <3>1, <4>1 DEF Adds
      <4>. QED BY <2>h, <3>1, <4>1, <4>2
    <3>2. CASE s # {} /\ n \in s
      <4>1. U!Max(s) = n
        <5> DEFINE x == U!Max(s)
        <5>1. x \in s /\ \A y \in s : x >= y
          BY <2>1, <3>2, GreatestIs
        <5> HIDE DEF x
        <5>2. x \in 1..n /\ x >= n
          BY <5>1, <3>2
        <5>3. x = n
          BY <5>2, <2>1
        <5>. QED BY <5>3 DEF x
      <4>2. s \ {n} \in SUBSET (1..m) /\ s \ {n} \in SUBSET (1..n) /\ n \notin s \ {n}
        BY <2>1
      <4>3. h[s \ {n}] = g[s \ {n}]
        BY <2>h, <4>2
      <4>4. h[s] = g[s \ {n}] + v[n]
        BY <2>h, <3>2
      <4>. QED BY <3>2, <4>1, <4>3, <4>4
    <3>3. CASE s # {} /\ n \notin s
      <4>1. s \in SUBSET (1..m)
        BY <2>1, <3>3
      <4> DEFINE x == U!Max(s)
      <4>2. g[s] = g[s \ {x}] + v[x]
        BY <2>2, <3>3, <4>1 DEF Adds
      <4>3. s \ {x} \in SUBSET (1..n) /\ n \notin s \ {x}
        BY <3>3
      <4> HIDE DEF x
      <4>4. h[s \ {x}] = g[s \ {x}] /\ h[s] = g[s]
        BY <2>h, <3>3, <4>3
      <4>. QED BY <3>3, <4>2, <4>4 DEF x
    <3>. QED BY <3>1, <3>2, <3>3
  <2>4. h = [s \in SUBSET (1..n) |-> IF s = {} THEN 0 ELSE LET x == U!Max(s) IN h[s \ {x}] + v[x]]
    BY <2>3, <2>h
  <2>5. Adds(h, v, n)
    BY <2>4 DEF Adds
  <2>. QED BY <2>5, <1>2 DEF Bad, Some
<1>. QED BY <1>4, <1>5

\* What the fold adds up.
Sizes(s) == U!FoldLeft(LAMBDA n, t : n + t.size, 0, s)
LEMMA FoldIs ==
    ASSUME NEW s, NEW n \in Nat, DOMAIN s = 1..n, NEW v \in [1..n -> Int],
           \A k \in 1..n : v[k] = s[k].size
    PROVE  \E g : Adds(g, v, n) /\ Sizes(s) = g[1..n]
<1> DEFINE D == DOMAIN s
           G == CHOOSE iter : iter = [z \in SUBSET D |-> IF z = {} THEN 0
                   ELSE LET x == U!Max(z) IN iter[z \ {x}] + s[x].size]
<1>1. Sizes(s) = G[D]
  BY DEF Sizes, U!FoldLeft, U!MapThenFoldSet
<1>2. PICK g : Adds(g, v, n)
  BY AddsExists
<1>3. g = [z \in SUBSET D |-> IF z = {} THEN 0 ELSE LET x == U!Max(z) IN g[z \ {x}] + s[x].size]
  <2>1. ASSUME NEW z \in SUBSET (1..n), z # {} PROVE v[U!Max(z)] = s[U!Max(z)].size
    BY <2>1, GreatestIs
  <2>. QED BY <1>2, <2>1 DEF Adds
<1>4. G = [z \in SUBSET D |-> IF z = {} THEN 0 ELSE LET x == U!Max(z) IN G[z \ {x}] + s[x].size]
  BY <1>3
<1> HIDE DEF G
<1>5. Adds(G, v, n)
  <2>1. ASSUME NEW z \in SUBSET (1..n), z # {} PROVE v[U!Max(z)] = s[U!Max(z)].size
    BY <2>1, GreatestIs
  <2>. QED BY <1>4, <2>1 DEF Adds
<1>. QED BY <1>1, <1>5

\* How many pieces a message has: all but the last are full, and the last is not empty.
LEMMA PiecesAre ==
    ASSUME NEW b \in Nat \ {0}, NEW a \in Nat \ {0}
    PROVE  LET n == (a + b - 1) \div b
           IN n \in Nat \ {0} /\ n * b \in Int /\ a <= n * b /\ n * b <= a + b - 1
<1> DEFINE c == a + b - 1
           n == c \div b
<1>1. c \in Nat
  OBVIOUS
<1> HIDE DEF c
<1>2. n \in Nat /\ (c % b) \in 0..(b - 1) /\ c = n * b + (c % b)
  BY <1>1
<1> DEFINE q == n * b
           r == (c % b)
<1>3. q \in Int
  BY <1>2
<1> HIDE DEF q, r
<1>4. c = q + r /\ r \in 0..(b - 1)
  BY <1>2 DEF q, r
<1>5. q <= a + b - 1 /\ a <= q
  BY <1>3, <1>4 DEF c
<1>6. n # 0
  <2>1. n = 0 => q = 0
    BY DEF q
  <2>. QED BY <1>5, <2>1
<1>. QED BY <1>2, <1>3, <1>5, <1>6 DEF q, c

LEMMA Multiples ==
    ASSUME NEW b \in Nat \ {0}, NEW k \in Nat, NEW n \in Nat
    PROVE  /\ k * b \in Nat /\ n * b \in Nat
           /\ k <= n => k * b <= n * b
           /\ (k + 1) * b = k * b + b
  OBVIOUS

\* The sizes of the first k pieces of a message add up to what they carry.
LEMMA PiecesAddUp ==
    ASSUME NEW length \in LENGTHS, NEW v \in [1..U!PieceCount(length) -> Int], NEW g,
           \A k \in 1..U!PieceCount(length) : v[k] = U!PieceOf(length, k),
           Adds(g, v, U!PieceCount(length))
    PROVE  g[1..U!PieceCount(length)] = length
<1> DEFINE n == U!PieceCount(length)
           P == DATAGRAM
<1>0. length \in Nat \ {0} /\ P \in Nat \ {0}
  BY UdpNumbers
<1>1. n \in Nat \ {0} /\ n * P \in Int /\ length <= n * P /\ n * P <= length + P - 1
  BY <1>0, PiecesAre DEF U!PieceCount
<1>2. /\ \A k \in 1..n : v[k] = IF k * P <= length THEN P ELSE length - (k - 1) * P
      /\ Adds(g, v, n)
  BY DEF U!PieceOf
<1> HIDE DEF n, P
<1> DEFINE S(k) == IF k * P <= length THEN k * P ELSE length
           Bad == {k \in 0..n : g[1..k] # S(k)}
<1>3. SUFFICES Bad = {}
  <2>1. n \in 0..n
    BY <1>1
  <2>2. g[1..n] = S(n)
    BY <1>3, <2>1
  <2>3. S(n) = length
    BY <1>0, <1>1
  <2>. QED BY <2>2, <2>3 DEF n
<1>4. SUFFICES ASSUME Bad # {} PROVE FALSE
  <2> HIDE DEF Bad
  <2>. QED BY <1>4
<1>5. PICK k \in Bad : \A y \in Bad : k <= y
  <2>1. Bad \in SUBSET Nat
    BY <1>1
  <2> HIDE DEF Bad
  <2>. QED BY <1>4, <2>1, LeastExists
<1>6. k \in 0..n /\ g[1..k] # S(k)
  OBVIOUS
<1>7. k # 0
  <2>1. SUFFICES g[1..0] = S(0)
    BY <1>6
  <2>2. 1..0 = {} /\ {} \in SUBSET (1..n)
    OBVIOUS
  <2>3. g[{}] = 0
    BY <1>2, <2>2 DEF Adds
  <2>4. S(0) = 0
    BY <1>0
  <2>. QED BY <2>2, <2>3, <2>4
<1> DEFINE j == k - 1
<1>8. j \in 0..n /\ k = j + 1 /\ j \notin Bad /\ j \in Nat /\ k \in 1..n
  BY <1>1, <1>5, <1>6, <1>7
<1>9. g[1..j] = S(j)
  BY <1>8
<1>10. g[1..k] = g[1..j] + v[k]
  <2> DEFINE s == 1..k
  <2>1. s \in SUBSET (1..n) /\ s # {} /\ n \in Nat
    BY <1>1, <1>8
  <2>2. U!Max(s) \in s /\ \A y \in s : U!Max(s) >= y
    BY <2>1, GreatestIs
  <2>3. U!Max(s) = k
    BY <1>8, <2>2
  <2>4. s \ {k} = 1..j
    BY <1>8
  <2>5. g[s] = g[s \ {U!Max(s)}] + v[U!Max(s)]
    <3> HIDE DEF s
    <3>. QED BY <1>2, <2>1 DEF Adds
  <2>. QED BY <2>3, <2>4, <2>5
<1> HIDE DEF Bad, j
<1> DEFINE aj == j * P
           ak == k * P
<1>11. aj \in Nat /\ ak = aj + P /\ ak \in Nat
  BY <1>0, <1>8, Multiples
<1>12. aj < length
  <2>1. ak <= n * P
    BY <1>0, <1>1, <1>8, Multiples
  <2> HIDE DEF aj, ak
  <2>. QED BY <1>0, <1>1, <1>11, <2>1
<1>13. v[k] = IF ak <= length THEN P ELSE length - aj
  <2>1. (k - 1) = j
    BY <1>8
  <2>. QED BY <1>2, <1>8, <2>1
<1>14. g[1..j] = IF aj <= length THEN aj ELSE length
  BY <1>9
<1>15. g[1..k] # (IF ak <= length THEN ak ELSE length)
  BY <1>6
<1> HIDE DEF aj, ak
<1>. QED BY <1>0, <1>10, <1>11, <1>12, <1>13, <1>14, <1>15

-----------------------------------------------------------------------------
UdpBlocks ==
    [used : BOOLEAN, local_ip : {"any", OWN}, local_port : U!Ports \cup {0}, remote_ip : {"any"} \cup PEERS,
     remote_port : Nat, connected : BOOLEAN, espconn : BOOLEAN]

\* The list is of the blocks with a port, and no two have the same.
Fits(b, l) ==
    /\ b \in [1..PCBS -> UdpBlocks]
    /\ l \in Seq(1..PCBS) /\ Distinct(l)
    /\ \A i \in 1..PCBS : i \in U!ToSet(l) <=> b[i].local_port # 0
    /\ \A i, j \in 1..PCBS : b[i].local_port = b[j].local_port /\ b[i].local_port # 0 => i = j
    /\ \A i \in 1..PCBS : ~b[i].used => b[i] = U!Unused
\* The blocks of DHCP's client and server: at most one of the two runs.  The
\* server's is not connected, and the client's, if it is, to the server's port.
ClientBlock(x) ==
    /\ x.used /\ ~x.espconn
    /\ x.connected => x.remote_port = DHCP_SERVER_PORT /\ x.remote_ip = "any"
ServerBlock(x) == x.used /\ ~x.espconn /\ ~x.connected
DhcpFits(d, e, b) ==
    /\ d \in 0..PCBS /\ e \in 0..PCBS /\ (d = 0 \/ e = 0)
    /\ d # 0 => ClientBlock(b[d])
    /\ e # 0 => ServerBlock(b[e])
RawFits(l) == l \in Seq(1..PCBS) /\ Distinct(l)
ToldOf(t) ==
    /\ t.told \in 0..1
    /\ t.told = 1 =>
        /\ Sizes(t.pieces) = t.length
        /\ \A k \in 1..Len(t.pieces) : t.pieces[k].outcome # "mem"
        /\ U!Last(t.pieces).outcome = "ok"

UdpInv == Fits(pcb, udp_pcbs) /\ DhcpFits(dhcp, dhcps, pcb) /\ RawFits(raw_pcbs) /\ ToldOf(tries)

LEMMA PortsAre ==
    U!Ports \subseteq Nat \ {0} /\ {DHCP_CLIENT_PORT, DHCP_SERVER_PORT} \subseteq U!Ports /\ PORTS \subseteq U!Ports
  BY UdpNumbers DEF U!Ports
LEMMA UnusedIs ==
    /\ U!Unused \in UdpBlocks /\ ~U!Unused.used /\ U!Unused.local_port = 0
    /\ [U!Unused EXCEPT !.used = TRUE] \in UdpBlocks
    /\ [U!Unused EXCEPT !.used = TRUE, !.espconn = TRUE] \in UdpBlocks
  BY DEF U!Unused, U!ANY, UdpBlocks

\* A block that keeps its port leaves the list as it is.
LEMMA Changed ==
    ASSUME NEW b, NEW l, Fits(b, l), NEW i \in 1..PCBS, NEW x \in UdpBlocks, x.used, x.local_port = b[i].local_port
    PROVE  Fits([b EXCEPT ![i] = x], l)
<1> DEFINE c == [b EXCEPT ![i] = x]
<1>1. c \in [1..PCBS -> UdpBlocks] /\ \A j \in 1..PCBS : c[j] = IF j = i THEN x ELSE b[j]
  BY DEF Fits
<1> HIDE DEF c
<1>2. \A j \in 1..PCBS : c[j].local_port = b[j].local_port
  BY <1>1
<1>3. \A j \in 1..PCBS : ~c[j].used => c[j] = U!Unused
  BY <1>1 DEF Fits
<1>. QED BY <1>1, <1>2, <1>3 DEF Fits, c

LEMMA Removed ==
    ASSUME NEW b, NEW l, Fits(b, l), NEW i \in 1..PCBS
    PROVE  Fits([b EXCEPT ![i] = U!Unused], U!RemoveFirst(l, i))
<1> DEFINE c == [b EXCEPT ![i] = U!Unused]
           r == U!RemoveFirst(l, i)
<1>1. c \in [1..PCBS -> UdpBlocks] /\ \A j \in 1..PCBS : c[j] = IF j = i THEN U!Unused ELSE b[j]
  BY UnusedIs DEF Fits
<1>2. r \in Seq(1..PCBS) /\ Distinct(r) /\ U!ToSet(r) = U!ToSet(l) \ {i}
  BY TakenOut DEF Fits
<1> HIDE DEF c, r
<1>3. \A j \in 1..PCBS : c[j].local_port = IF j = i THEN 0 ELSE b[j].local_port
  BY <1>1, UnusedIs
<1>4. \A j \in 1..PCBS : j \in U!ToSet(r) <=> c[j].local_port # 0
  BY <1>2, <1>3 DEF Fits
<1>5. \A j, k \in 1..PCBS : c[j].local_port = c[k].local_port /\ c[j].local_port # 0 => j = k
  BY <1>3 DEF Fits
<1>6. \A j \in 1..PCBS : ~c[j].used => c[j] = U!Unused
  BY <1>1 DEF Fits
<1>. QED BY <1>1, <1>2, <1>4, <1>5, <1>6 DEF Fits, c, r

\* An element of a list goes to its front.
LEMMA Fronted ==
    ASSUME NEW T, NEW l \in Seq(T), Distinct(l), NEW i \in U!ToSet(l), i \in T
    PROVE  U!Front1(l, i) \in Seq(T) /\ Distinct(U!Front1(l, i)) /\ U!ToSet(U!Front1(l, i)) = U!ToSet(l)
<1> DEFINE r == U!RemoveFirst(l, i)
<1>1. r \in Seq(T) /\ Distinct(r) /\ U!ToSet(r) = U!ToSet(l) \ {i}
  BY TakenOut
<1> HIDE DEF r
<1> DEFINE q == <<i>> \o r
<1>2. q \in Seq(T) /\ Distinct(q) /\ U!ToSet(q) = U!ToSet(r) \cup {i}
  <2>1. i \notin U!ToSet(r)
    BY <1>1
  <2>. QED BY <1>1, <2>1, PutInFront
<1>3. U!Front1(l, i) = q
  BY DEF U!Front1, r
<1> HIDE DEF q
<1>. QED BY <1>1, <1>2, <1>3

LEMMA Reordered ==
    ASSUME NEW b, NEW l, Fits(b, l), NEW i \in U!ToSet(l), i \in 1..PCBS
    PROVE  Fits(b, U!Front1(l, i))
<1> DEFINE q == U!Front1(l, i)
<1>1. q \in Seq(1..PCBS) /\ Distinct(q) /\ U!ToSet(q) = U!ToSet(l)
  BY Fronted DEF Fits
<1> HIDE DEF q
<1>. QED BY <1>1 DEF Fits, q

-----------------------------------------------------------------------------
\* A port that is given is one nobody has.
LEMMA FreePortIs ==
    /\ U!FreePort \in U!Ports \cup {0}
    /\ U!FreePort # 0 => \A j \in U!Listed : pcb[j].local_port # U!FreePort
<1> DEFINE lo == UDP_LOCAL_PORT_RANGE_START
           hi == UDP_LOCAL_PORT_RANGE_END
           free == {q \in lo..(hi - 1) : \A j \in U!Listed : pcb[j].local_port # q}
           q0 == CHOOSE q \in free : \A r \in free : q <= r
<1>1. lo \in Nat /\ hi \in Nat /\ lo..hi \subseteq U!Ports /\ hi \in U!Ports
  <2>1. lo \in Nat /\ hi \in Nat /\ lo <= hi
    BY UdpNumbers
  <2>2. hi \in lo..hi
    BY <2>1
  <2>. QED BY <2>1, <2>2 DEF U!Ports
<1>2. free \in SUBSET Nat /\ free \subseteq lo..hi
  <2>1. \A q \in lo..(hi - 1) : q \in Nat /\ q \in lo..hi
    BY <1>1
  <2>. QED BY <2>1
<1>3. CASE free # {}
  <2>1. q0 \in free
    <3> HIDE DEF free
    <3>1. \E q \in free : \A r \in free : q <= r
      BY <1>2, <1>3, LeastExists
    <3>. QED BY <3>1
  <2>2. U!FreePort = q0
    BY <1>3 DEF U!FreePort
  <2>3. q0 \in U!Ports /\ \A j \in U!Listed : pcb[j].local_port # q0
    <3> HIDE DEF q0
    <3>. QED BY <1>1, <1>2, <2>1
  <2>. QED BY <2>2, <2>3
<1>4. CASE free = {}
  <2>1. U!FreePort = IF \A j \in U!Listed : pcb[j].local_port # hi THEN hi ELSE 0
    BY <1>4 DEF U!FreePort
  <2>. QED BY <1>1, <2>1
<1>. QED BY <1>3, <1>4

\* A block that is bound keeps its user and its peer.
SameUse(x, y) ==
    x.used = y.used /\ x.espconn = y.espconn /\ x.connected = y.connected /\ x.remote_ip = y.remote_ip
        /\ x.remote_port = y.remote_port
\* What becomes of blocks and list when a block is bound.
Kept(r, i, ip, port, b) ==
    /\ Fits(r.pcb, r.list)
    /\ \A j \in 1..PCBS : j # i => r.pcb[j] = b[j]
    /\ r.pcb[i].used /\ SameUse(r.pcb[i], b[i])
    /\ r.ok => r.pcb[i] = [b[i] EXCEPT !.local_ip = ip, !.local_port = r.pcb[i].local_port]
               /\ (port # 0 => r.pcb[i].local_port = port)
Alike(b, c) == \A j \in 1..PCBS : b[j].local_port = c[j].local_port

LEMMA NobodyHas ==
    ASSUME Fits(pcb, udp_pcbs), NEW i \in 1..PCBS, NEW ip \in {"any", OWN}, NEW port \in U!Ports,
           ~U!Taken(i, ip, port)
    PROVE  \A j \in 1..PCBS : j # i => pcb[j].local_port # port
<1> SUFFICES ASSUME NEW j \in 1..PCBS, j # i, pcb[j].local_port = port PROVE FALSE
  OBVIOUS
<1>1. port # 0
  BY PortsAre
<1>2. j \in U!Listed \ {i} /\ pcb[j].local_ip \in {"any", OWN}
  BY <1>1 DEF Fits, U!Listed, UdpBlocks
<1>3. "any" \notin {pcb[j].local_ip, ip} /\ pcb[j].local_ip # ip
  BY <1>2 DEF U!Taken, U!ANY
<1>. QED BY <1>2, <1>3

LEMMA Placed ==
    ASSUME NEW b, NEW l, Fits(b, l), NEW i \in 1..PCBS, b[i].used, NEW x \in UdpBlocks, x.used, x.local_port # 0,
           \A j \in 1..PCBS : j # i => b[j].local_port # x.local_port
    PROVE  Fits([b EXCEPT ![i] = x], IF i \in U!ToSet(l) THEN l ELSE <<i>> \o l)
<1> DEFINE c == [b EXCEPT ![i] = x]
           q == IF i \in U!ToSet(l) THEN l ELSE <<i>> \o l
<1>1. c \in [1..PCBS -> UdpBlocks] /\ \A j \in 1..PCBS : c[j] = IF j = i THEN x ELSE b[j]
  BY DEF Fits
<1>2. q \in Seq(1..PCBS) /\ Distinct(q) /\ U!ToSet(q) = U!ToSet(l) \cup {i}
  <2>1. CASE i \in U!ToSet(l)
    BY <2>1 DEF Fits
  <2>2. CASE i \notin U!ToSet(l)
    <3> DEFINE p == <<i>> \o l
               T == 1..PCBS
    <3>0. l \in Seq(T) /\ Distinct(l) /\ i \in T
      BY DEF Fits
    <3>1. p \in Seq(1..PCBS) /\ Distinct(p) /\ U!ToSet(p) = U!ToSet(l) \cup {i}
      <4> HIDE DEF T
      <4>1. p \in Seq(T) /\ Distinct(p) /\ U!ToSet(p) = U!ToSet(l) \cup {i}
        BY <2>2, <3>0, PutInFront
      <4>. QED BY <4>1 DEF T
    <3> HIDE DEF p
    <3>2. q = p
      BY <2>2 DEF p
    <3>. QED BY <3>1, <3>2
  <2>. QED BY <2>1, <2>2
<1> HIDE DEF c, q
<1>3. \A j \in 1..PCBS : c[j].local_port = IF j = i THEN x.local_port ELSE b[j].local_port
  BY <1>1
<1>4. \A j \in 1..PCBS : j \in U!ToSet(q) <=> c[j].local_port # 0
  BY <1>2, <1>3 DEF Fits
<1>5. \A j, k \in 1..PCBS : c[j].local_port = c[k].local_port /\ c[j].local_port # 0 => j = k
  BY <1>3 DEF Fits
<1>6. \A j \in 1..PCBS : ~c[j].used => c[j] = U!Unused
  BY <1>1 DEF Fits
<1>. QED BY <1>1, <1>2, <1>4, <1>5, <1>6 DEF Fits, c, q

LEMMA BoundFits ==
    ASSUME Fits(pcb, udp_pcbs), NEW b, Fits(b, udp_pcbs), Alike(b, pcb), NEW i \in 1..PCBS, b[i].used,
           NEW ip \in {"any", OWN}, NEW port \in U!Ports \cup {0}
    PROVE  Kept(U!Bound(i, ip, port, b), i, ip, port, b)
<1> DEFINE q == IF port = 0 THEN U!FreePort ELSE port
           at == [b EXCEPT ![i].local_ip = ip]
           x == [b[i] EXCEPT !.local_ip = ip]
           y == [b[i] EXCEPT !.local_ip = ip, !.local_port = q]
           r == U!Bound(i, ip, port, b)
<1>1. b \in [1..PCBS -> UdpBlocks] /\ b[i] \in UdpBlocks
  BY DEF Fits
<1>2. q \in U!Ports \cup {0}
  BY FreePortIs
<1>3. x \in UdpBlocks /\ x.used /\ x.local_port = b[i].local_port /\ at = [b EXCEPT ![i] = x]
  BY <1>1 DEF UdpBlocks
<1>4. y \in UdpBlocks /\ y.used /\ y.local_port = q /\ [at EXCEPT ![i].local_port = q] = [b EXCEPT ![i] = y]
  <2> HIDE DEF q
  <2>1. y \in UdpBlocks /\ y.used /\ y.local_port = q /\ y = [x EXCEPT !.local_port = q]
    BY <1>1, <1>2 DEF UdpBlocks
  <2> HIDE DEF x, y
  <2>2. at = [b EXCEPT ![i] = x] /\ i \in DOMAIN b
    BY <1>1, <1>3
  <2> HIDE DEF at
  <2>. QED BY <2>1, <2>2
<1>s. SameUse(x, b[i]) /\ SameUse(y, b[i])
  BY <1>1 DEF UdpBlocks, SameUse
<1>5. CASE U!Taken(i, ip, port)
  <2>1. r = [ok |-> FALSE, pcb |-> b, list |-> udp_pcbs]
    BY <1>5 DEF U!Bound
  <2> HIDE DEF r
  <2>2. r.pcb = b /\ r.list = udp_pcbs /\ ~r.ok
    BY <2>1
  <2>3. SameUse(b[i], b[i])
    BY DEF SameUse
  <2>4. Fits(r.pcb, r.list) /\ r.pcb[i].used /\ SameUse(r.pcb[i], b[i])
    BY <2>2, <2>3
  <2>. QED BY <2>2, <2>4 DEF Kept, r
<1>6. CASE ~U!Taken(i, ip, port) /\ q = 0
  <2>1. r = [ok |-> FALSE, pcb |-> at, list |-> udp_pcbs]
    BY <1>6 DEF U!Bound
  <2>2. Fits([b EXCEPT ![i] = x], udp_pcbs)
    <3> HIDE DEF x
    <3>. QED BY <1>3, Changed
  <2>3. \A j \in 1..PCBS : at[j] = IF j = i THEN x ELSE b[j]
    BY <1>1, <1>3
  <2> HIDE DEF r, x, at
  <2>. QED BY <1>3, <1>s, <2>1, <2>2, <2>3 DEF Kept, r
<1>7. CASE ~U!Taken(i, ip, port) /\ q # 0
  <2>1. r = [ok |-> TRUE, pcb |-> [at EXCEPT ![i].local_port = q],
             list |-> IF i \in U!ToSet(udp_pcbs) THEN udp_pcbs ELSE <<i>> \o udp_pcbs]
    BY <1>7 DEF U!Bound, U!Listed
  <2>2. \A j \in 1..PCBS : j # i => b[j].local_port # q
    <3>1. CASE port = 0
      <4>1. \A j \in U!Listed : pcb[j].local_port # q
        BY <1>7, <3>1, FreePortIs
      <4> HIDE DEF q
      <4>. QED BY <1>7, <4>1 DEF Fits, Alike, U!Listed
    <3>2. CASE port # 0
      BY <1>7, <3>2, NobodyHas DEF Alike
    <3>. QED BY <3>1, <3>2
  <2> DEFINE c == [b EXCEPT ![i] = y]
             k == IF i \in U!ToSet(udp_pcbs) THEN udp_pcbs ELSE <<i>> \o udp_pcbs
  <2>3. Fits(c, k)
    <3> HIDE DEF y, q
    <3>. QED BY <1>4, <1>7, <2>2, Placed
  <2>4. r.ok /\ r.pcb = c /\ r.list = k
    <3> HIDE DEF y, q, at, r, k
    <3>. QED BY <1>4, <2>1 DEF k
  <2>5. \A j \in 1..PCBS : c[j] = IF j = i THEN y ELSE b[j]
    <3> HIDE DEF y
    <3>. QED BY <1>1
  <2>6. y = [b[i] EXCEPT !.local_ip = ip, !.local_port = y.local_port]
    BY <1>4
  <2>7. port # 0 => y.local_port = port
    BY <1>4
  <2> HIDE DEF r, c, k, y
  <2>. QED BY <1>4, <1>s, <2>3, <2>4, <2>5, <2>6, <2>7 DEF Kept, r
<1>. QED BY <1>5, <1>6, <1>7

LEMMA PortedFits ==
    ASSUME Fits(pcb, udp_pcbs), NEW b, Fits(b, udp_pcbs), Alike(b, pcb), NEW i \in 1..PCBS, b[i].used
    PROVE  /\ Fits(U!Ported(i, b).pcb, U!Ported(i, b).list)
           /\ \A j \in 1..PCBS : j # i => U!Ported(i, b).pcb[j] = b[j]
           /\ SameUse(U!Ported(i, b).pcb[i], b[i])
<1>1. CASE b[i].local_port = 0
  <2>1. b[i].local_ip \in {"any", OWN} /\ 0 \in U!Ports \cup {0}
    BY DEF Fits, UdpBlocks
  <2>2. Kept(U!Bound(i, b[i].local_ip, 0, b), i, b[i].local_ip, 0, b)
    BY <2>1, BoundFits
  <2>3. U!Ported(i, b) = U!Bound(i, b[i].local_ip, 0, b)
    BY <1>1 DEF U!Ported
  <2>. QED BY <2>2, <2>3 DEF Kept
<1>2. CASE b[i].local_port # 0
  BY <1>2 DEF U!Ported, SameUse
<1>. QED BY <1>1, <1>2

LEMMA DhcpStays ==
    ASSUME NEW d, NEW e, NEW b, DhcpFits(d, e, b), NEW i \in 1..PCBS, NEW c, \A j \in 1..PCBS : j # i => c[j] = b[j],
           i \notin {d, e} \/ SameUse(c[i], b[i])
    PROVE  DhcpFits(d, e, c)
<1>1. \A j \in {d, e} \ {0} : SameUse(c[j], b[j])
  BY DEF DhcpFits, SameUse
<1>. QED BY <1>1 DEF DhcpFits, SameUse, ClientBlock, ServerBlock
LEMMA DhcpIs ==
    ASSUME DhcpFits(dhcp, dhcps, pcb), Fits(pcb, udp_pcbs), NEW i \in 1..PCBS
    PROVE  /\ pcb[i].espconn => pcb[i].used /\ i \notin {dhcp, dhcps}
           /\ ~pcb[i].used => i \notin {dhcp, dhcps} /\ pcb[i] = U!Unused
  BY DEF DhcpFits, ClientBlock, ServerBlock, Fits, U!Unused

-----------------------------------------------------------------------------
\* Who takes a datagram is in the list.
LEMMA FirstIs ==
    ASSUME Fits(pcb, udp_pcbs), NEW good \in SUBSET U!Listed
    PROVE  good # {} => U!First(good) \in good
<1> SUFFICES ASSUME good # {} PROVE U!First(good) \in good
  OBVIOUS
<1> DEFINE n == Len(udp_pcbs)
           Z == {k \in 1..n : udp_pcbs[k] \in good}
           k0 == CHOOSE k \in 1..n : udp_pcbs[k] \in good /\ \A l \in 1..(k - 1) : udp_pcbs[l] \notin good
<1>1. n \in Nat /\ DOMAIN udp_pcbs = 1..n
  BY LenProperties DEF Fits
<1>2. Z \in SUBSET Nat /\ Z # {}
  <2>1. PICK x \in good : TRUE
    OBVIOUS
  <2>2. x \in U!Listed
    BY <2>1
  <2>3. PICK k \in 1..n : udp_pcbs[k] = x
    BY <1>1, <2>2 DEF U!Listed, U!ToSet
  <2>. QED BY <1>1, <2>1, <2>3
<1>3. PICK k \in Z : \A l \in Z : k <= l
  <2> HIDE DEF Z
  <2>. QED BY <1>2, LeastExists
<1>4. k \in 1..n /\ udp_pcbs[k] \in good /\ \A l \in 1..(k - 1) : udp_pcbs[l] \notin good
  <2>1. ASSUME NEW l \in 1..(k - 1), udp_pcbs[l] \in good PROVE FALSE
    <3>1. l \in 1..n /\ l \in Nat /\ k \in Nat /\ l < k
      BY <1>1, <1>3
    <3>2. l \in Z
      BY <2>1, <3>1
    <3>. QED BY <1>3, <3>1, <3>2
  <2>. QED BY <1>3, <2>1
<1>5. udp_pcbs[k0] \in good
  <2> HIDE DEF Z
  <2>. QED BY <1>4
<1>. QED BY <1>5 DEF U!First

LEMMA ReceiverIs ==
    ASSUME UdpInv, NEW d
    PROVE  LET i == U!Receiver(d) IN
           /\ ~U!Reserved(d) => i \in U!Listed \cup {0}
           /\ U!Reserved(d) => i = U!DhcpReceiver(d)
           /\ ~U!Reserved(d) /\ i # 0 => U!PeerMatch(i, d) \/ ~pcb[i].connected
           /\ \A j \in U!Listed : U!LocalMatch(j, d) /\ ~pcb[j].connected /\ ~U!Reserved(d) => i # 0
<1> DEFINE i == U!Receiver(d)
           mine == {j \in U!Listed : U!LocalMatch(j, d) /\ U!PeerMatch(j, d)}
           open == {j \in U!Listed : U!LocalMatch(j, d) /\ ~pcb[j].connected}
<1>0. U!Listed \subseteq 1..PCBS /\ PCBS \in Nat
  BY UdpNumbers, ElementOfSeq DEF UdpInv, Fits, U!Listed, U!ToSet
<1>1. CASE U!Reserved(d)
  <2>1. i = U!DhcpReceiver(d)
    BY <1>1 DEF U!Receiver
  <2> HIDE DEF i
  <2>. QED BY <1>1, <2>1 DEF i
<1>2. CASE ~U!Reserved(d)
  <2>1. i = IF U!First(mine) # 0 THEN U!First(mine) ELSE U!First(open)
    BY <1>2 DEF U!Receiver
  <2>2. /\ mine \in SUBSET U!Listed /\ open \in SUBSET U!Listed
        /\ \A j \in mine : U!PeerMatch(j, d)
        /\ \A j \in open : ~pcb[j].connected
        /\ \A j \in U!Listed : U!LocalMatch(j, d) /\ ~pcb[j].connected => j \in open
    OBVIOUS
  <2> HIDE DEF mine, open, i
  <2>3. /\ IF mine = {} THEN U!First(mine) = 0 ELSE U!First(mine) \in mine
        /\ IF open = {} THEN U!First(open) = 0 ELSE U!First(open) \in open
    BY <2>2, FirstIs DEF U!First, UdpInv
  <2>4. \A j \in U!Listed : j # 0
    BY <1>0
  <2>5. (i = 0 /\ mine = {} /\ open = {}) \/ i \in mine \/ i \in open
    BY <2>1, <2>2, <2>3, <2>4
  <2>. QED BY <1>2, <2>2, <2>4, <2>5 DEF i
<1>. QED BY <1>1, <1>2

-----------------------------------------------------------------------------
\* What the user is told.
LEMMA Quiet == ToldOf(U!NoTries)
  BY DEF ToldOf, U!NoTries

LEMMA AsList ==
    ASSUME NEW T, NEW k \in Nat, NEW q \in [1..k -> T]
    PROVE  q \in Seq(T) /\ Len(q) = k /\ \A j \in 1..k : q[j] \in T
<1>1. q \in Seq(T)
  BY SeqDef
<1>2. Len(q) \in Nat /\ 1..Len(q) = DOMAIN q /\ DOMAIN q = 1..k
  BY <1>1, LenProperties
<1>3. Len(q) = k
  BY <1>2
<1>. QED BY <1>1, <1>3

LEMMA SentTold ==
    ASSUME NEW length \in LENGTHS, NEW s, NEW outcomes \in U!Outcomes(length, s)
    PROVE  ToldOf(U!Sent(length, outcomes))
<1> DEFINE n == U!PieceCount(length)
           each == IF s THEN {"ok", "err"} ELSE {"err"}
           t == U!Sent(length, outcomes)
           p == [k \in 1..Len(outcomes) |-> [size |-> U!PieceOf(length, k), outcome |-> outcomes[k]]]
<1>0. length \in Nat \ {0} /\ DATAGRAM \in Nat \ {0} /\ each \subseteq {"ok", "err"}
  BY UdpNumbers
<1>1. n \in Nat \ {0}
  BY <1>0, PiecesAre DEF U!PieceCount
<1>2. /\ t.pieces = p /\ t.length = length
      /\ t.told = IF Len(outcomes) = n /\ U!Last(outcomes) = "ok" THEN 1 ELSE 0
  BY DEF U!Sent, U!espconn_data_sent
<1>3. CASE outcomes \in [1..n -> each]
  <2> HIDE DEF n, each, t
  <2>1. Len(outcomes) = n /\ \A k \in 1..n : outcomes[k] \in {"ok", "err"}
    <3>0. n \in Nat
      BY <1>1
    <3>1. Len(outcomes) = n /\ \A k \in 1..n : outcomes[k] \in each
      <4> DEFINE q == outcomes
      <4>1. q \in [1..n -> each]
        BY <1>3
      <4> HIDE DEF q
      <4>2. Len(q) = n /\ \A k \in 1..n : q[k] \in each
        BY <3>0, <4>1, AsList
      <4>. QED BY <4>2 DEF q
    <3>. QED BY <1>0, <3>1
  <2> DEFINE v == [k \in 1..n |-> U!PieceOf(length, k)]
  <2>2. DOMAIN p = 1..n /\ \A k \in 1..n : p[k].size = U!PieceOf(length, k) /\ p[k].outcome = outcomes[k]
    BY <2>1
  <2>3. Len(p) = n
    BY <1>1, <2>1
  <2>4. v \in [1..n -> Int] /\ \A k \in 1..n : v[k] = U!PieceOf(length, k)
    <3>1. ASSUME NEW k \in 1..n PROVE U!PieceOf(length, k) \in Int
      <4> DEFINE a == (k - 1) * DATAGRAM
      <4>1. a \in Int
        BY <1>0, <1>1
      <4>2. U!PieceOf(length, k) = IF k * DATAGRAM <= length THEN DATAGRAM ELSE length - a
        BY DEF U!PieceOf
      <4> HIDE DEF a
      <4>. QED BY <1>0, <4>1, <4>2
    <3>. QED BY <3>1
  <2> HIDE DEF p, v
  <2>5. PICK g : Adds(g, v, n) /\ Sizes(p) = g[1..n]
    BY <1>1, <2>2, <2>4, FoldIs
  <2>6. g[1..n] = length
    BY <2>4, <2>5, PiecesAddUp DEF n
  <2>7. U!Last(p).outcome = U!Last(outcomes)
    BY <1>1, <2>1, <2>2, <2>3 DEF U!Last
  <2>8. \A k \in 1..Len(p) : p[k].outcome # "mem"
    BY <2>1, <2>2, <2>3
  <2>. QED BY <1>2, <2>5, <2>6, <2>7, <2>8 DEF ToldOf, t
<1>4. CASE \E k \in 0..(n - 1) : \E q \in [1..k -> each] : outcomes = Append(q, "mem")
  <2> HIDE DEF n, each, t, p
  <2>1. PICK k \in 0..(n - 1) : \E q \in [1..k -> each] : outcomes = Append(q, "mem")
    BY <1>4
  <2>2. PICK q \in [1..k -> each] : outcomes = Append(q, "mem")
    BY <2>1
  <2>3. q \in Seq({"ok", "err", "mem"}) /\ Len(q) = k
    <3>1. k \in Nat
      BY <1>1, <2>1
    <3>2. q \in Seq(each) /\ Len(q) = k
      BY <2>2, <3>1, AsList
    <3>3. \A j \in 1..Len(q) : q[j] \in {"ok", "err", "mem"}
      BY <1>0, <3>2, ElementOfSeq
    <3>4. q \in [1..k -> {"ok", "err", "mem"}]
      BY <2>2, <3>2, <3>3
    <3>. QED BY <3>1, <3>4, AsList
  <2>4. Len(outcomes) = k + 1 /\ outcomes[k + 1] = "mem"
    BY <2>2, <2>3, AppendProperties
  <2>5. U!Last(outcomes) = "mem"
    BY <2>4 DEF U!Last
  <2>. QED BY <1>2, <2>5 DEF ToldOf, t
<1>5. outcomes \in [1..n -> each] \/ \E k \in 0..(n - 1) : \E q \in [1..k -> each] : outcomes = Append(q, "mem")
  BY DEF U!Outcomes
<1>. QED BY <1>3, <1>4, <1>5

-----------------------------------------------------------------------------
LEMMA InList ==
    ASSUME NEW T, NEW s \in Seq(T)
    PROVE  U!ToSet(s) \subseteq T
<1>1. Len(s) \in Nat /\ DOMAIN s = 1..Len(s)
  BY LenProperties
<1>. QED BY <1>1, ElementOfSeq DEF U!ToSet

LEMMA UdpInitially == U!Init => UdpInv
<1> SUFFICES ASSUME U!Init PROVE UdpInv
  OBVIOUS
<1>1. /\ pcb = [i \in 1..PCBS |-> U!Unused] /\ udp_pcbs = <<>> /\ raw_pcbs = <<>> /\ dhcp = 0 /\ dhcps = 0 /\ tries = U!NoTries
  BY DEF U!Init, U!Ids
<1>2. <<>> \in Seq(1..PCBS) /\ Distinct(<<>>) /\ U!ToSet(<<>>) = {}
  BY DEF Distinct, U!ToSet
<1>3. Fits(pcb, udp_pcbs)
  BY <1>1, <1>2, UnusedIs DEF Fits
<1>. QED BY <1>1, <1>2, <1>3, Quiet, UdpNumbers DEF UdpInv, DhcpFits, RawFits

LEMMA InputKeeps == ASSUME UdpInv, NEW d, U!udp_input(d) PROVE UdpInv'
<1> DEFINE i == U!Receiver(d)
           list == IF ~U!Reserved(d) /\ i # 0 /\ U!PeerMatch(i, d) THEN U!Front1(udp_pcbs, i) ELSE udp_pcbs
<1>1. udp_pcbs' = list /\ UNCHANGED <<pcb, raw_pcbs, dhcp, dhcps>> /\ tries' = U!NoTries
  BY DEF U!udp_input
<1>2. Fits(pcb, list)
  <2>1. CASE ~U!Reserved(d) /\ i # 0 /\ U!PeerMatch(i, d)
    <3>1. i \in U!ToSet(udp_pcbs)
      BY <2>1, ReceiverIs DEF U!Listed
    <3>2. i \in 1..PCBS
      BY <3>1, InList DEF UdpInv, Fits
    <3> HIDE DEF i
    <3>3. Fits(pcb, U!Front1(udp_pcbs, i))
      BY <3>1, <3>2, Reordered DEF UdpInv
    <3>. QED BY <2>1, <3>3
  <2>2. CASE ~(~U!Reserved(d) /\ i # 0 /\ U!PeerMatch(i, d))
    BY <2>2 DEF UdpInv
  <2>. QED BY <2>1, <2>2
<1> HIDE DEF list
<1>. QED BY <1>1, <1>2, Quiet DEF UdpInv

\* A step that leaves the DHCP client's block, and raw IP's, alone.
LEMMA BlocksKeep ==
    ASSUME UdpInv, NEW i \in 1..PCBS, i \notin {dhcp, dhcps}, Fits(pcb', udp_pcbs'), \A j \in 1..PCBS : j # i => pcb'[j] = pcb[j],
           ToldOf(tries'), UNCHANGED <<raw_pcbs, dhcp, dhcps>>
    PROVE  UdpInv'
<1>1. DhcpFits(dhcp, dhcps, pcb')
  BY DhcpStays DEF UdpInv
<1>. QED BY <1>1 DEF UdpInv

\* One block changes, but not its port.
LEMMA OneChanges ==
    ASSUME UdpInv, NEW i \in 1..PCBS, i \notin {dhcp, dhcps}, NEW x \in UdpBlocks, x.used, x.local_port = pcb[i].local_port,
           pcb' = [pcb EXCEPT ![i] = x], UNCHANGED <<udp_pcbs, raw_pcbs, dhcp, dhcps>>, tries' = U!NoTries
    PROVE  UdpInv'
<1>1. Fits(pcb', udp_pcbs')
  BY Changed DEF UdpInv
<1>2. \A j \in 1..PCBS : j # i => pcb'[j] = pcb[j]
  BY DEF UdpInv, Fits
<1>. QED BY <1>1, <1>2, BlocksKeep, Quiet

LEMMA OneLeaves ==
    ASSUME UdpInv, NEW i \in 1..PCBS, i \notin {dhcp, dhcps},
           pcb' = [pcb EXCEPT ![i] = U!Unused], udp_pcbs' = U!RemoveFirst(udp_pcbs, i),
           UNCHANGED <<raw_pcbs, dhcp, dhcps>>, tries' = U!NoTries
    PROVE  UdpInv'
<1>1. Fits(pcb', udp_pcbs')
  BY Removed DEF UdpInv
<1>2. \A j \in 1..PCBS : j # i => pcb'[j] = pcb[j]
  BY DEF UdpInv, Fits
<1>. QED BY <1>1, <1>2, BlocksKeep, Quiet

LEMMA OwnIs ==
    ASSUME UdpInv, NEW i \in 1..PCBS
    PROVE  /\ U!Own(i) => pcb[i].used /\ i \notin {dhcp, dhcps}
           /\ i \in U!New => pcb[i] = U!Unused /\ i \notin {dhcp, dhcps}
           /\ pcb[i].espconn => pcb[i].used /\ i \notin {dhcp, dhcps}
           /\ pcb[i] \in UdpBlocks /\ pcb[i].local_ip \in {"any", OWN}
           /\ Alike(pcb, pcb)
<1>1. /\ pcb[i].espconn => pcb[i].used /\ i \notin {dhcp, dhcps}
      /\ ~pcb[i].used => i \notin {dhcp, dhcps} /\ pcb[i] = U!Unused
  BY DhcpIs DEF UdpInv
<1>2. pcb[i] \in UdpBlocks
  BY DEF UdpInv, Fits
<1>. QED BY <1>1, <1>2 DEF U!Own, U!New, Alike, UdpBlocks

LEMMA NewKeeps == ASSUME UdpInv, NEW i \in 1..PCBS, U!udp_new(i) PROVE UdpInv'
<1> DEFINE x == [U!Unused EXCEPT !.used = TRUE]
<1>1. x \in UdpBlocks /\ x.used /\ x.local_port = 0 /\ pcb[i].local_port = 0 /\ i \notin {dhcp, dhcps}
  BY OwnIs, UnusedIs DEF U!udp_new, U!Unused
<1>2. pcb' = [pcb EXCEPT ![i] = x] /\ UNCHANGED <<udp_pcbs, raw_pcbs, dhcp, dhcps>> /\ tries' = U!NoTries
  BY DEF U!udp_new
<1> HIDE DEF x
<1>. QED BY <1>1, <1>2, OneChanges

LEMMA BindKeeps ==
    ASSUME UdpInv, NEW i \in 1..PCBS, NEW ip \in {"any", OWN}, NEW port \in PORTS \cup {0}, U!udp_bind(i, ip, port)
    PROVE  UdpInv'
<1> DEFINE r == U!Bound(i, ip, port, pcb)
<1>1. pcb[i].used /\ i \notin {dhcp, dhcps} /\ Alike(pcb, pcb)
  BY OwnIs DEF U!udp_bind
<1>2. Kept(r, i, ip, port, pcb)
  BY <1>1, BoundFits, PortsAre DEF UdpInv
<1>3. pcb' = r.pcb /\ udp_pcbs' = r.list /\ UNCHANGED <<raw_pcbs, dhcp, dhcps>> /\ tries' = U!NoTries
  BY DEF U!udp_bind
<1> HIDE DEF r
<1>4. Fits(pcb', udp_pcbs') /\ \A j \in 1..PCBS : j # i => pcb'[j] = pcb[j]
  BY <1>2, <1>3 DEF Kept
<1>. QED BY <1>1, <1>3, <1>4, BlocksKeep, Quiet

LEMMA ConnectKeeps1 ==
    ASSUME UdpInv, NEW i \in 1..PCBS, NEW ip \in PEERS, NEW port \in PORTS, U!udp_connect(i, ip, port)
    PROVE  UdpInv'
<1> DEFINE r == U!Ported(i, pcb)
           x == [r.pcb[i] EXCEPT !.remote_ip = ip, !.remote_port = port, !.connected = TRUE]
<1>1. pcb[i].used /\ i \notin {dhcp, dhcps} /\ Alike(pcb, pcb) /\ pcb[i].local_ip \in {"any", OWN}
  BY OwnIs DEF U!udp_connect
<1>2. Fits(r.pcb, r.list) /\ (\A j \in 1..PCBS : j # i => r.pcb[j] = pcb[j]) /\ r.pcb[i].used
  <2>1. CASE pcb[i].local_port = 0
    <3>1. Kept(U!Bound(i, pcb[i].local_ip, 0, pcb), i, pcb[i].local_ip, 0, pcb)
      BY <1>1, BoundFits DEF UdpInv
    <3>2. r = U!Bound(i, pcb[i].local_ip, 0, pcb)
      BY <2>1 DEF U!Ported
    <3>. QED BY <3>1, <3>2 DEF Kept
  <2>2. CASE pcb[i].local_port # 0
    BY <1>1, <2>2 DEF U!Ported, UdpInv
  <2>. QED BY <2>1, <2>2
<1>3. /\ udp_pcbs' = r.list
      /\ pcb' = IF r.ok THEN [r.pcb EXCEPT ![i].remote_ip = ip, ![i].remote_port = port, ![i].connected = TRUE] ELSE r.pcb
      /\ UNCHANGED <<raw_pcbs, dhcp, dhcps>> /\ tries' = U!NoTries
  BY DEF U!udp_connect, U!Ported
<1>4. r.pcb \in [1..PCBS -> UdpBlocks] /\ r.pcb[i] \in UdpBlocks /\ port \in Nat
  BY <1>2, UdpNumbers DEF Fits
<1>5. x \in UdpBlocks /\ x.used /\ x.local_port = r.pcb[i].local_port
  <2> HIDE DEF r
  <2>. QED BY <1>2, <1>4 DEF UdpBlocks
<1>6. [r.pcb EXCEPT ![i].remote_ip = ip, ![i].remote_port = port, ![i].connected = TRUE] = [r.pcb EXCEPT ![i] = x]
  <2> HIDE DEF r
  <2>. QED BY <1>4
<1> HIDE DEF r, x
<1>7. Fits([r.pcb EXCEPT ![i] = x], r.list)
  BY <1>2, <1>5, Changed
<1>8. Fits(pcb', udp_pcbs')
  BY <1>2, <1>3, <1>6, <1>7
<1>9. \A j \in 1..PCBS : j # i => pcb'[j] = pcb[j]
  BY <1>2, <1>3, <1>4, <1>6
<1>. QED BY <1>1, <1>3, <1>8, <1>9, BlocksKeep, Quiet

LEMMA DisconnectKeeps == ASSUME UdpInv, NEW i \in 1..PCBS, U!udp_disconnect(i) PROVE UdpInv'
<1> DEFINE x == [pcb[i] EXCEPT !.remote_ip = "any", !.remote_port = 0, !.connected = FALSE]
<1>1. pcb[i].used /\ i \notin {dhcp, dhcps} /\ pcb[i] \in UdpBlocks
  BY OwnIs DEF U!udp_disconnect
<1>2. x \in UdpBlocks /\ x.used /\ x.local_port = pcb[i].local_port
  BY <1>1 DEF UdpBlocks
<1>3. pcb' = [pcb EXCEPT ![i] = x] /\ UNCHANGED <<udp_pcbs, raw_pcbs, dhcp, dhcps>> /\ tries' = U!NoTries
  BY DEF U!udp_disconnect, UdpInv, Fits, U!ANY
<1> HIDE DEF x
<1>. QED BY <1>1, <1>2, <1>3, OneChanges

LEMMA RemoveKeeps ==
    ASSUME UdpInv, NEW i \in 1..PCBS, U!udp_remove(i) \/ U!espconn_udp_disconnect(i)
    PROVE  UdpInv'
<1>1. i \notin {dhcp, dhcps}
  BY OwnIs DEF U!udp_remove, U!espconn_udp_disconnect
<1>2. /\ pcb' = [pcb EXCEPT ![i] = U!Unused] /\ udp_pcbs' = U!RemoveFirst(udp_pcbs, i)
      /\ UNCHANGED <<raw_pcbs, dhcp, dhcps>> /\ tries' = U!NoTries
  BY DEF U!udp_remove, U!espconn_udp_disconnect
<1>. QED BY <1>1, <1>2, OneLeaves

LEMMA SendKeeps == ASSUME UdpInv, NEW i \in 1..PCBS, U!udp_sendto(i) PROVE UdpInv'
<1> DEFINE r == U!Ported(i, pcb)
<1>1. pcb[i].used /\ Alike(pcb, pcb)
  BY DEF U!udp_sendto, Alike
<1>2. Fits(r.pcb, r.list) /\ (\A j \in 1..PCBS : j # i => r.pcb[j] = pcb[j]) /\ SameUse(r.pcb[i], pcb[i])
  BY <1>1, PortedFits DEF UdpInv
<1>3. pcb' = r.pcb /\ udp_pcbs' = r.list /\ UNCHANGED <<raw_pcbs, dhcp, dhcps>> /\ tries' = U!NoTries
  BY DEF U!udp_sendto
<1> HIDE DEF r
<1>4. Fits(pcb', udp_pcbs')
  BY <1>2, <1>3
<1>5. DhcpFits(dhcp, dhcps, r.pcb)
  BY <1>2, DhcpStays DEF UdpInv
<1>. QED BY <1>3, <1>4, <1>5, Quiet DEF UdpInv

LEMMA ServerKeeps ==
    ASSUME UdpInv, NEW i \in 1..PCBS, NEW port \in PORTS, U!espconn_udp_server(i, port)
    PROVE  UdpInv'
<1> DEFINE x == [U!Unused EXCEPT !.used = TRUE, !.espconn = TRUE]
           b == [pcb EXCEPT ![i] = x]
           r == U!Bound(i, "any", port, b)
<1>1. pcb[i] = U!Unused /\ i \notin {dhcp, dhcps}
  BY OwnIs DEF U!espconn_udp_server
<1>2. x \in UdpBlocks /\ x.used /\ x.local_port = pcb[i].local_port
  BY <1>1, UnusedIs DEF U!Unused
<1>3. pcb' = r.pcb /\ udp_pcbs' = r.list /\ UNCHANGED <<raw_pcbs, dhcp, dhcps>> /\ tries' = U!NoTries
  BY DEF U!espconn_udp_server, U!ANY
<1> HIDE DEF x
<1>4. Fits(b, udp_pcbs) /\ \A j \in 1..PCBS : b[j] = IF j = i THEN x ELSE pcb[j]
  BY <1>2, Changed DEF UdpInv, Fits
<1>5. Alike(b, pcb) /\ b[i].used
  BY <1>2, <1>4 DEF Alike
<1> HIDE DEF b
<1>6. port \in U!Ports \cup {0}
  BY PortsAre
<1>7. Kept(r, i, "any", port, b)
  BY <1>4, <1>5, <1>6, BoundFits DEF UdpInv
<1> HIDE DEF r
<1>8. Fits(pcb', udp_pcbs') /\ \A j \in 1..PCBS : j # i => pcb'[j] = pcb[j]
  BY <1>3, <1>4, <1>7 DEF Kept
<1>. QED BY <1>1, <1>3, <1>8, BlocksKeep, Quiet

\* A block of DHCP's is new, and bound to its port if nobody has it.
LEMMA DhcpBinds ==
    ASSUME UdpInv, NEW i \in 1..PCBS, i \in U!New, NEW port \in U!Ports
    PROVE  LET r == U!Bound(i, "any", port, U!Fresh(i)) IN
           /\ Fits(U!Fresh(i), udp_pcbs) /\ Alike(U!Fresh(i), pcb)
           /\ Kept(r, i, "any", port, U!Fresh(i)) /\ r.list = (IF r.ok THEN r.list ELSE udp_pcbs)
           /\ ServerBlock(r.pcb[i]) /\ r.pcb[i].remote_ip = "any"
           /\ \A j \in 1..PCBS : j # i => r.pcb[j] = pcb[j]
<1> DEFINE x == [U!Unused EXCEPT !.used = TRUE]
           b == U!Fresh(i)
           r == U!Bound(i, "any", port, b)
<1>1. pcb[i] = U!Unused
  BY OwnIs
<1>2. x \in UdpBlocks /\ x.used /\ x.local_port = pcb[i].local_port
  BY <1>1, UnusedIs DEF U!Unused
<1>3. x.used /\ ~x.espconn /\ ~x.connected /\ x.remote_ip = "any"
  BY DEF U!Unused, U!ANY
<1>b. b = [pcb EXCEPT ![i] = x]
  BY DEF U!Fresh
<1> HIDE DEF x, b
<1>4. Fits(b, udp_pcbs) /\ \A j \in 1..PCBS : b[j] = IF j = i THEN x ELSE pcb[j]
  BY <1>2, <1>b, Changed DEF UdpInv, Fits
<1>5. Alike(b, pcb) /\ b[i].used /\ b[i] = x
  BY <1>2, <1>4 DEF Alike
<1>7. Kept(r, i, "any", port, b)
  BY <1>4, <1>5, BoundFits DEF UdpInv
<1>8. r.list = IF r.ok THEN r.list ELSE udp_pcbs
  BY DEF U!Bound
<1> HIDE DEF r
<1>9. SameUse(r.pcb[i], x) /\ \A j \in 1..PCBS : j # i => r.pcb[j] = pcb[j]
  BY <1>4, <1>5, <1>7 DEF Kept
<1>10. ServerBlock(r.pcb[i]) /\ r.pcb[i].remote_ip = "any"
  BY <1>3, <1>9 DEF SameUse, ServerBlock
<1>. QED BY <1>4, <1>5, <1>7, <1>8, <1>9, <1>10 DEF r, b

LEMMA StartKeeps == ASSUME UdpInv, NEW i \in 1..PCBS, U!DhcpStart(i) PROVE UdpInv'
<1> DEFINE b == U!Fresh(i)
           q == U!Bound(i, "any", DHCP_CLIENT_PORT, b)
           r == U!DhcpBound(i)
           x == [r.pcb[i] EXCEPT !.remote_port = DHCP_SERVER_PORT, !.connected = TRUE]
<1>0. i \in U!New /\ dhcps = 0 /\ DHCP_CLIENT_PORT \in U!Ports /\ DHCP_SERVER_PORT \in Nat
  BY PortsAre, UdpNumbers DEF U!DhcpStart
<1>1. /\ Fits(b, udp_pcbs) /\ Alike(b, pcb)
      /\ Kept(q, i, "any", DHCP_CLIENT_PORT, b) /\ (q.ok \/ q.list = udp_pcbs)
      /\ ServerBlock(q.pcb[i]) /\ q.pcb[i].remote_ip = "any"
      /\ \A j \in 1..PCBS : j # i => q.pcb[j] = pcb[j]
  BY <1>0, DhcpBinds
<1>2. r = IF q.ok THEN q ELSE U!Ported(i, q.pcb)
  BY DEF U!DhcpBound, U!ANY
<1>3. /\ pcb' = IF r.ok THEN [r.pcb EXCEPT ![i].remote_port = DHCP_SERVER_PORT, ![i].connected = TRUE] ELSE r.pcb
      /\ udp_pcbs' = r.list /\ dhcp' = i /\ dhcps' = 0 /\ UNCHANGED raw_pcbs /\ tries' = U!NoTries
  BY <1>0 DEF U!DhcpStart
<1>q. ~q.ok => q.pcb = b \/ q.pcb = [b EXCEPT ![i].local_ip = "any"]
  BY DEF U!Bound
<1> HIDE DEF b, q, r, x
<1>4. Fits(r.pcb, r.list) /\ ServerBlock(r.pcb[i]) /\ r.pcb[i].remote_ip = "any"
      /\ \A j \in 1..PCBS : j # i => r.pcb[j] = pcb[j]
  <2>1. CASE q.ok
    BY <1>1, <1>2, <2>1 DEF Kept
  <2>2. CASE ~q.ok
    <3>1. Fits(q.pcb, udp_pcbs) /\ q.pcb[i].used
      BY <1>1, <2>2 DEF Kept
    <3>2. Alike(q.pcb, pcb)
      <4>1. b \in [1..PCBS -> UdpBlocks]
        BY <1>1 DEF Fits
      <4>2. \A j \in 1..PCBS : q.pcb[j].local_port = b[j].local_port
        <5>1. CASE q.pcb = b
          BY <5>1
        <5>2. CASE q.pcb = [b EXCEPT ![i].local_ip = "any"]
          <6> DEFINE y == [b[i] EXCEPT !.local_ip = "any"]
          <6>1. y.local_port = b[i].local_port
            BY <4>1 DEF UdpBlocks
          <6>2. q.pcb = [b EXCEPT ![i] = y]
            BY <4>1, <5>2
          <6> HIDE DEF y
          <6>. QED BY <4>1, <6>1, <6>2
        <5>. QED BY <1>q, <2>2, <5>1, <5>2
      <4>. QED BY <1>1, <4>2 DEF Alike
    <3> DEFINE c == q.pcb
               p == U!Ported(i, c)
    <3>3. Fits(c, udp_pcbs) /\ c[i].used /\ Alike(c, pcb)
      BY <3>1, <3>2
    <3> HIDE DEF c
    <3>4. Fits(p.pcb, p.list) /\ (\A j \in 1..PCBS : j # i => p.pcb[j] = c[j]) /\ SameUse(p.pcb[i], c[i])
      BY <3>3, PortedFits DEF UdpInv
    <3>5. r = p
      BY <1>2, <2>2 DEF c
    <3> HIDE DEF p
    <3>6. ServerBlock(c[i]) /\ c[i].remote_ip = "any" /\ \A j \in 1..PCBS : j # i => c[j] = pcb[j]
      BY <1>1 DEF c
    <3>. QED BY <3>4, <3>5, <3>6 DEF ServerBlock, SameUse
  <2>. QED BY <2>1, <2>2
<1>5. r.pcb \in [1..PCBS -> UdpBlocks] /\ r.pcb[i] \in UdpBlocks
  BY <1>4 DEF Fits
<1>6. x \in UdpBlocks /\ x.used /\ x.local_port = r.pcb[i].local_port /\ ClientBlock(x)
  BY <1>0, <1>4, <1>5 DEF UdpBlocks, ServerBlock, ClientBlock, x
<1>7. [r.pcb EXCEPT ![i].remote_port = DHCP_SERVER_PORT, ![i].connected = TRUE] = [r.pcb EXCEPT ![i] = x]
  BY <1>5 DEF x
<1>8. Fits([r.pcb EXCEPT ![i] = x], r.list)
  BY <1>4, <1>6, Changed
<1>9. Fits(pcb', udp_pcbs')
  BY <1>3, <1>4, <1>7, <1>8
<1>10. ClientBlock(pcb'[i])
  <2>1. ClientBlock(r.pcb[i])
    BY <1>4 DEF ClientBlock, ServerBlock
  <2>2. [r.pcb EXCEPT ![i] = x][i] = x
    BY <1>5
  <2>. QED BY <1>3, <1>6, <1>7, <2>1, <2>2
<1>11. DhcpFits(dhcp', dhcps', pcb')
  BY <1>3, <1>10, UdpNumbers DEF DhcpFits
<1>. QED BY <1>3, <1>9, <1>11, Quiet DEF UdpInv

LEMMA ServerStartKeeps == ASSUME UdpInv, NEW i \in 1..PCBS, U!dhcps_start(i) PROVE UdpInv'
<1> DEFINE r == U!Bound(i, "any", DHCP_SERVER_PORT, U!Fresh(i))
<1>1. i \in U!New /\ dhcp = 0 /\ DHCP_SERVER_PORT \in U!Ports
  BY PortsAre DEF U!dhcps_start
<1>2. pcb' = r.pcb /\ udp_pcbs' = r.list /\ dhcps' = i /\ UNCHANGED <<raw_pcbs, dhcp>> /\ tries' = U!NoTries
  BY DEF U!dhcps_start, U!ANY
<1>3. Kept(r, i, "any", DHCP_SERVER_PORT, U!Fresh(i)) /\ ServerBlock(r.pcb[i])
  BY <1>1, DhcpBinds
<1> HIDE DEF r
<1>4. Fits(pcb', udp_pcbs') /\ ServerBlock(pcb'[i])
  BY <1>2, <1>3 DEF Kept
<1>5. DhcpFits(dhcp', dhcps', pcb')
  BY <1>1, <1>2, <1>4, UdpNumbers DEF DhcpFits
<1>. QED BY <1>2, <1>4, <1>5, Quiet DEF UdpInv

LEMMA StopKeeps == ASSUME UdpInv, U!DhcpStop \/ U!dhcps_stop PROVE UdpInv'
<1> DEFINE i == IF dhcp # 0 THEN dhcp ELSE dhcps
<1>1. i \in 1..PCBS
  BY UdpNumbers DEF U!DhcpStop, U!dhcps_stop, UdpInv, DhcpFits
<1>2. /\ pcb' = [pcb EXCEPT ![i] = U!Unused] /\ udp_pcbs' = U!RemoveFirst(udp_pcbs, i) /\ dhcp' = 0 /\ dhcps' = 0
      /\ UNCHANGED raw_pcbs /\ tries' = U!NoTries
  BY DEF U!DhcpStop, U!dhcps_stop, UdpInv, DhcpFits
<1> HIDE DEF i
<1>3. Fits(pcb', udp_pcbs')
  <2> DEFINE b == [pcb EXCEPT ![i] = U!Unused]
             q == U!RemoveFirst(udp_pcbs, i)
  <2>1. Fits(b, q)
    <3>1. Fits(pcb, udp_pcbs)
      BY DEF UdpInv
    <3>. QED BY <1>1, <3>1, Removed
  <2> HIDE DEF b, q
  <2>2. pcb' = b /\ udp_pcbs' = q
    BY <1>2 DEF b, q
  <2>. QED BY <2>1, <2>2
<1>. QED BY <1>2, <1>3, Quiet, UdpNumbers DEF UdpInv, DhcpFits

LEMMA RawKeeps ==
    ASSUME UdpInv, \/ \E i \in 1..PCBS : U!raw_new(i) \/ U!raw_remove(i)
                   \/ \E eats \in SUBSET U!Ids : U!raw_input(eats)
    PROVE  UdpInv'
<1>0. raw_pcbs \in Seq(1..PCBS) /\ Distinct(raw_pcbs)
  BY DEF UdpInv, RawFits
<1>1. UNCHANGED <<pcb, udp_pcbs, dhcp, dhcps>> /\ tries' = U!NoTries
  BY DEF U!raw_new, U!raw_remove, U!raw_input
<1>2. CASE \E i \in 1..PCBS : U!raw_new(i)
  <2>1. PICK i \in 1..PCBS : U!raw_new(i)
    BY <1>2
  <2>2. i \notin U!ToSet(raw_pcbs) /\ raw_pcbs' = <<i>> \o raw_pcbs
    BY <2>1 DEF U!raw_new
  <2> DEFINE q == <<i>> \o raw_pcbs
  <2>3. q \in Seq(1..PCBS) /\ Distinct(q)
    BY <1>0, <2>2, PutInFront
  <2> HIDE DEF q
  <2>4. RawFits(raw_pcbs')
    BY <2>2, <2>3 DEF RawFits, q
  <2>. QED BY <1>1, <2>4, Quiet DEF UdpInv
<1>3. CASE \E i \in 1..PCBS : U!raw_remove(i)
  <2>1. PICK i \in 1..PCBS : U!raw_remove(i)
    BY <1>3
  <2>2. raw_pcbs' = U!RemoveFirst(raw_pcbs, i)
    BY <2>1 DEF U!raw_remove
  <2> DEFINE q == U!RemoveFirst(raw_pcbs, i)
  <2>3. q \in Seq(1..PCBS) /\ Distinct(q)
    BY <1>0, TakenOut
  <2> HIDE DEF q
  <2>4. RawFits(raw_pcbs')
    BY <2>2, <2>3 DEF RawFits, q
  <2>. QED BY <1>1, <2>4, Quiet DEF UdpInv
<1>4. CASE \E eats \in SUBSET U!Ids : U!raw_input(eats)
  <2>1. PICK eats \in SUBSET U!Ids : U!raw_input(eats)
    BY <1>4
  <2> DEFINE takers == {k \in 1..Len(raw_pcbs) : raw_pcbs[k] \in eats}
             k0 == CHOOSE k \in takers : \A l \in takers : k <= l
  <2>2. takers # {} /\ raw_pcbs' = U!Front1(raw_pcbs, raw_pcbs[k0])
    BY <2>1 DEF U!raw_input
  <2>3. Len(raw_pcbs) \in Nat /\ DOMAIN raw_pcbs = 1..Len(raw_pcbs)
    BY <1>0, LenProperties
  <2>4. takers \in SUBSET Nat /\ takers \subseteq 1..Len(raw_pcbs)
    BY <2>3
  <2>5. k0 \in takers
    <3> HIDE DEF takers
    <3>1. \E k \in takers : \A l \in takers : k <= l
      BY <2>2, <2>4, LeastExists
    <3>. QED BY <3>1
  <2> HIDE DEF takers, k0
  <2> DEFINE i == raw_pcbs[k0]
  <2>6. i \in 1..PCBS /\ i \in U!ToSet(raw_pcbs)
    <3>1. k0 \in 1..Len(raw_pcbs)
      BY <2>4, <2>5
    <3>. QED BY <1>0, <2>3, <3>1, ElementOfSeq DEF U!ToSet
  <2> HIDE DEF i
  <2>7. U!Front1(raw_pcbs, i) \in Seq(1..PCBS) /\ Distinct(U!Front1(raw_pcbs, i))
    BY <1>0, <2>6, Fronted
  <2>8. RawFits(raw_pcbs')
    BY <2>2, <2>7 DEF RawFits, i
  <2>. QED BY <1>1, <2>8, Quiet DEF UdpInv
<1>. QED BY <1>2, <1>3, <1>4

\* A message of espconn, to a peer it notes in the block or not.
LEMMA MessageSent ==
    ASSUME UdpInv, NEW i \in 1..PCBS, pcb[i].espconn, NEW b, Fits(b, udp_pcbs), Alike(b, pcb), b[i].used,
           \A j \in 1..PCBS : j # i => b[j] = pcb[j],
           NEW length \in LENGTHS, NEW s, NEW outcomes \in U!Outcomes(length, s),
           tries' = U!Sent(length, outcomes),
           \/ UNCHANGED <<pcb, udp_pcbs>>
           \/ pcb' = U!Ported(i, b).pcb /\ udp_pcbs' = U!Ported(i, b).list,
           UNCHANGED <<raw_pcbs, dhcp, dhcps>>
    PROVE  UdpInv'
<1>1. i \notin {dhcp, dhcps}
  BY OwnIs
<1>2. ToldOf(tries')
  BY SentTold
<1>3. CASE UNCHANGED <<pcb, udp_pcbs>>
  BY <1>2, <1>3 DEF UdpInv
<1>4. CASE pcb' = U!Ported(i, b).pcb /\ udp_pcbs' = U!Ported(i, b).list
  <2> DEFINE r == U!Ported(i, b)
  <2>1. Fits(r.pcb, r.list) /\ \A j \in 1..PCBS : j # i => r.pcb[j] = b[j]
    BY PortedFits DEF UdpInv
  <2>2. pcb' = r.pcb /\ udp_pcbs' = r.list
    BY <1>4
  <2> HIDE DEF r
  <2>3. Fits(pcb', udp_pcbs') /\ \A j \in 1..PCBS : j # i => pcb'[j] = pcb[j]
    BY <2>1, <2>2
  <2>. QED BY <1>1, <1>2, <2>3, BlocksKeep
<1>. QED BY <1>3, <1>4

LEMMA SentKeeps1 ==
    ASSUME UdpInv, NEW i \in 1..PCBS, NEW ip \in PEERS, NEW port \in PORTS, NEW length \in LENGTHS,
           U!espconn_udp_sent(i, ip, port, length)
    PROVE  UdpInv'
<1> DEFINE x == [pcb[i] EXCEPT !.remote_ip = ip, !.remote_port = port]
           b == [pcb EXCEPT ![i].remote_ip = ip, ![i].remote_port = port]
           r == U!Ported(i, b)
<1>1. pcb[i].espconn /\ pcb[i].used /\ pcb[i] \in UdpBlocks
  BY OwnIs DEF U!espconn_udp_sent
<1>2. x \in UdpBlocks /\ x.used /\ x.local_port = pcb[i].local_port
  BY <1>1, UdpNumbers DEF UdpBlocks
<1>3. b = [pcb EXCEPT ![i] = x]
  BY DEF UdpInv, Fits
<1> HIDE DEF x
<1>4. /\ Fits([pcb EXCEPT ![i] = x], udp_pcbs)
      /\ \A j \in 1..PCBS : [pcb EXCEPT ![i] = x][j] = IF j = i THEN x ELSE pcb[j]
  BY <1>2, Changed DEF UdpInv, Fits
<1>5. Fits(b, udp_pcbs) /\ \A j \in 1..PCBS : b[j] = IF j = i THEN x ELSE pcb[j]
  <2> HIDE DEF b
  <2>. QED BY <1>3, <1>4
<1>6. PICK outcomes \in U!Outcomes(length, U!Sendable(r, i)) :
        /\ tries' = U!Sent(length, outcomes)
        /\ IF outcomes[1] = "mem" THEN UNCHANGED <<pcb, udp_pcbs>> ELSE pcb' = r.pcb /\ udp_pcbs' = r.list
  BY DEF U!espconn_udp_sent
<1>7. UNCHANGED <<raw_pcbs, dhcp, dhcps>>
  BY DEF U!espconn_udp_sent
<1> HIDE DEF b
<1>8. Alike(b, pcb) /\ b[i].used /\ \A j \in 1..PCBS : j # i => b[j] = pcb[j]
  BY <1>2, <1>5 DEF Alike
<1>9. UNCHANGED <<pcb, udp_pcbs>> \/ (pcb' = r.pcb /\ udp_pcbs' = r.list)
  BY <1>6
<1>. QED BY <1>1, <1>5, <1>6, <1>7, <1>8, <1>9, MessageSent

LEMMA SentToKeeps ==
    ASSUME UdpInv, NEW i \in 1..PCBS, NEW length \in LENGTHS, U!espconn_udp_sendto(i, length)
    PROVE  UdpInv'
<1> DEFINE r == U!Ported(i, pcb)
<1>1. pcb[i].espconn /\ pcb[i].used /\ Alike(pcb, pcb) /\ Fits(pcb, udp_pcbs)
  BY OwnIs DEF U!espconn_udp_sendto, UdpInv
<1>2. PICK outcomes \in U!Outcomes(length, U!Sendable(r, i)) :
        /\ tries' = U!Sent(length, outcomes)
        /\ IF outcomes[1] = "mem" THEN UNCHANGED <<pcb, udp_pcbs>> ELSE pcb' = r.pcb /\ udp_pcbs' = r.list
  BY DEF U!espconn_udp_sendto
<1>3. UNCHANGED <<raw_pcbs, dhcp, dhcps>>
  BY DEF U!espconn_udp_sendto
<1>4. UNCHANGED <<pcb, udp_pcbs>> \/ (pcb' = r.pcb /\ udp_pcbs' = r.list)
  BY <1>2
<1>. QED BY <1>1, <1>2, <1>3, <1>4, MessageSent

LEMMA UdpInductive == UdpInv /\ [U!Next]_udpVars => UdpInv'
<1> SUFFICES ASSUME UdpInv, [U!Next]_udpVars PROVE UdpInv'
  OBVIOUS
<1>1. CASE \E d \in U!Datagrams : U!udp_input(d)
  BY <1>1, InputKeeps
<1>2. CASE U!DhcpStop \/ U!dhcps_stop
  BY <1>2, StopKeeps
<1>3. CASE U!AddressChanges
  BY <1>3, Quiet DEF U!AddressChanges, UdpInv
<1>4. ASSUME NEW i \in 1..PCBS, U!User(i) PROVE UdpInv'
  <2>1. CASE U!udp_new(i) \/ U!udp_disconnect(i) \/ U!udp_remove(i) \/ U!espconn_udp_disconnect(i)
    BY <2>1, NewKeeps, DisconnectKeeps, RemoveKeeps
  <2>2. CASE U!udp_sendto(i) \/ U!DhcpStart(i) \/ U!dhcps_start(i)
    BY <2>2, SendKeeps, StartKeeps, ServerStartKeeps
  <2>3. CASE \E ip \in {"any", OWN}, port \in PORTS \cup {0} : U!udp_bind(i, ip, port)
    BY <2>3, BindKeeps
  <2>4. CASE \E ip \in PEERS, port \in PORTS : U!udp_connect(i, ip, port)
    BY <2>4, ConnectKeeps1
  <2>5. CASE \E port \in PORTS : U!espconn_udp_server(i, port)
    BY <2>5, ServerKeeps
  <2>6. CASE \E ip \in PEERS, port \in PORTS, length \in LENGTHS : U!espconn_udp_sent(i, ip, port, length)
    BY <2>6, SentKeeps1
  <2>7. CASE \E length \in LENGTHS : U!espconn_udp_sendto(i, length)
    BY <2>7, SentToKeeps
  <2>. QED BY <1>4, <2>1, <2>2, <2>3, <2>4, <2>5, <2>6, <2>7 DEF U!User, U!ANY
<1>5. CASE (\E i \in 1..PCBS : U!Raw(i)) \/ \E eats \in SUBSET U!Ids : U!raw_input(eats)
  BY <1>5, RawKeeps DEF U!Raw
<1>6. CASE UNCHANGED udpVars
  BY <1>6 DEF udpVars, UdpInv
<1>. QED BY <1>1, <1>2, <1>3, <1>4, <1>5, <1>6 DEF U!Next, U!Netif, U!Ids

-----------------------------------------------------------------------------
LEMMA AtMostOne ==
    ASSUME NEW Z, \A x, y \in Z : x = y
    PROVE  U!Cardinality(Z) <= 1
<1>1. CASE Z = {}
  <2>1. Cardinality(Z) = 0
    BY <1>1, FS_EmptySet
  <2>. QED BY <2>1, CountsAlike
<1>2. CASE Z # {}
  <2>1. PICK x \in Z : TRUE
    BY <1>2
  <2>2. Z = {x}
    BY <2>1
  <2>3. Cardinality(Z) = 1
    BY <2>2, FS_Singleton
  <2>. QED BY <2>3, CountsAlike
<1>. QED BY <1>1, <1>2

LEMMA UdpTypes == UdpInv => U!TypeOK
<1> SUFFICES ASSUME UdpInv PROVE U!TypeOK
  OBVIOUS
<1>1. U!Listed \subseteq U!Ids /\ U!ToSet(raw_pcbs) \subseteq U!Ids
  BY InList DEF UdpInv, Fits, RawFits, U!Listed, U!Ids
<1>2. \A i \in U!Ids : pcb[i].local_port \in U!Ports \cup {0} /\ pcb[i].local_ip \in {"any", OWN}
  BY DEF UdpInv, Fits, UdpBlocks, U!Ids
<1>. QED BY <1>1, <1>2 DEF U!TypeOK, U!ANY, UdpInv, DhcpFits, ToldOf

LEMMA ListsAreWhole == UdpInv => U!ListsWhole
<1> SUFFICES ASSUME UdpInv PROVE U!ListsWhole
  OBVIOUS
<1>1. U!Cardinality(U!ToSet(udp_pcbs)) = Len(udp_pcbs) /\ U!Cardinality(U!ToSet(raw_pcbs)) = Len(raw_pcbs)
  BY AsMany DEF UdpInv, Fits, RawFits
<1>2. \A i \in 1..PCBS : i \in U!ToSet(udp_pcbs) <=> pcb[i].local_port # 0
  BY DEF UdpInv, Fits
<1>. QED BY <1>1, <1>2 DEF U!ListsWhole, U!Listed, U!Ids

LEMMA PortsAreApart == UdpInv => U!PortsApart
<1> SUFFICES ASSUME UdpInv PROVE U!PortsApart
  OBVIOUS
<1>1. \A i, j \in U!Listed : pcb[i].local_port = pcb[j].local_port => i = j
  <2>1. U!Listed \subseteq 1..PCBS
    BY InList DEF UdpInv, Fits, U!Listed
  <2>. QED BY <2>1 DEF UdpInv, Fits, U!Listed
<1>2. ASSUME NEW d \in U!Datagrams PROVE U!Cardinality({i \in U!Listed : U!LocalMatch(i, d)}) <= 1
  <2> DEFINE Z == {i \in U!Listed : U!LocalMatch(i, d)}
  <2>1. \A x, y \in Z : x = y
    BY <1>1 DEF U!LocalMatch
  <2> HIDE DEF Z
  <2>2. U!Cardinality(Z) <= 1
    BY <2>1, AtMostOne
  <2>. QED BY <2>2 DEF Z
<1>. QED BY <1>1, <1>2 DEF U!PortsApart

LEMMA DatagramsReach == UdpInv => U!Reaches
<1> SUFFICES ASSUME UdpInv, NEW d \in U!Datagrams
             PROVE  LET i == U!Receiver(d) IN
                    /\ i # 0 /\ pcb[i].connected => d.sport = pcb[i].remote_port /\ pcb[i].remote_ip \in {"any", d.src}
                    /\ \A j \in U!Listed : U!LocalMatch(j, d) /\ ~pcb[j].connected /\ ~U!Reserved(d) => i # 0
                    /\ U!Reserved(d) => i \in {0, dhcp, dhcps}
  BY DEF U!Reaches, U!ANY
<1> DEFINE i == U!Receiver(d)
<1>1. ASSUME i # 0, pcb[i].connected PROVE d.sport = pcb[i].remote_port /\ pcb[i].remote_ip \in {"any", d.src}
  <2>1. CASE U!Reserved(d)
    <3>1. i = U!DhcpReceiver(d)
      BY <2>1, ReceiverIs
    <3> HIDE DEF i
    <3>2. (i = dhcp /\ d.sport = DHCP_SERVER_PORT) \/ i = dhcps
      BY <1>1, <3>1 DEF U!DhcpReceiver
    <3>. QED BY <1>1, <3>2 DEF UdpInv, DhcpFits, ClientBlock, ServerBlock
  <2>2. CASE ~U!Reserved(d)
    <3>1. U!PeerMatch(i, d)
      BY <1>1, <2>2, ReceiverIs
    <3> HIDE DEF i
    <3>. QED BY <3>1 DEF U!PeerMatch, U!ANY
  <2>. QED BY <2>1, <2>2
<1>2. \A j \in U!Listed : U!LocalMatch(j, d) /\ ~pcb[j].connected /\ ~U!Reserved(d) => i # 0
  BY ReceiverIs
<1>3. U!Reserved(d) => i \in {0, dhcp, dhcps}
  BY ReceiverIs DEF U!DhcpReceiver
<1> HIDE DEF i
<1>. QED BY <1>1, <1>2, <1>3 DEF i

LEMMA ToldAfterTheLast == UdpInv => U!ToldAfterAll
  BY DEF UdpInv, ToldOf, Sizes, U!ToldAfterAll

LEMMA UdpAlone == [MCNext]_mcVars => [U!Next]_udpVars
  BY DEF MCNext, Others, mcVars

\* A control block is in UDP's list, once, as long as it has a port, however the
\* list is reordered while it is walked; no port is given twice; a datagram finds
\* the block it is for, DHCP's two ports being for its client and server alone, and
\* a connected block takes none but its peer's; and the
\* user of espconn who is told that a message was sent has had all of it sent
\* (udp.c, raw.c, espconn_udp.c).  It is the part of DeliverySound that is about
\* UDP, for any number of blocks, any ports and messages of any length.
THEOREM UdpIsSound == MCSpec => [](part = "udp" => U!TypeOK /\ U!UdpSound)
<1>1. MCInit => UdpInv
  BY UdpInitially DEF MCInit
<1>2. UdpInv /\ [MCNext]_mcVars => UdpInv'
  BY UdpAlone, UdpInductive
<1>3. UdpInv => U!TypeOK /\ U!UdpSound
  BY UdpTypes, ListsAreWhole, PortsAreApart, DatagramsReach, ToldAfterTheLast DEF U!UdpSound
<1>. QED BY <1>1, <1>2, <1>3, PTL DEF MCSpec

=============================================================================
