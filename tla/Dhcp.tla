-------------------------------- MODULE Dhcp --------------------------------
(***************************************************************************)
(* lwIP's DHCP client (core/dhcp.c), as functions of its state: struct dhcp *)
(* with what it sets of the interface.  A handler takes such a record and   *)
(* returns it changed, with the messages it sends in out.  Module           *)
(* DhcpServer has the clients, the network and the server.                  *)
(*                                                                         *)
(* Of a transaction identifier only this is kept: whether it is the         *)
(* client's current one.  The 2^32 of them do not come round while a        *)
(* message is under way.                                                    *)
(*                                                                         *)
(* request_timeout is armed or not: how long it runs does not matter when   *)
(* messages may take any time.  A coarse tick is a minute.                  *)
(***************************************************************************)
EXTENDS Integers, Sequences, FiniteSets, SequencesExt, FiniteSetsExt

CONSTANTS
    REQUEST_TRIES,  \* REQUESTs before a new DISCOVER: 6
    REBIND_TRIES,   \* REQUESTs to rebind before a new DISCOVER: 9
    REBOOT_TRIES,   \* REQUESTs with the old address before a DISCOVER
    DHCP_MAXRTX     \* tries after which the client gives up; 0: it does not

ANY == 0
Most == Max({REQUEST_TRIES, REBIND_TRIES, REBOOT_TRIES, DHCP_MAXRTX, 2})

\* dhcp_start: everything is zero.  drawn is set when a new xid was drawn.
dhcp_cleared ==
    [state |-> "OFF", tries |-> 0, armed |-> FALSE, t1 |-> 0, t2 |-> 0, renew |-> 0, rebind |-> 0,
     drawn |-> FALSE, offered |-> ANY, up |-> FALSE, ip |-> ANY, out |-> <<>>]

dhcp_set_state(n, s) ==
    IF s = n.state THEN n ELSE [n EXCEPT !.state = s, !.tries = 0, !.armed = FALSE]

\* A message of dhcp_create_msg: only a DECLINE and a REQUEST that prolongs
\* a lease have an address in ciaddr.
Message(n, type) ==
    [type |-> type, current |-> TRUE,
     ciaddr |-> IF \/ type = "DECLINE"
                   \/ type = "REQUEST" /\ n.state \in {"RENEWING", "REBINDING"}
                THEN n.ip ELSE ANY,
     requested |-> IF type \in {"REQUEST", "DECLINE"} THEN n.offered ELSE ANY]

\* Messages from before a new xid was drawn.
Outdated(msgs) == [i \in DOMAIN msgs |-> [msgs[i] EXCEPT !.current = FALSE]]

\* What every sender does: a new xid for a first try that is no REQUEST, the
\* message, one more try, and the timer.
Send(n, type) ==
    LET new == type # "REQUEST" /\ n.tries = 0
    IN [n EXCEPT !.drawn = @ \/ new,
                 !.out = Append(IF new THEN Outdated(@) ELSE @, Message(n, type)),
                 !.tries = Min({@ + 1, Most}), !.armed = TRUE]

NoAddress(n) == [n EXCEPT !.up = FALSE, !.ip = ANY]

dhcp_discover(n) == Send(dhcp_set_state([n EXCEPT !.offered = ANY], "SELECTING"), "DISCOVER")
dhcp_select(n) == Send(dhcp_set_state(n, "REQUESTING"), "REQUEST")
dhcp_renew(n) == Send(dhcp_set_state(n, "RENEWING"), "REQUEST")
dhcp_rebind(n) == Send(dhcp_set_state(n, "REBINDING"), "REQUEST")
dhcp_reboot(n) == Send(dhcp_set_state(n, "REBOOTING"), "REQUEST")
dhcp_decline(n) == Send(dhcp_set_state(n, "BACKING_OFF"), "DECLINE")
dhcp_release(n) ==
    LET off == [dhcp_set_state(n, "OFF") EXCEPT !.offered = ANY, !.renew = 0, !.rebind = 0]
    IN NoAddress(Send(off, "RELEASE"))
dhcp_check(n) ==
    [dhcp_set_state(n, "CHECKING") EXCEPT !.tries = Min({@ + 1, Most}), !.armed = TRUE]

\* dhcp_bind: a time of zero counts as one tick, and T1 is off when it is not
\* before T2.
dhcp_bind(n) ==
    LET t1 == Max({n.renew, 1})  t2 == Max({n.rebind, 1})
    IN dhcp_set_state([n EXCEPT !.t1 = IF t1 >= t2 THEN 0 ELSE t1, !.t2 = t2,
                                !.up = TRUE, !.ip = n.offered], "BOUND")

dhcp_handle_nak(n) == dhcp_discover(dhcp_set_state(NoAddress(n), "BACKING_OFF"))
dhcp_handle_offer(n, m) == dhcp_select([n EXCEPT !.offered = m.yiaddr])
\* Without T1 and T2 in the answer they are half the lease, and the lease.
dhcp_handle_ack(n, m) ==
    [n EXCEPT !.renew = (m.lease + 1) \div 2, !.rebind = m.lease, !.offered = m.yiaddr]

\* dhcp_recv, of an answer for this client.  Only the answer to a new
\* request is read; one to a prolongation takes the times that are there.
dhcp_recv(n, m) ==
    IF ~m.current THEN n
    ELSE IF m.type = "ACK" /\ n.state = "REQUESTING" THEN dhcp_check(dhcp_handle_ack(n, m))
    ELSE IF m.type = "ACK" /\ n.state \in {"REBOOTING", "REBINDING", "RENEWING"} THEN dhcp_bind(n)
    ELSE IF m.type = "NAK" /\ n.state \in {"REBOOTING", "REQUESTING", "REBINDING", "RENEWING"}
         THEN dhcp_handle_nak(n)
    ELSE IF m.type = "OFFER" /\ n.state = "SELECTING"
         THEN dhcp_handle_offer([n EXCEPT !.armed = FALSE], m)
    ELSE n

\* dhcp_timeout, called by dhcp_fine_tmr.
dhcp_timeout(n) ==
    CASE n.state \in {"BACKING_OFF", "SELECTING"} -> dhcp_discover(n)
      [] n.state = "REQUESTING" -> IF n.tries < REQUEST_TRIES THEN dhcp_select(n)
                                   ELSE dhcp_discover(dhcp_release(n))
      [] n.state = "CHECKING" -> IF n.tries <= 1 THEN dhcp_check(n) ELSE dhcp_bind(n)
      [] n.state = "RENEWING" -> dhcp_renew(n)
      [] n.state = "REBINDING" -> IF n.tries < REBIND_TRIES THEN dhcp_rebind(n)
                                  ELSE dhcp_discover(dhcp_release(n))
      [] n.state = "REBOOTING" -> IF n.tries < REBOOT_TRIES THEN dhcp_reboot(n) ELSE dhcp_discover(n)
      [] OTHER -> n
GivenUp(n) == DHCP_MAXRTX # 0 /\ n.tries >= DHCP_MAXRTX
dhcp_fine_tmr(n) == dhcp_timeout([n EXCEPT !.armed = FALSE])

\* dhcp_coarse_tmr.  A timer that is off wraps to 65535 minutes, which is as
\* good as off.
Leased(n) == n.state \in {"REQUESTING", "BOUND", "RENEWING"}
dhcp_coarse_tmr(n) ==
    LET late == [n EXCEPT !.t2 = Max({@ - 1, 0})]
        soon == [late EXCEPT !.t1 = Max({@ - 1, 0})]
    IN IF n.t2 = 1 THEN IF Leased(n) THEN dhcp_rebind(late) ELSE late
       ELSE IF n.t1 = 1 THEN IF Leased(n) THEN dhcp_renew(soon) ELSE soon
       ELSE soon

\* dhcp_network_changed, on an interface that comes up again.
dhcp_network_changed(n) ==
    LET again == [n EXCEPT !.tries = 0]
    IN CASE n.state \in {"REBINDING", "RENEWING", "BOUND", "REBOOTING"} ->
              dhcp_reboot([again EXCEPT !.up = FALSE])
         [] n.state = "OFF" -> n
         [] OTHER -> dhcp_discover(again)

\* dhcp_arp_reply: another host has the address.
dhcp_arp_reply(n, addr) ==
    IF n.state = "CHECKING" /\ addr = n.offered THEN dhcp_decline(n) ELSE n

=============================================================================
