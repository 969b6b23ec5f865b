----------------------------- MODULE Webserver ------------------------------
(***************************************************************************)
(* The web server of examples/IoT_Demo (user_webserver.c): requests over    *)
(* several connections share one set of variables.  A wifi configuration    *)
(* waits 10 ms in sta_conf and ap_conf for restart_10ms_cb; a firmware      *)
(* upload holds upgrade_lock and takes every segment, whoever sends it; the *)
(* access points a scan found are read in pages, entry by entry.  Requests  *)
(* come whole (a split one is refused); what they only read is left out.    *)
(***************************************************************************)
EXTENDS Integers

CONSTANTS
    PIECES,    \* segments of the longest image
    SEGMENTS,  \* bound: segments of uploads between two starts of the device
    FOUND,     \* access points that a scan finds: one of these
    PAGE       \* access points on one page: 8

WebserverAssumption == PIECES \in Nat \ {0} /\ SEGMENTS \in Nat /\ FOUND \subseteq Nat /\ PAGE \in Nat \ {0}

VARIABLES
    conf,    \* sta_conf, ap_conf, rstparm, restart_10ms
    upload,  \* upgrade_lock, the upgrade's flag, its timers and its lengths
    scan,    \* pscaninfo, the list of access points, the scan under way
    read,    \* history: the configuration was read after it was posted
    image,   \* history: the segments counted in totallength
    shown    \* history: the pages answered since the list came

webserverVars == <<conf, upload, scan, read, image, shown>>

NULL == "NULL"
NoConf == [sta_conf |-> NULL, ap_conf |-> NULL, rstparm |-> NULL, restart_10ms |-> FALSE]
NoUpload ==
    [upgrade_lock |-> 0, flag |-> "IDLE", upgrade_check_timer |-> "off", app_upgrade_10s |-> FALSE,
     totallength |-> 0, sumlength |-> 0]
NoImage == [segments |-> 0, pieces |-> 0, of |-> 0, mixed |-> FALSE, result |-> "none"]
NoScan ==
    [pscaninfo |-> FALSE, under_way |-> FALSE, bss_head |-> FALSE, scannum |-> 0, totalpage |-> 0,
     page_sn |-> 0, data_cnt |-> 0, bss |-> 0]
NotShown == [page |-> 0, first |-> 0, jumped |-> FALSE, finished |-> FALSE]
Init ==
    /\ conf = NoConf /\ upload = NoUpload /\ scan = NoScan
    /\ read = FALSE /\ image = NoImage /\ shown = NotShown
system_restart ==
    /\ conf' = NoConf /\ upload' = NoUpload /\ scan' = NoScan
    /\ read' = FALSE /\ image' = NoImage /\ shown' = NotShown

\* webserver_recv serves requests only while no upload holds the lock.
Serving == upload.upgrade_lock = 0

-----------------------------------------------------------------------------
\* GET config/wifi.
GetWifi ==
    /\ Serving
    /\ conf' = [conf EXCEPT !.sta_conf = NULL, !.ap_conf = NULL]
    /\ read' = TRUE
    /\ UNCHANGED <<upload, image, scan, shown>>

\* POST config/wifi: a station to join, a softap to be, both or neither, in
\* addition to what still waits.  Mutant: with neither, the timer stays.
Given(c, ssid) == IF ssid THEN "ssid" ELSE IF c = NULL THEN "blank" ELSE c
PostWifi_Armed(station, softap) ==
    /\ Serving
    /\ LET sta == Given(conf.sta_conf, station)
           ap == Given(conf.ap_conf, softap)
       IN conf' = IF station \/ softap
                  THEN [sta_conf |-> sta, ap_conf |-> ap, rstparm |-> "WIFI", restart_10ms |-> TRUE]
                  ELSE [conf EXCEPT !.sta_conf = NULL, !.ap_conf = NULL]
    /\ read' = FALSE
    /\ UNCHANGED <<upload, image, scan, shown>>
PostWifi(station, softap) ==
    /\ Serving
    /\ LET sta == Given(conf.sta_conf, station)
           ap == Given(conf.ap_conf, softap)
       IN conf' = IF "ssid" \in {sta, ap}
                  THEN [sta_conf |-> sta, ap_conf |-> ap, rstparm |-> "WIFI", restart_10ms |-> TRUE]
                  ELSE NoConf
    /\ read' = FALSE
    /\ UNCHANGED <<upload, image, scan, shown>>

\* POST config/reboot: it takes the timer, and what it waited for.
PostReboot ==
    /\ Serving
    /\ conf' = [conf EXCEPT !.rstparm = "REBOOT", !.restart_10ms = TRUE]
    /\ UNCHANGED <<upload, image, scan, read, shown>>

\* restart_10ms_cb.  Without a configuration it is an exception, and the
\* device starts again; a softap's is followed by a restart.  A REBOOT waits
\* for its connection to close and then only leaves the softap.
Present == NULL \notin {conf.sta_conf, conf.ap_conf}
restart_10ms_cb ==
    /\ conf.restart_10ms
    /\ \/ conf.rstparm = "WIFI" /\ (Present => conf.ap_conf = "ssid") /\ system_restart
       \/ /\ conf.rstparm = "WIFI" /\ Present /\ conf.ap_conf # "ssid"
          /\ conf' = NoConf
          /\ UNCHANGED <<upload, image, scan, read, shown>>
       \/ /\ conf.rstparm = "REBOOT"
          /\ \E closed \in BOOLEAN : conf' = [conf EXCEPT !.restart_10ms = ~closed]
          /\ UNCHANGED <<upload, image, scan, read, shown>>

-----------------------------------------------------------------------------
\* POST upgrade/start.
Start ==
    /\ Serving
    /\ upload' = [upload EXCEPT !.upgrade_lock = 1, !.flag = "START", !.upgrade_check_timer = "120s"]
    /\ image' = [image EXCEPT !.result = "none"]
    /\ UNCHANGED <<conf, scan, read, shown>>

\* upgrade_check_func: the end of an upload, or of the wait for it.
upgrade_check_func(u) ==
    [u EXCEPT !.upgrade_check_timer = "off",
              !.flag = IF @ = "START" THEN "IDLE" ELSE @,
              !.upgrade_lock = IF u.flag \in {"START", "FINISH"} THEN 0 ELSE @]
upgrade_check_timer ==
    /\ upload.upgrade_check_timer # "off"
    /\ upload' = upgrade_check_func(upload)
    /\ image' = [image EXCEPT !.mixed = upload.totallength > 0]
    /\ UNCHANGED <<conf, scan, read, shown>>
local_upgrade_deinit ==
    /\ upload.app_upgrade_10s
    /\ upload' = [upload EXCEPT !.app_upgrade_10s = FALSE]
    /\ UNCHANGED <<conf, image, scan, read, shown>>

\* local_upgrade_download: every segment is written and counted; the lengths
\* outlive an upload that was broken off.  Mutant: done a segment early.
Counted_Early(u) ==
    LET v == [u EXCEPT !.totallength = @ + 1] IN
    IF v.totallength + 1 = u.sumlength
    THEN upgrade_check_func([v EXCEPT !.flag = "FINISH", !.totallength = 0, !.sumlength = 0,
                                      !.app_upgrade_10s = TRUE])
    ELSE v
Counted(u) ==
    LET v == [u EXCEPT !.totallength = @ + 1] IN
    IF v.totallength = u.sumlength
    THEN upgrade_check_func([v EXCEPT !.flag = "FINISH", !.totallength = 0, !.sumlength = 0,
                                      !.app_upgrade_10s = TRUE])
    ELSE v
Ended(i) ==
    IF upload'.flag # "FINISH" THEN i
    ELSE [NoImage EXCEPT !.segments = i.segments,
            !.result = IF i.mixed THEN "mixed" ELSE IF i.pieces = i.of THEN "whole" ELSE "broken"]

\* A segment that begins with a request and its Content-Length: an image's
\* first piece, unless something is already counted.
Head(pieces) ==
    IF upload.totallength > 0
    THEN /\ upload' = Counted(upload)
         /\ image' = Ended([image EXCEPT !.segments = @ + 1, !.mixed = TRUE])
    ELSE IF pieces = 0
    THEN /\ upload' = [upload EXCEPT !.sumlength = 0, !.upgrade_check_timer = "10ms"]
         /\ image' = [image EXCEPT !.segments = @ + 1]
    ELSE /\ upload' = Counted([upload EXCEPT !.sumlength = pieces])
         /\ image' = Ended([segments |-> image.segments + 1, pieces |-> 1, of |-> pieces,
                            mixed |-> FALSE, result |-> "none"])
\* The image's next piece, or a segment of another connection.
NextPiece ==
    /\ image.pieces \in 1..(image.of - 1)
    /\ upload' = Counted(upload)
    /\ image' = Ended([image EXCEPT !.segments = @ + 1, !.pieces = @ + 1])
Foreign ==
    /\ upload' = Counted(upload)
    /\ image' = Ended([image EXCEPT !.segments = @ + 1, !.mixed = TRUE])
local_upgrade_download ==
    /\ ~Serving /\ image.segments < SEGMENTS
    /\ (\E pieces \in 0..PIECES : Head(pieces)) \/ NextPiece \/ Foreign
    /\ UNCHANGED <<conf, scan, read, shown>>

\* POST upgrade/reset.
system_upgrade_reboot == Serving /\ system_restart

-----------------------------------------------------------------------------
\* GET client/scan.
Scan ==
    /\ Serving
    /\ scan' = [scan EXCEPT !.pscaninfo = TRUE, !.under_way = TRUE, !.page_sn = 0, !.data_cnt = 0]
    /\ shown' = [shown EXCEPT !.jumped = TRUE]
    /\ UNCHANGED <<conf, upload, read, image>>
\* json_scan_cb, which needs pscaninfo.
json_scan_cb(found) ==
    /\ scan.under_way
    /\ \/ ~scan.pscaninfo /\ system_restart
       \/ /\ scan.pscaninfo
          /\ scan' = [scan EXCEPT !.under_way = FALSE, !.bss_head = found > 0, !.scannum = found,
                                  !.totalpage = (found + PAGE - 1) \div PAGE, !.bss = 0]
          /\ shown' = [NotShown EXCEPT !.jumped = scan.data_cnt > 0]
          /\ UNCHANGED <<conf, upload, read, image>>

\* GET client/scan with a page (json_send): the entries that follow those
\* shown last, as many as the page has.
OnPage(k) == IF scan.scannum - (k - 1) * PAGE >= PAGE THEN PAGE ELSE scan.scannum - (k - 1) * PAGE
Page(k) ==
    /\ Serving /\ scan.pscaninfo
    /\ LET next == ~shown.jumped /\ k = shown.page + 1 IN
       CASE ~scan.bss_head ->
              /\ scan' = [scan EXCEPT !.pscaninfo = FALSE]
              /\ UNCHANGED shown
         [] scan.bss_head /\ scan.page_sn = k ->
              /\ scan' = [scan EXCEPT !.page_sn = 0]
              /\ shown' = [shown EXCEPT !.jumped = TRUE]
         [] scan.bss_head /\ scan.page_sn # k /\ scan.data_cnt + OnPage(k) > scan.scannum ->
              /\ scan' = [scan EXCEPT !.page_sn = k]
              /\ shown' = [shown EXCEPT !.jumped = TRUE]
         [] OTHER ->
              /\ scan' = [scan EXCEPT !.page_sn = k, !.data_cnt = @ + OnPage(k),
                                      !.bss = (@ + OnPage(k)) % scan.scannum]
              /\ shown' = [shown EXCEPT !.page = k, !.first = scan.bss + 1, !.jumped = ~next]
    /\ UNCHANGED <<conf, upload, read, image>>
Finish ==
    /\ Serving
    /\ scan' = [scan EXCEPT !.bss_head = FALSE]
    /\ shown' = [shown EXCEPT !.finished = TRUE]
    /\ UNCHANGED <<conf, upload, read, image>>

Next ==
    \/ GetWifi \/ PostReboot \/ restart_10ms_cb
    \/ \E station, softap \in BOOLEAN : PostWifi(station, softap)
    \/ Start \/ upgrade_check_timer \/ local_upgrade_deinit \/ local_upgrade_download \/ system_upgrade_reboot
    \/ Scan \/ Finish
    \/ \E found \in FOUND : json_scan_cb(found)
    \/ \E k \in 1..scan.totalpage : Page(k)
Spec == Init /\ [][Next]_webserverVars
-----------------------------------------------------------------------------
\* The fields' types.
TypeOK ==
    /\ {conf.sta_conf, conf.ap_conf} \subseteq {NULL, "blank", "ssid"} /\ conf.rstparm \in {NULL, "WIFI", "REBOOT"}
    /\ upload.upgrade_lock \in {0, 1} /\ upload.flag \in {"IDLE", "START", "FINISH"}
    /\ upload.upgrade_check_timer \in {"off", "10ms", "120s"} /\ upload.totallength \in 0..SEGMENTS
    /\ upload.sumlength \in 0..PIECES /\ scan.data_cnt \in Nat /\ scan.bss \in 0..scan.scannum

\* The timer finds the configuration it was armed for, unless that was read
\* meanwhile.
ConfigurationWaits ==
    conf.restart_10ms /\ conf.rstparm = "WIFI" /\ ~read => Present /\ "ssid" \in {conf.sta_conf, conf.ap_conf}

\* An upload that holds the lock is watched by the timer, and one that ends
\* well has left the whole image in flash, unless other segments were counted
\* with it.
UploadsEnd ==
    /\ upload.upgrade_lock = 1 <=> upload.upgrade_check_timer # "off"
    /\ upload.upgrade_lock = 1 <=> upload.flag = "START"
    /\ image.result # "broken"

\* A scan finds the record it fills, unless the list before it was given back;
\* and pages asked for in turn show their own entries.
PagesInTurn ==
    /\ scan.under_way => scan.pscaninfo \/ shown.finished
    /\ shown.page > 0 /\ ~shown.jumped => shown.first = (shown.page - 1) * PAGE + 1

WebserverSound == ConfigurationWaits /\ UploadsEnd /\ PagesInTurn

=============================================================================
