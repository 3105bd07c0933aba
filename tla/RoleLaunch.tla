------------------------------- MODULE RoleLaunch -------------------------------
(***************************************************************************)
(* The launching of the station and soft-AP roles                          *)
(* (beken378/func/joint_up/role_launch.c).  Requests of the application    *)
(* wait in a socket for one timer; its handler starts one at once when no  *)
(* role is being launched, and queues it behind the launch in progress     *)
(* otherwise.  A second timer polls that launch, asks it to cancel, and    *)
(* starts what waits once the status the other threads report allows it.   *)
(*                                                                         *)
(* Both handlers run in the timer thread.  The threads of the supplicant,  *)
(* the access point and the MAC are above it (Reports): they may run       *)
(* between any two of its steps.  The application is below it and runs     *)
(* while it sleeps or waits inside the start of a role.                    *)
(*                                                                         *)
(* Power save (power_save.c) reports into the station's status as well: it *)
(* is PS_SETTING while the MAC library changes its mode, and LAUNCHED when *)
(* the library has, whatever the status was by then.                       *)
(***************************************************************************)
EXTENDS Integers

CONSTANTS
  None,
  Uses   \* the uses of role launch looked at: use.requests[r] are the request types
         \*   the application makes for role r, use.may what else may happen

Role == {"sta", "ap"}
Other(r) == IF r = "sta" THEN "ap" ELSE "sta"

Connect == "connect"   \* LAUNCH_REQ_STA and LAUNCH_REQ_AP
Scan == "scan"         \* LAUNCH_REQ_PURE_STA_SCAN
Delete == "delete"     \* LAUNCH_REQ_DELIF_STA and LAUNCH_REQ_DELIF_AP

(* The application stops the station itself (bk_wlan_stop), enters monitor *)
(* mode, enables DTIM power save; rl_enter_handler's allocation fails.     *)
Extras == {"stop", "monitor", "power save", "lack memory"}

ASSUME RolesAssumption ==
  /\ Uses \subseteq [requests : [Role -> SUBSET {Connect, Scan, Delete}], may : SUBSET Extras]
  /\ \A u \in Uses : Scan \notin u.requests["ap"]
  /\ None \notin {Connect, Scan, Delete}

VARIABLES
  request,           \* request[r]: the request in g_rl_socket
  enter_timer, rl_timer,   \* the one-shot timer is running
  previous,          \* previous[r], following[r]: type of the entity in
  following,         \*   jl_previous_sta/ap and jl_following_sta/ap
  entities,          \* entities allocated and not freed
  pre_entity_type,
  cancel,            \* cancel[r], status[r]: pre_sta/ap_cancel, pre_sta/ap_status
  status,
  g_sta_cache, g_mrole_csa_flag,
  pc,                \* what the timer thread does next
  taken,             \* rl_enter_handler's copy of the socket
  turn, second,      \* the role rl_launch_handler looks at, and whether it is the second
  start,             \* the role being started: request, what follows
  stop_state,        \* bk_wlan_stop_state
  station,           \* what the supplicant and the MAC are doing
  scan,              \* the requests that have a scan outstanding
  disconnects,       \* an SM_DISCONNECT_IND is on its way
  ap_on, switching,  \* the access point beacons; it has a channel switch outstanding
  monitor,           \* bk_wlan_is_monitor_mode()
  app,               \* what the application is inside
  bk_ps_mode,        \* it is not PS_NO_PS_MODE
  ps_setting,        \* the changes of it that the MAC library has not confirmed
  use,               \* the use of Uses that this is
  starved            \* rl_enter_handler found no memory and left requests behind

socket == <<request, enter_timer>>
queue == <<previous, following, entities, pre_entity_type>>
roles == <<cancel, status>>
locals == <<taken, turn, second, start>>
launch == <<pc, locals>>
air == <<station, scan, disconnects, ap_on, switching>>
world == <<air, monitor, app>>
settings == <<bk_ps_mode, ps_setting, use>>
vars == <<socket, rl_timer, queue, roles, g_sta_cache, g_mrole_csa_flag, launch,
          stop_state, world, settings, starved>>

Type == {Connect, Scan, Delete}
StaStatus == {"UNKNOWN", "INITING", "SCANNING", "SCAN_OVER", "CONNECTING",
              "DHCPING", "LAUNCHED", "LAUNCH_FAILED", "PS_SETTING"}
ApStatus == {"UNKNOWN", "UPDATING_BCN", "TRANSMITTED_BCN",
             "TRANSMITTED_BCN+CANCEL", "LAUNCHED"}
Joined == {"joined", "dhcp", "no_ip", "up"}
NoStart == [role |-> "sta", req |-> None, fast |-> FALSE, next |-> "idle"]

FlagsOK ==
  /\ enter_timer \in BOOLEAN /\ rl_timer \in BOOLEAN /\ second \in BOOLEAN
  /\ stop_state \in BOOLEAN /\ disconnects \in BOOLEAN /\ ap_on \in BOOLEAN
  /\ switching \in BOOLEAN /\ monitor \in BOOLEAN /\ starved \in BOOLEAN
  /\ bk_ps_mode \in BOOLEAN

DataOK ==
  /\ request \in [Role -> Type \cup {None}] /\ taken \in [Role -> Type \cup {None}]
  /\ previous \in [Role -> Type \cup {None}] /\ following \in [Role -> Type \cup {None}]
  /\ pre_entity_type \in Role \cup {"idle"} /\ turn \in Role
  /\ cancel \in [Role -> BOOLEAN] /\ status \in [Role -> StaStatus \cup ApStatus]
  /\ status["sta"] \in StaStatus /\ status["ap"] \in ApStatus
  /\ g_sta_cache \in Type \cup {None}
  /\ g_mrole_csa_flag \in {"none", "SWITCHING", "SWITCHED"}
  /\ pc \in {"idle", "enter", "cache", "cancel", "decide", "act", "start",
             "stopping", "init", "scan"}
  /\ start \in [role : Role, req : Type \cup {None}, fast : BOOLEAN,
                next : {"idle", "enter", "cache", "reload"}]
  /\ station \in {"off", "looking", "found", "joining"} \cup Joined
  /\ scan \subseteq {Connect, Scan} /\ ps_setting \subseteq {"open", "close"}
  /\ app \in {"none", "stopping", "to_monitor"}

(* The types, and never more entities than the queue has places. *)
TypeOK == FlagsOK /\ DataOK /\ entities \in 0..4

Init ==
  /\ request = [r \in Role |-> None] /\ taken = [r \in Role |-> None]
  /\ enter_timer = FALSE /\ rl_timer = FALSE
  /\ previous = [r \in Role |-> None] /\ following = [r \in Role |-> None]
  /\ entities = 0 /\ pre_entity_type = "idle"
  /\ cancel = [r \in Role |-> FALSE] /\ status = [r \in Role |-> "UNKNOWN"]
  /\ g_sta_cache = None /\ g_mrole_csa_flag = "none"
  /\ pc = "idle" /\ turn = "sta" /\ second = FALSE
  /\ start = NoStart
  /\ stop_state = FALSE
  /\ station = "off" /\ scan = {} /\ disconnects = FALSE
  /\ ap_on = FALSE /\ switching = FALSE
  /\ monitor = FALSE /\ app = "none" /\ starved = FALSE
  /\ bk_ps_mode = FALSE /\ ps_setting = {}
  /\ use \in Uses
-------------------------------------------------------------------------------
(* The application's calls.                                                *)

(* rl_sta_request_enter and rl_ap_request_enter: the last request wins.    *)
Post(r, req) ==
  /\ request' = [request EXCEPT ![r] = req]
  /\ enter_timer' = TRUE

AppRuns == pc \in {"idle", "start", "stopping", "init"}

Ask(r, req) ==
  /\ AppRuns /\ app = "none" /\ req \in use.requests[r]
  /\ req = Connect => ~monitor
  /\ Post(r, req)
  /\ UNCHANGED <<rl_timer, queue, roles, g_sta_cache, g_mrole_csa_flag, launch,
                 stop_state, world, settings, starved>>

(* bk_wlan_stop(BK_STATION) up to the wait for the supplicant, and the     *)
(* rest: a connection that is dropped is reported later.                   *)
StopsStation ==
  /\ stop_state' = TRUE
  /\ cancel' = [cancel EXCEPT !["sta"] = FALSE]

StationStopped ==
  /\ status' = [status EXCEPT !["sta"] = "LAUNCHED"]
  /\ stop_state' = FALSE
  /\ station' = "off"
  /\ disconnects' = (disconnects \/ station \in {"joining"} \cup Joined)

AppStopsStation ==
  /\ "stop" \in use.may /\ AppRuns /\ app = "none"
  /\ StopsStation /\ app' = "stopping"
  /\ UNCHANGED <<socket, rl_timer, queue, status, g_sta_cache, g_mrole_csa_flag,
                 launch, air, monitor, settings, starved>>

(* bk_wlan_start_monitor resets the channel switch flag at the end.        *)
AppStoppedStation ==
  /\ AppRuns /\ app # "none"
  /\ StationStopped
  /\ app' = "none"
  /\ g_mrole_csa_flag' = IF app = "to_monitor" THEN "none" ELSE g_mrole_csa_flag
  /\ UNCHANGED <<socket, rl_timer, queue, cancel, g_sta_cache, launch, scan, ap_on,
                 switching, monitor, settings, starved>>

(* bk_wlan_stop(BK_SOFT_AP). *)
ApStopped ==
  /\ status' = [status EXCEPT !["ap"] = "LAUNCHED"]
  /\ ap_on' = FALSE

AppStopsAp ==
  /\ AppRuns /\ app = "none" /\ ApStopped
  /\ UNCHANGED <<socket, rl_timer, queue, cancel, g_sta_cache, g_mrole_csa_flag,
                 launch, stop_state, station, scan, disconnects, switching, monitor,
                 app, settings, starved>>

(* bk_wlan_register_monitor_cb, which is all bk_wlan_is_monitor_mode looks *)
(* at, and bk_wlan_start_monitor, which stops both roles.                  *)
AppRegistersMonitor ==
  /\ "monitor" \in use.may /\ AppRuns /\ app = "none" /\ ~monitor
  /\ monitor' = TRUE
  /\ UNCHANGED <<socket, rl_timer, queue, roles, g_sta_cache, g_mrole_csa_flag,
                 launch, stop_state, air, app, settings, starved>>

AppStartsMonitor ==
  /\ "monitor" \in use.may /\ AppRuns /\ app = "none" /\ monitor
  /\ ApStopped /\ StopsStation /\ app' = "to_monitor"
  /\ UNCHANGED <<socket, rl_timer, queue, g_sta_cache, g_mrole_csa_flag, launch,
                 station, scan, disconnects, switching, monitor, settings, starved>>

AppStopsMonitor ==
  /\ AppRuns /\ app = "none" /\ monitor
  /\ monitor' = FALSE
  /\ UNCHANGED <<socket, rl_timer, queue, roles, g_sta_cache, g_mrole_csa_flag,
                 launch, stop_state, air, app, settings, starved>>
-------------------------------------------------------------------------------
(* rl_enter_handler, on the first timer.                                   *)

(* Mutant: the socket is not emptied. *)
EnterFiresKept ==
  /\ pc = "idle" /\ enter_timer
  /\ enter_timer' = FALSE
  /\ pc' = "enter"
  /\ taken' = request /\ request' = request
  /\ starved' = FALSE
  /\ UNCHANGED <<rl_timer, queue, roles, g_sta_cache, g_mrole_csa_flag, turn,
                 second, start, stop_state, world, settings>>

EnterFires ==
  /\ pc = "idle" /\ enter_timer
  /\ enter_timer' = FALSE
  /\ pc' = "enter"
  /\ taken' = request /\ request' = [r \in Role |-> None]
  /\ starved' = FALSE
  /\ UNCHANGED <<rl_timer, queue, roles, g_sta_cache, g_mrole_csa_flag, turn,
                 second, start, stop_state, world, settings>>

EnterNoMemory ==
  /\ "lack memory" \in use.may /\ pc = "idle" /\ enter_timer
  /\ enter_timer' = FALSE /\ starved' = TRUE
  /\ UNCHANGED <<request, rl_timer, queue, roles, g_sta_cache, g_mrole_csa_flag,
                 launch, stop_state, world, settings>>

(* _sta_request_enter, then _ap_request_enter. *)
Entering(r) == pc = "enter" /\ taken[r] # None /\ (r = "ap" => taken["sta"] = None)

FirstType(r) == IF pre_entity_type = "idle" THEN r ELSE pre_entity_type

(* A station's request is remembered once it is started or queued. *)
AfterEntering(r) == IF r = "sta" THEN "cache" ELSE "enter"
Entered(r) == IF r = "sta" THEN taken ELSE [taken EXCEPT !["ap"] = None]

(* rl_pre_sta_init, rl_pre_ap_init: the role's status is forgotten. *)
Forget(r) ==
  /\ cancel' = [cancel EXCEPT ![r] = FALSE]
  /\ status' = [status EXCEPT ![r] = "UNKNOWN"]

(* rl_sta_request_start, rl_ap_request_start: rl_launch_ap has the status  *)
(* forgotten for every request, the direct start for the new role's only.  *)
Starts(r, req, launched, next) ==
  /\ start' = [role |-> r, req |-> req, fast |-> FALSE, next |-> next]
  /\ pc' = "start"
  /\ IF req # Delete \/ (launched /\ r = "ap") THEN Forget(r)
                                               ELSE UNCHANGED <<cancel, status>>

EnterStarts(r) ==
  /\ Entering(r) /\ \A s \in Role : previous[s] = None
  /\ previous' = [previous EXCEPT ![r] = taken[r]] /\ entities' = entities + 1
  /\ pre_entity_type' = FirstType(r)
  /\ Starts(r, taken[r], FALSE, AfterEntering(r))
  /\ taken' = Entered(r)
  /\ UNCHANGED <<socket, rl_timer, following, g_sta_cache, g_mrole_csa_flag, turn,
                 second, stop_state, world, settings, starved>>

(* Mutant: the poll is not started for a queued request. *)
EnterQueuesQuietly(r) ==
  /\ Entering(r) /\ following[r] = None /\ \E s \in Role : previous[s] # None
  /\ following' = [following EXCEPT ![r] = taken[r]] /\ entities' = entities + 1
  /\ pre_entity_type' = FirstType(r)
  /\ pc' = AfterEntering(r) /\ taken' = Entered(r)
  /\ UNCHANGED <<socket, rl_timer, previous, roles, g_sta_cache, g_mrole_csa_flag,
                 turn, second, start, stop_state, world, settings, starved>>

EnterQueues(r) ==
  /\ Entering(r) /\ following[r] = None /\ \E s \in Role : previous[s] # None
  /\ following' = [following EXCEPT ![r] = taken[r]] /\ entities' = entities + 1
  /\ rl_timer' = TRUE
  /\ pre_entity_type' = FirstType(r)
  /\ pc' = AfterEntering(r) /\ taken' = Entered(r)
  /\ UNCHANGED <<socket, previous, roles, g_sta_cache, g_mrole_csa_flag, turn,
                 second, start, stop_state, world, settings, starved>>

(* "cmd queue fill": the request is dropped. *)
EnterDrops(r) ==
  /\ Entering(r) /\ following[r] # None /\ \E s \in Role : previous[s] # None
  /\ rl_timer' = TRUE
  /\ taken' = [taken EXCEPT ![r] = None]
  /\ UNCHANGED <<socket, queue, roles, g_sta_cache, g_mrole_csa_flag, pc, turn,
                 second, start, stop_state, world, settings, starved>>

EnterCaches ==
  /\ pc = "cache"
  /\ g_sta_cache' = taken["sta"]
  /\ taken' = [taken EXCEPT !["sta"] = None] /\ pc' = "enter"
  /\ UNCHANGED <<socket, rl_timer, queue, roles, g_mrole_csa_flag, turn, second,
                 start, stop_state, world, settings, starved>>

EnterDone ==
  /\ pc = "enter" /\ \A r \in Role : taken[r] = None
  /\ pc' = "idle"
  /\ UNCHANGED <<socket, rl_timer, queue, roles, g_sta_cache, g_mrole_csa_flag,
                 locals, stop_state, world, settings, starved>>
-------------------------------------------------------------------------------
(* rl_launch_handler, on the second timer.                                 *)

LaunchFires ==
  /\ pc = "idle" /\ rl_timer
  /\ rl_timer' = FALSE
  /\ IF pre_entity_type = "idle" THEN UNCHANGED <<pc, turn>>
                                 ELSE pc' = "cancel" /\ turn' = pre_entity_type
  /\ UNCHANGED <<socket, queue, roles, g_sta_cache, g_mrole_csa_flag, taken, second,
                 start, stop_state, world, settings, starved>>

(* The handler's locals are forgotten when it returns. *)
NoTurn == turn' = "sta" /\ second' = FALSE

(* LAUNCH_STATUS_OVER: the other role has its turn, and after that nothing *)
(* is left to poll.                                                        *)
TurnOver ==
  IF second THEN pc' = "idle" /\ NoTurn /\ UNCHANGED pre_entity_type
            ELSE /\ pc' = "cancel" /\ turn' = Other(turn) /\ second' = TRUE
                 /\ pre_entity_type' = Other(turn)

(* rl_launch_sta, rl_launch_ap with no previous entity. *)
LaunchFollowing ==
  /\ pc = "cancel" /\ previous[turn] = None /\ following[turn] # None
  /\ previous' = [previous EXCEPT ![turn] = following[turn]]
  /\ following' = [following EXCEPT ![turn] = None]
  /\ Starts(turn, following[turn], TRUE, "reload") /\ NoTurn
  /\ UNCHANGED <<socket, rl_timer, entities, pre_entity_type, g_sta_cache,
                 g_mrole_csa_flag, taken, stop_state, world, settings, starved>>

LaunchNothing ==
  /\ pc = "cancel" /\ previous[turn] = None /\ following[turn] = None
  /\ TurnOver
  /\ UNCHANGED <<socket, rl_timer, previous, following, entities, roles,
                 g_sta_cache, g_mrole_csa_flag, taken, start, stop_state, world,
                 settings, starved>>

(* The launch in progress is cancelled when another one waits. *)
LaunchCancels ==
  /\ pc = "cancel" /\ previous[turn] # None
  /\ cancel' = [cancel EXCEPT ![turn] = @ \/ following[turn] # None]
  /\ pc' = "decide"
  /\ UNCHANGED <<socket, rl_timer, queue, status, g_sta_cache, g_mrole_csa_flag,
                 locals, stop_state, world, settings, starved>>

rl_sta_may_next_launch ==
  /\ g_mrole_csa_flag # "SWITCHING"
  /\ \/ g_mrole_csa_flag = "SWITCHED"
     \/ cancel["sta"] /\ status["sta"] \in {"INITING", "SCAN_OVER", "CONNECTING", "DHCPING"}
     \/ status["sta"] \in {"LAUNCHED", "LAUNCH_FAILED"}

rl_ap_may_next_launch(pre_cancel) ==
  pre_cancel => /\ status["ap"] \in {"TRANSMITTED_BCN+CANCEL", "LAUNCHED"}
                /\ g_mrole_csa_flag # "SWITCHING"

rl_may_next_launch == IF turn = "sta" THEN rl_sta_may_next_launch
                                     ELSE rl_ap_may_next_launch(following["ap"] # None)

LaunchDecides ==
  /\ pc = "decide" /\ rl_may_next_launch
  /\ pc' = "act"
  /\ UNCHANGED <<socket, rl_timer, queue, roles, g_sta_cache, g_mrole_csa_flag,
                 locals, stop_state, world, settings, starved>>

(* Or the launch goes on, and the timer is reloaded (rl_relaunch_chance). *)
LaunchContinues ==
  /\ pc = "decide" /\ ~rl_may_next_launch
  /\ rl_timer' = TRUE
  /\ pc' = "idle" /\ NoTurn
  /\ UNCHANGED <<socket, queue, roles, g_sta_cache, g_mrole_csa_flag, taken, start,
                 stop_state, world, settings, starved>>

(* Mutant: the following entity stays queued as well. *)
LaunchNextKept ==
  /\ pc = "act" /\ following[turn] # None
  /\ previous' = [previous EXCEPT ![turn] = following[turn]]
  /\ entities' = entities - 1
  /\ Starts(turn, following[turn], TRUE, "reload") /\ NoTurn
  /\ UNCHANGED <<socket, rl_timer, following, pre_entity_type, g_sta_cache,
                 g_mrole_csa_flag, taken, stop_state, world, settings, starved>>

(* The previous entity is freed and the following one takes its place. *)
LaunchNext ==
  /\ pc = "act" /\ following[turn] # None
  /\ previous' = [previous EXCEPT ![turn] = following[turn]]
  /\ following' = [following EXCEPT ![turn] = None]
  /\ entities' = entities - 1
  /\ Starts(turn, following[turn], TRUE, "reload") /\ NoTurn
  /\ UNCHANGED <<socket, rl_timer, pre_entity_type, g_sta_cache, g_mrole_csa_flag,
                 taken, stop_state, world, settings, starved>>

(* Mutant: the previous entity is not freed. *)
LaunchOverLeaks ==
  /\ pc = "act" /\ following[turn] = None
  /\ previous' = [previous EXCEPT ![turn] = None] /\ entities' = entities
  /\ TurnOver
  /\ UNCHANGED <<socket, rl_timer, following, roles, g_sta_cache, g_mrole_csa_flag,
                 taken, start, stop_state, world, settings, starved>>

LaunchOver ==
  /\ pc = "act" /\ following[turn] = None
  /\ previous' = [previous EXCEPT ![turn] = None] /\ entities' = entities - 1
  /\ TurnOver
  /\ UNCHANGED <<socket, rl_timer, following, roles, g_sta_cache, g_mrole_csa_flag,
                 taken, start, stop_state, world, settings, starved>>
-------------------------------------------------------------------------------
(* The start of a role.                                                    *)

SetSta(v) == status' = [status EXCEPT !["sta"] = v]

(* rw_msg_send_scanu_req: refused, the status says the scan is over.       *)
RequestsScan(req) ==
  IF status["sta"] \in {"INITING", "SCAN_OVER"} /\ ~cancel["sta"]
  THEN SetSta("SCANNING") /\ scan' = scan \cup {req}
  ELSE SetSta("SCAN_OVER") /\ UNCHANGED scan

Starting(r, req) == pc = "start" /\ start.role = r /\ start.req = req

(* After a launch of rl_launch_handler, rl_relaunch_chance reloads the timer. *)
Started ==
  /\ start' = NoStart
  /\ pc' = IF start.next = "reload" THEN "idle" ELSE start.next
  /\ rl_timer' = (rl_timer \/ start.next = "reload")

(* bk_wlan_start_sta_adv returns at once in monitor mode and leaves the    *)
(* status forgotten; bk_wlan_start_sta does not look.                      *)
StartSta ==
  /\ Starting("sta", Connect)
  /\ \E fast \in BOOLEAN :
       IF fast /\ monitor
       THEN Started /\ UNCHANGED <<stop_state, cancel>>
       ELSE /\ StopsStation
            /\ start' = [start EXCEPT !.fast = fast] /\ pc' = "stopping"
            /\ UNCHANGED rl_timer
  /\ UNCHANGED <<socket, queue, status, g_sta_cache, g_mrole_csa_flag, taken, turn,
                 second, world, settings, starved>>

StartDeleteSta ==
  /\ Starting("sta", Delete)
  /\ StopsStation /\ pc' = "stopping"
  /\ UNCHANGED <<socket, rl_timer, queue, status, g_sta_cache, g_mrole_csa_flag,
                 locals, world, settings, starved>>

StartStopped ==
  /\ pc = "stopping"
  /\ StationStopped
  /\ IF start.req = Connect THEN pc' = "init" /\ UNCHANGED <<start, rl_timer>> ELSE Started
  /\ UNCHANGED <<socket, queue, cancel, g_sta_cache, g_mrole_csa_flag, taken, turn,
                 second, scan, ap_on, switching, monitor, app, settings, starved>>

(* bk_wlan_sta_init resets the channel switch flag, bk_wlan_start_sta_adv  *)
(* does not.                                                               *)
StartInits ==
  /\ pc = "init"
  /\ g_mrole_csa_flag' = IF start.fast THEN g_mrole_csa_flag ELSE "none"
  /\ status' = [status EXCEPT !["sta"] = "INITING"]
  /\ station' = "looking"
  /\ Started
  /\ UNCHANGED <<socket, queue, cancel, g_sta_cache, taken, turn, second,
                 stop_state, scan, disconnects, ap_on, switching, monitor, app,
                 settings, starved>>

(* bk_wlan_start_scan. *)
StartScan ==
  /\ Starting("sta", Scan)
  /\ IF monitor
     THEN SetSta("LAUNCH_FAILED") /\ Started /\ UNCHANGED g_mrole_csa_flag
     ELSE /\ g_mrole_csa_flag' = "none" /\ SetSta("INITING")
          /\ pc' = "scan" /\ UNCHANGED <<start, rl_timer>>
  /\ UNCHANGED <<socket, queue, cancel, g_sta_cache, taken, turn, second, stop_state,
                 world, settings, starved>>

StartScans ==
  /\ pc = "scan"
  /\ RequestsScan(Scan)
  /\ Started
  /\ UNCHANGED <<socket, queue, cancel, g_sta_cache, g_mrole_csa_flag, taken, turn, second,
                 stop_state, station, disconnects, ap_on, switching, monitor, app, settings,
                 starved>>

(* bk_wlan_start_ap: the role is stopped, and hostapd starts or fails.  Its *)
(* waits are left out: the statuses it passes through (LAUNCHED by the     *)
(* stop) matter to role launch only in the timer thread, which is in it.   *)
StartAp ==
  /\ Starting("ap", Connect)
  /\ g_mrole_csa_flag' = "none"
  /\ ap_on' \in BOOLEAN
  /\ status' = [status EXCEPT !["ap"] = IF ap_on' THEN "UPDATING_BCN" ELSE "LAUNCHED"]
  /\ Started
  /\ UNCHANGED <<socket, queue, cancel, g_sta_cache, taken, turn, second,
                 stop_state, station, scan, disconnects, switching, monitor, app,
                 settings, starved>>

StartDeleteAp ==
  /\ Starting("ap", Delete)
  /\ ApStopped
  /\ Started
  /\ UNCHANGED <<socket, queue, cancel, g_sta_cache, g_mrole_csa_flag, taken, turn,
                 second, stop_state, station, scan, disconnects, switching, monitor,
                 app, settings, starved>>
-------------------------------------------------------------------------------
(* What the other threads report.                                          *)

(* A scan of the supplicant. *)
ScanStarts ==
  /\ station = "looking" /\ Connect \notin scan
  /\ RequestsScan(Connect)
  /\ UNCHANGED <<socket, rl_timer, cancel, g_sta_cache, g_mrole_csa_flag, queue, launch,
                 stop_state, monitor, app, settings, starved, station, disconnects, ap_on,
                 switching>>

(* SCANU_START_CFM: the callback of the application's scan ends its launch,*)
(* the supplicant's finds an access point or looks again.                  *)
ScanEnds(req) ==
  /\ req \in scan
  /\ scan' = scan \ {req}
  /\ SetSta(IF req = Scan THEN "LAUNCHED" ELSE "SCAN_OVER")
  /\ station' \in IF req = Connect /\ station = "looking" THEN {"looking", "found"}
                                                         ELSE {station}
  /\ UNCHANGED <<socket, rl_timer, cancel, g_sta_cache, g_mrole_csa_flag, queue, launch,
                 stop_state, monitor, app, settings, starved, disconnects, ap_on, switching>>

(* wpa_send_assoc_req: nothing is sent for a cancelled launch. *)
Associates ==
  /\ station = "found"
  /\ SetSta("CONNECTING")
  /\ station' = IF cancel["sta"] THEN "looking" ELSE "joining"
  /\ UNCHANGED <<socket, rl_timer, cancel, g_sta_cache, g_mrole_csa_flag, queue,
                 launch, stop_state, monitor, app, settings, starved, scan,
                 disconnects, ap_on, switching>>

(* Mutant: rl_set_csa_switching does not look for a cancel. *)
SwitchesAnyway ==
  /\ ap_on /\ g_mrole_csa_flag' = "SWITCHING" /\ switching' = TRUE

(* rl_set_csa_switching, when hostapd follows the station's channel. *)
SwitchesChannel ==
  /\ ap_on /\ \A r \in Role : ~cancel[r]
  /\ g_mrole_csa_flag' = "SWITCHING" /\ switching' = TRUE

(* SM_CONNECT_IND: an access point that is on may have to change channel. *)
Joins ==
  /\ station = "joining"
  /\ station' = "joined"
  /\ SwitchesChannel \/ UNCHANGED <<g_mrole_csa_flag, switching>>
  /\ UNCHANGED <<socket, rl_timer, roles, g_sta_cache, queue, launch, stop_state,
                 monitor, app, settings, starved, scan, disconnects, ap_on>>

SwitchEnds ==
  /\ switching
  /\ switching' = FALSE /\ g_mrole_csa_flag' = "SWITCHED"
  /\ UNCHANGED <<socket, rl_timer, roles, g_sta_cache, queue, launch, stop_state,
                 monitor, app, settings, starved, station, scan, disconnects, ap_on>>

(* dhcp_start: nothing is sent for a cancelled launch. *)
DhcpStarts ==
  /\ station = "joined"
  /\ SetSta("DHCPING")
  /\ station' = IF cancel["sta"] THEN "no_ip" ELSE "dhcp"
  /\ UNCHANGED <<socket, rl_timer, cancel, g_sta_cache, g_mrole_csa_flag, queue,
                 launch, stop_state, monitor, app, settings, starved, scan,
                 disconnects, ap_on, switching>>

DhcpBound ==
  /\ station = "dhcp"
  /\ station' = "up" /\ SetSta("LAUNCHED")
  /\ UNCHANGED <<socket, rl_timer, cancel, g_sta_cache, g_mrole_csa_flag, queue,
                 launch, stop_state, monitor, app, settings, starved, scan,
                 disconnects, ap_on, switching>>

LinkLost ==
  /\ station \in Joined
  /\ station' = "looking" /\ disconnects' = TRUE
  /\ UNCHANGED <<socket, rl_timer, roles, g_sta_cache, g_mrole_csa_flag, queue,
                 launch, stop_state, monitor, app, settings, starved, scan, ap_on,
                 switching>>

(* rl_sta_cache_request_enter *)
PostCached ==
  /\ IF g_sta_cache # None /\ ~monitor THEN Post("sta", g_sta_cache)
                                       ELSE UNCHANGED <<request, enter_timer>>
  /\ g_sta_cache' = None

(* bk_wlan_stop(BK_SOFT_AP) sets bk_wlan_stop_state until it returns, too; *)
(* its caller may be the application or the start of the access point.     *)
MayStopAp == app = "none" \/ (pc = "start" /\ start.role = "ap")

(* mhdr_disconnect_ind: the last request is made again when no launch is   *)
(* queued, when the connection was lost, or from the first scan on, but    *)
(* not while a role is being stopped.                                      *)
Disconnected ==
  \/ ~stop_state /\ PostCached
  \/ /\ \/ stop_state \/ MayStopAp
        \/ /\ previous["sta"] # None \/ following["sta"] # None
           /\ status["sta"] \in {"UNKNOWN", "INITING"}
     /\ UNCHANGED <<request, enter_timer, g_sta_cache>>

(* SM_CONNECT_IND of a failure, and SM_DISCONNECT_IND *)
JoinFails ==
  /\ station = "joining"
  /\ station' = "looking"
  /\ Disconnected
  /\ UNCHANGED <<rl_timer, roles, g_mrole_csa_flag, queue, launch, stop_state,
                 monitor, app, settings, starved, scan, disconnects, ap_on, switching>>

DisconnectInd ==
  /\ disconnects
  /\ disconnects' = FALSE
  /\ Disconnected /\ SetSta("LAUNCH_FAILED")
  /\ UNCHANGED <<rl_timer, cancel, g_mrole_csa_flag, queue, launch, stop_state,
                 monitor, app, settings, starved, station, scan, ap_on, switching>>

(* hapd_intf_set_ap_bcn, and the beacon of the MAC library: it reports     *)
(* TRANSMITTED_BCN, or ends a cancelled launch as launched.                *)
BeaconUpdated ==
  /\ ap_on
  /\ status' = [status EXCEPT !["ap"] = "UPDATING_BCN"]
  /\ UNCHANGED <<socket, rl_timer, cancel, g_sta_cache, g_mrole_csa_flag, queue,
                 launch, stop_state, world, settings, starved>>

Beacons ==
  /\ ap_on
  /\ \E v \in IF cancel["ap"] THEN {"TRANSMITTED_BCN+CANCEL", "LAUNCHED"}
                              ELSE {"TRANSMITTED_BCN"} :
       status' = [status EXCEPT !["ap"] = v]
  /\ UNCHANGED <<socket, rl_timer, cancel, g_sta_cache, g_mrole_csa_flag, queue,
                 launch, stop_state, world, settings, starved>>

(* power_save_dtim_enable: the station is the only role and has an address.*)
PowerSaveOpens ==
  /\ "power save" \in use.may /\ station = "up" /\ ~stop_state /\ ~ap_on
  /\ ~bk_ps_mode /\ "open" \notin ps_setting
  /\ bk_ps_mode' = TRUE /\ ps_setting' = ps_setting \cup {"open"}
  /\ SetSta("PS_SETTING")
  /\ UNCHANGED <<socket, rl_timer, cancel, g_sta_cache, g_mrole_csa_flag, queue, launch,
                 stop_state, world, use, starved>>

(* power_save_dtim_disable: also when the station's connection is gone.    *)
PowerSaveCloses ==
  /\ bk_ps_mode /\ station # "off"
  /\ ps_setting' = ps_setting \cup {"close"}
  /\ SetSta("PS_SETTING")
  /\ UNCHANGED <<socket, rl_timer, cancel, g_sta_cache, g_mrole_csa_flag, queue, launch,
                 stop_state, world, bk_ps_mode, use, starved>>

(* Mutant: the mode is confirmed, but the status is not set. *)
PowerSaveSetQuietly ==
  /\ \E change \in ps_setting :
       /\ ps_setting' = ps_setting \ {change}
       /\ bk_ps_mode' = (bk_ps_mode /\ change = "open")
  /\ UNCHANGED <<socket, rl_timer, roles, g_sta_cache, g_mrole_csa_flag, queue, launch,
                 stop_state, world, use, starved>>

(* power_save_dtim_enable_handler and power_save_dtim_disable_handler, for *)
(* the MAC library: the status is set in every mode and after any status.  *)
PowerSaveSet ==
  /\ \E change \in ps_setting :
       /\ ps_setting' = ps_setting \ {change}
       /\ bk_ps_mode' = (bk_ps_mode /\ change = "open")
  /\ SetSta("LAUNCHED")
  /\ UNCHANGED <<socket, rl_timer, cancel, g_sta_cache, g_mrole_csa_flag, queue, launch,
                 stop_state, world, use, starved>>
-------------------------------------------------------------------------------
Application ==
  \/ \E r \in Role, req \in Type : Ask(r, req)
  \/ AppStopsStation \/ AppStoppedStation \/ AppStopsAp
  \/ AppRegistersMonitor \/ AppStartsMonitor \/ AppStopsMonitor

TimerThread ==
  \/ EnterFires \/ EnterNoMemory \/ EnterCaches \/ EnterDone
  \/ \E r \in Role : EnterStarts(r) \/ EnterQueues(r) \/ EnterDrops(r)
  \/ LaunchFires \/ LaunchFollowing \/ LaunchNothing \/ LaunchCancels
  \/ LaunchDecides \/ LaunchNext \/ LaunchOver \/ LaunchContinues
  \/ StartSta \/ StartDeleteSta \/ StartStopped \/ StartInits \/ StartScan \/ StartScans
  \/ StartAp \/ StartDeleteAp

Reports ==
  \/ ScanStarts \/ (\E req \in {Connect, Scan} : ScanEnds(req)) \/ Associates \/ Joins
  \/ JoinFails \/ SwitchEnds \/ DhcpStarts \/ DhcpBound \/ LinkLost \/ DisconnectInd
  \/ BeaconUpdated \/ Beacons \/ PowerSaveOpens \/ PowerSaveCloses \/ PowerSaveSet

Next == Application \/ TimerThread \/ Reports

Spec == Init /\ [][Next]_vars

(* The timers fire and the timer thread runs; a scan and a channel switch  *)
(* end, an access point beacons, the MAC library confirms a change of the  *)
(* power-save mode, and a call of the application returns.  Each subscript *)
(* is a part of the state that every step of its action changes.           *)
FairSpec ==
  /\ Spec /\ WF_<<enter_timer, rl_timer, launch>>(TimerThread) /\ SF_rl_timer(LaunchFires)
  /\ \A req \in {Connect, Scan} : WF_scan(ScanEnds(req))
  /\ WF_switching(SwitchEnds) /\ WF_status(Beacons) /\ WF_ps_setting(PowerSaveSet)
  /\ WF_app(AppStoppedStation)
-------------------------------------------------------------------------------
(* Entities are neither lost nor freed while a launch still uses them: as  *)
(* many are allocated as the four places of the queue hold.                *)
EntitiesConserved == entities = (IF previous["sta"] # None THEN 1 ELSE 0)
                              + (IF previous["ap"] # None THEN 1 ELSE 0)
                              + (IF following["sta"] # None THEN 1 ELSE 0)
                              + (IF following["ap"] # None THEN 1 ELSE 0)

(* A queued request is never forgotten: while one waits behind a launch,   *)
(* the poll is running, or the handler is and will start it again.         *)
QueuedIsPolled ==
  (\E r \in Role : following[r] # None) => rl_timer \/ pc # "idle"

(* A request in the socket is never forgotten, unless the handler found no *)
(* memory to fetch it.                                                     *)
PostedIsScheduled ==
  (\E r \in Role : request[r] # None) => enter_timer \/ starved

(* A launch is not replaced by another of its role while the access point  *)
(* moves to the station's channel: the cancel that precedes the decision   *)
(* keeps a switch from starting after it.  bk_wlan_stop(BK_STATION) clears *)
(* a cancel: that its callers run below the timer thread is assumed here.  *)
Replaced(r) == previous[r] # None /\ following[r] # None /\ following'[r] = None
NoSwapDuringSwitch ==
  [][g_mrole_csa_flag = "SWITCHING" => \A r \in Role : ~Replaced(r)]_vars

(* A station request queued behind a launch is started: the launch it      *)
(* waits for ends by itself or lets the cancel end it, and a change of the *)
(* power-save mode only holds it up.  Not so if a connection was started   *)
(* in monitor mode: bk_wlan_start_sta_adv may refuse it and leave a status *)
(* that neither ends the launch nor lets a cancel end it; nor if the mode  *)
(* is changed again and again, so that every poll finds PS_SETTING.        *)
PowerSaveChanges == PowerSaveOpens \/ PowerSaveCloses
StaFollowingStarts ==
  /\ [](pc = "start" /\ start.req = Connect => ~monitor)
  /\ <>[][~PowerSaveChanges]_<<settings, status>>
  => (following["sta"] # None ~> following["sta"] = None)
===============================================================================
