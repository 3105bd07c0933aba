--------------------------- MODULE RoleLaunchProofs ----------------------------
(***************************************************************************)
(* What TLAPS proves of role launch, for any requests of the application,  *)
(* with or without monitor mode, power save and failing allocations.       *)
(* Booleans and the rest of the type invariant are proved apart: Zenon     *)
(* does the former, SMT the latter.                                        *)
(***************************************************************************)
EXTENDS RoleLaunch, TLAPS

LEMMA FlagsStep ==
  ASSUME FlagsOK, Next
  PROVE  FlagsOK'
<1>1. ASSUME NEW r \in Role, NEW req \in Type, Ask(r, req)
      PROVE  FlagsOK'
  BY Zenon, <1>1 DEF FlagsOK, Ask, AppRuns, Post, queue, roles, launch,
    locals, world, air, settings
<1>2. CASE AppStopsStation
  BY Zenon, <1>2 DEF FlagsOK, AppStopsStation, AppRuns, StopsStation, socket,
    queue, launch, locals, air, settings
<1>3. CASE AppStoppedStation
  BY Zenon, <1>3 DEF FlagsOK, AppStoppedStation, AppRuns, StationStopped,
    socket, queue, launch, locals, settings
<1>4. CASE AppStopsAp
  BY Zenon, <1>4 DEF FlagsOK, AppStopsAp, AppRuns, ApStopped, socket, queue,
    launch, locals, settings
<1>5. CASE AppStartsMonitor
  BY Zenon, <1>5 DEF FlagsOK, AppStartsMonitor, AppRuns, ApStopped,
    StopsStation, socket, queue, launch, locals, settings
<1>41. CASE AppRegistersMonitor
  BY Zenon, <1>41 DEF FlagsOK, AppRegistersMonitor, AppRuns, socket, queue,
    roles, launch, locals, air, settings
<1>6. CASE AppStopsMonitor
  BY Zenon, <1>6 DEF FlagsOK, AppStopsMonitor, AppRuns, socket, queue, roles,
    launch, locals, air, settings
<1>7. CASE EnterFires
  BY Zenon, <1>7 DEF FlagsOK, EnterFires, queue, roles, world, air, settings
<1>8. CASE EnterNoMemory
  BY Zenon, <1>8 DEF FlagsOK, EnterNoMemory, queue, roles, launch, locals,
    world, air, settings
<1>9. CASE EnterCaches
  BY Zenon, <1>9 DEF FlagsOK, EnterCaches, socket, queue, roles, world, air, settings
<1>10. CASE EnterDone
  BY Zenon, <1>10 DEF FlagsOK, EnterDone, socket, queue, roles, locals, world,
    air, settings
<1>11. ASSUME NEW r \in Role, EnterStarts(r)
      PROVE  FlagsOK'
  BY Zenon, <1>11 DEF FlagsOK, EnterStarts, Entering, FirstType, Starts,
    Forget, AfterEntering, Entered, socket, world, air, settings
<1>12. ASSUME NEW r \in Role, EnterQueues(r)
      PROVE  FlagsOK'
  BY Zenon, <1>12 DEF FlagsOK, EnterQueues, Entering, FirstType,
    AfterEntering, Entered, socket, roles, world, air, settings
<1>13. ASSUME NEW r \in Role, EnterDrops(r)
      PROVE  FlagsOK'
  BY Zenon, <1>13 DEF FlagsOK, EnterDrops, Entering, socket, queue, roles,
    world, air, settings
<1>14. CASE LaunchFires
  BY Zenon, <1>14 DEF FlagsOK, LaunchFires, socket, queue, roles, world, air, settings
<1>15. CASE LaunchFollowing
  BY Zenon, <1>15 DEF FlagsOK, LaunchFollowing, Starts, Forget, NoTurn,
    socket, world, air, settings
<1>16. CASE LaunchNothing
  BY Zenon, <1>16 DEF FlagsOK, LaunchNothing, TurnOver, NoTurn, Other, socket,
    roles, world, air, settings
<1>17. CASE LaunchCancels
  BY Zenon, <1>17 DEF FlagsOK, LaunchCancels, socket, queue, locals, world,
    air, settings
<1>18. CASE LaunchDecides
  BY Zenon, <1>18 DEF FlagsOK, LaunchDecides, rl_may_next_launch,
    rl_sta_may_next_launch, rl_ap_may_next_launch, socket, queue, roles,
    locals, world, air, settings
<1>19. CASE LaunchNext
  BY Zenon, <1>19 DEF FlagsOK, LaunchNext, Starts, Forget, NoTurn, socket,
    world, air, settings
<1>20. CASE LaunchOver
  BY Zenon, <1>20 DEF FlagsOK, LaunchOver, TurnOver, NoTurn, Other, socket,
    roles, world, air, settings
<1>21. CASE LaunchContinues
  BY Zenon, <1>21 DEF FlagsOK, LaunchContinues, rl_may_next_launch,
    rl_sta_may_next_launch, rl_ap_may_next_launch, NoTurn, socket, queue,
    roles, world, air, settings
<1>22. CASE StartSta
  BY Zenon, <1>22 DEF FlagsOK, StartSta, Starting, Started, NoStart,
    StopsStation, socket, queue, world, air, settings
<1>23. CASE StartDeleteSta
  BY Zenon, <1>23 DEF FlagsOK, StartDeleteSta, Starting, StopsStation, socket,
    queue, locals, world, air, settings
<1>24. CASE StartStopped
  BY Zenon, <1>24 DEF FlagsOK, StartStopped, StationStopped, Started, NoStart,
    socket, queue, settings
<1>25. CASE StartInits
  BY Zenon, <1>25 DEF FlagsOK, StartInits, Started, NoStart, socket, queue, settings
<1>26. CASE StartScan
  BY Zenon, <1>26 DEF FlagsOK, StartScan, Starting, Started, NoStart, socket, queue,
    world, air, settings
<1>27. CASE StartAp
  BY Zenon, <1>27 DEF FlagsOK, StartAp, Starting, Started, NoStart, socket,
    queue, settings
<1>28. CASE StartDeleteAp
  BY Zenon, <1>28 DEF FlagsOK, StartDeleteAp, Starting, ApStopped, Started,
    NoStart, socket, queue, settings
<1>29. CASE ScanStarts
  BY Zenon, <1>29 DEF FlagsOK, ScanStarts, RequestsScan, SetSta, socket, queue, launch,
    locals, settings
<1>30. ASSUME NEW req \in {Connect, Scan}, ScanEnds(req)
      PROVE  FlagsOK'
  BY Zenon, <1>30 DEF FlagsOK, ScanEnds, SetSta, socket, queue, launch, locals, settings
<1>31. CASE Associates
  BY Zenon, <1>31 DEF FlagsOK, Associates, SetSta, socket, queue, launch,
    locals, settings
<1>32. CASE Joins
  BY Zenon, <1>32 DEF FlagsOK, Joins, SwitchesChannel, socket, roles, queue,
    launch, locals, settings
<1>33. CASE JoinFails
  BY Zenon, <1>33 DEF FlagsOK, JoinFails, Disconnected, PostCached, Post,
    roles, queue, launch, locals, settings
<1>34. CASE SwitchEnds
  BY Zenon, <1>34 DEF FlagsOK, SwitchEnds, socket, roles, queue, launch,
    locals, settings
<1>35. CASE DhcpStarts
  BY Zenon, <1>35 DEF FlagsOK, DhcpStarts, SetSta, socket, queue, launch,
    locals, settings
<1>36. CASE DhcpBound
  BY Zenon, <1>36 DEF FlagsOK, DhcpBound, SetSta, socket, queue, launch,
    locals, settings
<1>37. CASE LinkLost
  BY Zenon, <1>37 DEF FlagsOK, LinkLost, socket, roles, queue, launch, locals, settings
<1>38. CASE DisconnectInd
  BY Zenon, <1>38 DEF FlagsOK, DisconnectInd, Disconnected, PostCached, Post,
    SetSta, queue, launch, locals, settings
<1>39. CASE BeaconUpdated
  BY Zenon, <1>39 DEF FlagsOK, BeaconUpdated, socket, queue, launch, locals,
    world, air, settings
<1>40. CASE Beacons
  BY Zenon, <1>40 DEF FlagsOK, Beacons, socket, queue, launch, locals, world,
    air, settings
<1>42. CASE StartScans
  BY Zenon, <1>42 DEF FlagsOK, StartScans, RequestsScan, SetSta, Started, NoStart, socket,
    queue, settings
<1>43. CASE PowerSaveOpens
  BY Zenon, <1>43 DEF FlagsOK, PowerSaveOpens, SetSta, socket, queue, launch, locals, world, air
<1>44. CASE PowerSaveCloses
  BY Zenon, <1>44 DEF FlagsOK, PowerSaveCloses, SetSta, socket, queue, launch, locals, world, air
<1>45. CASE PowerSaveSet
  BY Zenon, <1>45 DEF FlagsOK, PowerSaveSet, SetSta, socket, queue, launch, locals, world, air
<1> QED
  BY <1>1, <1>2, <1>3, <1>4, <1>5, <1>6, <1>7, <1>8, <1>9, <1>10,
     <1>11, <1>12, <1>13, <1>14, <1>15, <1>16, <1>17, <1>18, <1>19, <1>20,
     <1>21, <1>22, <1>23, <1>24, <1>25, <1>26, <1>27, <1>28, <1>29, <1>30,
     <1>31, <1>32, <1>33, <1>34, <1>35, <1>36, <1>37, <1>38, <1>39, <1>40, <1>41,
     <1>42, <1>43, <1>44, <1>45
  DEF Next, Application, TimerThread, Reports

(* What the start of a role sets has its type. *)
LEMMA StartsType ==
  ASSUME DataOK, NEW r \in Role, NEW req \in Type, NEW launched \in BOOLEAN, NEW next,
         next \in {"idle", "enter", "cache", "reload"}, Starts(r, req, launched, next)
  PROVE  /\ start' \in [role : Role, req : Type \cup {None}, fast : BOOLEAN,
                        next : {"idle", "enter", "cache", "reload"}]
         /\ pc' = "start"
         /\ cancel' \in [Role -> BOOLEAN]
         /\ status' \in [Role -> StaStatus \cup ApStatus]
         /\ status'["sta"] \in StaStatus /\ status'["ap"] \in ApStatus
<1>1. start' = [role |-> r, req |-> req, fast |-> FALSE, next |-> next] /\ pc' = "start"
  BY DEF Starts
<1>2. CASE Forget(r)
  BY <1>1, <1>2 DEF DataOK, Forget, Role, StaStatus, ApStatus
<1>3. CASE UNCHANGED <<cancel, status>>
  BY <1>1, <1>3 DEF DataOK, Role, StaStatus, ApStatus
<1> QED
  BY <1>2, <1>3 DEF Starts

(* What a scan that is requested sets has its type. *)
LEMMA RequestsScanType ==
  ASSUME DataOK, NEW req \in {Connect, Scan}, RequestsScan(req)
  PROVE  /\ status' \in [Role -> StaStatus \cup ApStatus]
         /\ status'["sta"] \in StaStatus /\ status'["ap"] \in ApStatus
         /\ scan' \subseteq {Connect, Scan}
<1>1. \E v \in {"SCANNING", "SCAN_OVER"} : status' = [status EXCEPT !["sta"] = v]
  BY DEF RequestsScan, SetSta
<1>2. scan' \subseteq {Connect, Scan}
  BY DEF DataOK, RequestsScan
<1> QED
  BY <1>1, <1>2 DEF DataOK, Role, StaStatus, ApStatus

LEMMA DataStep ==
  ASSUME DataOK, Next
  PROVE  DataOK'
<1> USE DEF Type, Role, StaStatus, ApStatus, Joined, Connect, Scan, Delete
<1>1. ASSUME NEW r \in Role, NEW req \in Type, Ask(r, req)
      PROVE  DataOK'
  BY <1>1 DEF DataOK, Ask, AppRuns, Post, queue, roles, launch, locals, world,
    air, settings
<1>2. CASE AppStopsStation
  BY <1>2 DEF DataOK, AppStopsStation, AppRuns, StopsStation, socket, queue,
    launch, locals, air, settings
<1>3. CASE AppStoppedStation
  BY <1>3 DEF DataOK, AppStoppedStation, AppRuns, StationStopped, socket,
    queue, launch, locals, settings
<1>4. CASE AppStopsAp
  BY <1>4 DEF DataOK, AppStopsAp, AppRuns, ApStopped, socket, queue, launch,
    locals, settings
<1>5. CASE AppStartsMonitor
  BY <1>5 DEF DataOK, AppStartsMonitor, AppRuns, ApStopped, StopsStation,
    socket, queue, launch, locals, settings
<1>41. CASE AppRegistersMonitor
  BY <1>41 DEF DataOK, AppRegistersMonitor, AppRuns, socket, queue, roles,
    launch, locals, air, settings
<1>6. CASE AppStopsMonitor
  BY <1>6 DEF DataOK, AppStopsMonitor, AppRuns, socket, queue, roles, launch,
    locals, air, settings
<1>7. CASE EnterFires
  BY <1>7 DEF DataOK, EnterFires, queue, roles, world, air, settings
<1>8. CASE EnterNoMemory
  <2>1. UNCHANGED <<request, queue, roles, g_sta_cache, g_mrole_csa_flag, launch, world,
                    settings>>
    BY <1>8, Zenon DEF EnterNoMemory
  <2> QED
    BY <2>1 DEF DataOK, queue, roles, launch, locals, world, air, settings
<1>9. CASE EnterCaches
  BY <1>9 DEF DataOK, EnterCaches, socket, queue, roles, world, air, settings
<1>10. CASE EnterDone
  BY <1>10 DEF DataOK, EnterDone, socket, queue, roles, locals, world, air, settings
<1>11. ASSUME NEW r \in Role, EnterStarts(r)
      PROVE  DataOK'
  <2>1. taken[r] \in Type
    BY <1>11 DEF DataOK, EnterStarts, Entering
  <2>2. AfterEntering(r) \in {"idle", "enter", "cache", "reload"}
    BY DEF AfterEntering
  <2>3. Starts(r, taken[r], FALSE, AfterEntering(r))
    BY <1>11 DEF EnterStarts
  <2>4. /\ previous' = [previous EXCEPT ![r] = taken[r]]
        /\ pre_entity_type' = FirstType(r) /\ taken' = Entered(r)
        /\ UNCHANGED <<socket, following, g_sta_cache, g_mrole_csa_flag, turn, world,
                       settings>>
    BY <1>11 DEF EnterStarts
  <2>5. taken' \in [Role -> Type \cup {None}] /\ pre_entity_type' \in Role \cup {"idle"}
    BY <2>4 DEF DataOK, Entered, FirstType
  <2>6. /\ start' \in [role : Role, req : Type \cup {None}, fast : BOOLEAN,
                       next : {"idle", "enter", "cache", "reload"}]
        /\ pc' = "start"
        /\ cancel' \in [Role -> BOOLEAN] /\ status' \in [Role -> StaStatus \cup ApStatus]
        /\ status'["sta"] \in StaStatus /\ status'["ap"] \in ApStatus
    BY <2>1, <2>2, <2>3, StartsType, Zenon
  <2> QED
    BY <2>1, <2>4, <2>5, <2>6 DEF DataOK, socket, world, air, settings
<1>12. ASSUME NEW r \in Role, EnterQueues(r)
      PROVE  DataOK'
  BY <1>12 DEF DataOK, EnterQueues, Entering, FirstType, AfterEntering,
    Entered, socket, roles, world, air, settings
<1>13. ASSUME NEW r \in Role, EnterDrops(r)
      PROVE  DataOK'
  BY <1>13 DEF DataOK, EnterDrops, Entering, socket, queue, roles, world, air, settings
<1>14. CASE LaunchFires
  BY <1>14 DEF DataOK, LaunchFires, socket, queue, roles, world, air, settings
<1>15. CASE LaunchFollowing
  <2>1. following[turn] \in Type /\ turn \in Role
    BY <1>15 DEF DataOK, LaunchFollowing
  <2>2. Starts(turn, following[turn], TRUE, "reload")
    BY <1>15 DEF LaunchFollowing
  <2>3. /\ previous' = [previous EXCEPT ![turn] = following[turn]]
        /\ following' = [following EXCEPT ![turn] = None]
        /\ turn' = "sta"
        /\ UNCHANGED <<socket, pre_entity_type, g_sta_cache, g_mrole_csa_flag, taken,
                       world, settings>>
    BY <1>15 DEF LaunchFollowing, NoTurn
  <2>4. /\ start' \in [role : Role, req : Type \cup {None}, fast : BOOLEAN,
                       next : {"idle", "enter", "cache", "reload"}]
        /\ pc' = "start"
        /\ cancel' \in [Role -> BOOLEAN] /\ status' \in [Role -> StaStatus \cup ApStatus]
        /\ status'["sta"] \in StaStatus /\ status'["ap"] \in ApStatus
    BY <2>1, <2>2, StartsType, Zenon
  <2> QED
    BY <2>1, <2>3, <2>4 DEF DataOK, socket, world, air, settings
<1>16. CASE LaunchNothing
  BY <1>16 DEF DataOK, LaunchNothing, TurnOver, NoTurn, Other, socket, roles,
    world, air, settings
<1>17. CASE LaunchCancels
  BY <1>17 DEF DataOK, LaunchCancels, socket, queue, locals, world, air, settings
<1>18. CASE LaunchDecides
  BY <1>18 DEF DataOK, LaunchDecides, rl_may_next_launch,
    rl_sta_may_next_launch, rl_ap_may_next_launch, socket, queue, roles,
    locals, world, air, settings
<1>19. CASE LaunchNext
  <2>1. following[turn] \in Type /\ turn \in Role
    BY <1>19 DEF DataOK, LaunchNext
  <2>2. Starts(turn, following[turn], TRUE, "reload")
    BY <1>19 DEF LaunchNext
  <2>3. /\ previous' = [previous EXCEPT ![turn] = following[turn]]
        /\ following' = [following EXCEPT ![turn] = None]
        /\ turn' = "sta"
        /\ UNCHANGED <<socket, pre_entity_type, g_sta_cache, g_mrole_csa_flag, taken,
                       world, settings>>
    BY <1>19 DEF LaunchNext, NoTurn
  <2>4. /\ start' \in [role : Role, req : Type \cup {None}, fast : BOOLEAN,
                       next : {"idle", "enter", "cache", "reload"}]
        /\ pc' = "start"
        /\ cancel' \in [Role -> BOOLEAN] /\ status' \in [Role -> StaStatus \cup ApStatus]
        /\ status'["sta"] \in StaStatus /\ status'["ap"] \in ApStatus
    BY <2>1, <2>2, StartsType, Zenon
  <2> QED
    BY <2>1, <2>3, <2>4 DEF DataOK, socket, world, air, settings
<1>20. CASE LaunchOver
  BY <1>20 DEF DataOK, LaunchOver, TurnOver, NoTurn, Other, socket, roles,
    world, air, settings
<1>21. CASE LaunchContinues
  BY <1>21 DEF DataOK, LaunchContinues, rl_may_next_launch,
    rl_sta_may_next_launch, rl_ap_may_next_launch, NoTurn, socket, queue,
    roles, world, air, settings
<1>22. CASE StartSta
  <2>1. PICK fast \in BOOLEAN :
          IF fast /\ monitor
          THEN Started /\ UNCHANGED <<stop_state, cancel>>
          ELSE /\ StopsStation
               /\ start' = [start EXCEPT !.fast = fast] /\ pc' = "stopping"
               /\ UNCHANGED rl_timer
    BY <1>22 DEF StartSta
  <2>2. UNCHANGED <<socket, queue, status, g_sta_cache, g_mrole_csa_flag, taken, turn,
                    world, settings>>
    BY <1>22 DEF StartSta
  <2>3. CASE Started /\ UNCHANGED <<stop_state, cancel>>
    BY <2>2, <2>3 DEF DataOK, Started, NoStart, socket, queue, world, air, settings
  <2>4. CASE StopsStation /\ start' = [start EXCEPT !.fast = fast] /\ pc' = "stopping"
    BY <2>2, <2>4 DEF DataOK, StopsStation, socket, queue, world, air, settings
  <2> QED
    BY <2>1, <2>3, <2>4
<1>23. CASE StartDeleteSta
  BY <1>23 DEF DataOK, StartDeleteSta, Starting, StopsStation, socket, queue,
    locals, world, air, settings
<1>24. CASE StartStopped
  <2>1. /\ StationStopped
        /\ UNCHANGED <<socket, queue, cancel, g_sta_cache, g_mrole_csa_flag, taken, turn,
                       scan, app, settings>>
    BY <1>24 DEF StartStopped
  <2>2. /\ pc' \in {"init", "idle", "enter", "cache"}
        /\ start' \in [role : Role, req : Type \cup {None}, fast : BOOLEAN,
                       next : {"idle", "enter", "cache", "reload"}]
    <3>1. CASE pc' = "init" /\ start' = start
      BY <3>1 DEF DataOK
    <3>2. CASE Started
      BY <3>2 DEF DataOK, Started, NoStart
    <3> QED
      BY <1>24, <3>1, <3>2 DEF StartStopped
  <2> QED
    BY <2>1, <2>2 DEF DataOK, StationStopped, socket, queue, settings
<1>25. CASE StartInits
  BY <1>25 DEF DataOK, StartInits, Started, NoStart, socket, queue, settings
<1>26. CASE StartScan
  <2>1. status' \in [Role -> StaStatus \cup ApStatus]
    BY <1>26 DEF DataOK, StartScan, SetSta
  <2>2. status'["sta"] \in StaStatus /\ status'["ap"] \in ApStatus
    BY <1>26 DEF DataOK, StartScan, SetSta
  <2>3. /\ pc' \in {"idle", "enter", "cache", "scan"}
        /\ start' \in [role : Role, req : Type \cup {None}, fast : BOOLEAN,
                       next : {"idle", "enter", "cache", "reload"}]
    <3>1. CASE pc' = "scan" /\ start' = start
      BY <3>1 DEF DataOK
    <3>2. CASE Started
      BY <3>2 DEF DataOK, Started, NoStart
    <3> QED
      BY <1>26, <3>1, <3>2 DEF StartScan
  <2>4. g_mrole_csa_flag' \in {"none", "SWITCHING", "SWITCHED"}
    BY <1>26 DEF DataOK, StartScan
  <2>5. UNCHANGED <<request, taken, previous, following, pre_entity_type, turn, cancel,
                    g_sta_cache, station, scan, ps_setting, app>>
    BY <1>26 DEF StartScan, socket, queue, world, air, settings
  <2> QED
    BY <1>26, <2>1, <2>2, <2>3, <2>4, <2>5 DEF DataOK
<1>27. CASE StartAp
  BY <1>27 DEF DataOK, StartAp, Starting, Started, NoStart, socket, queue, settings
<1>28. CASE StartDeleteAp
  BY <1>28 DEF DataOK, StartDeleteAp, Starting, ApStopped, Started, NoStart,
    socket, queue, settings
<1>29. CASE ScanStarts
  <2>1. RequestsScan(Connect)
    BY <1>29 DEF ScanStarts
  <2>2. /\ status' \in [Role -> StaStatus \cup ApStatus]
        /\ status'["sta"] \in StaStatus /\ status'["ap"] \in ApStatus
        /\ scan' \subseteq {Connect, Scan}
    BY <2>1, RequestsScanType, Zenon
  <2> QED
    BY <1>29, <2>2 DEF DataOK, ScanStarts, socket, queue, launch, locals, settings
<1>30. ASSUME NEW req \in {Connect, Scan}, ScanEnds(req)
      PROVE  DataOK'
  BY <1>30 DEF DataOK, ScanEnds, SetSta, socket, queue, launch, locals, settings
<1>31. CASE Associates
  BY <1>31 DEF DataOK, Associates, SetSta, socket, queue, launch, locals, settings
<1>32. CASE Joins
  BY <1>32 DEF DataOK, Joins, SwitchesChannel, socket, roles, queue, launch,
    locals, settings
<1>33. CASE JoinFails
  BY <1>33 DEF DataOK, JoinFails, Disconnected, PostCached, Post, roles,
    queue, launch, locals, settings
<1>34. CASE SwitchEnds
  BY <1>34 DEF DataOK, SwitchEnds, socket, roles, queue, launch, locals, settings
<1>35. CASE DhcpStarts
  BY <1>35 DEF DataOK, DhcpStarts, SetSta, socket, queue, launch, locals, settings
<1>36. CASE DhcpBound
  BY <1>36 DEF DataOK, DhcpBound, SetSta, socket, queue, launch, locals, settings
<1>37. CASE LinkLost
  BY <1>37 DEF DataOK, LinkLost, socket, roles, queue, launch, locals, settings
<1>38. CASE DisconnectInd
  BY <1>38 DEF DataOK, DisconnectInd, Disconnected, PostCached, Post, SetSta,
    queue, launch, locals, settings
<1>39. CASE BeaconUpdated
  BY <1>39 DEF DataOK, BeaconUpdated, socket, queue, launch, locals, world,
    air, settings
<1>40. CASE Beacons
  BY <1>40 DEF DataOK, Beacons, socket, queue, launch, locals, world, air, settings
<1>42. CASE StartScans
  <2>1. RequestsScan(Scan)
    BY <1>42 DEF StartScans
  <2>2. /\ status' \in [Role -> StaStatus \cup ApStatus]
        /\ status'["sta"] \in StaStatus /\ status'["ap"] \in ApStatus
        /\ scan' \subseteq {Connect, Scan}
    BY <2>1, RequestsScanType, Zenon
  <2> QED
    BY <1>42, <2>2 DEF DataOK, StartScans, Started, NoStart, socket, queue, settings
<1>43. CASE PowerSaveOpens
  <2>1. /\ ps_setting' = ps_setting \cup {"open"} /\ SetSta("PS_SETTING")
        /\ UNCHANGED <<socket, cancel, g_sta_cache, g_mrole_csa_flag, queue, launch, world>>
    BY <1>43, Zenon DEF PowerSaveOpens
  <2> QED
    BY <2>1 DEF DataOK, SetSta, socket, queue, launch, locals, world, air
<1>44. CASE PowerSaveCloses
  BY <1>44 DEF DataOK, PowerSaveCloses, SetSta, socket, queue, launch, locals, world, air
<1>45. CASE PowerSaveSet
  BY <1>45 DEF DataOK, PowerSaveSet, SetSta, socket, queue, launch, locals, world, air
<1> QED
  BY <1>1, <1>2, <1>3, <1>4, <1>5, <1>6, <1>7, <1>8, <1>9, <1>10,
     <1>11, <1>12, <1>13, <1>14, <1>15, <1>16, <1>17, <1>18, <1>19, <1>20,
     <1>21, <1>22, <1>23, <1>24, <1>25, <1>26, <1>27, <1>28, <1>29, <1>30,
     <1>31, <1>32, <1>33, <1>34, <1>35, <1>36, <1>37, <1>38, <1>39, <1>40, <1>41,
     <1>42, <1>43, <1>44, <1>45
  DEF Next, Application, TimerThread, Reports
-------------------------------------------------------------------------------
(* The queue and its poll: the inductive invariant.                        *)

(* The handler of the poll runs, and reloads it when it returns unless     *)
(* nothing is left.                                                        *)
Handling == \/ pc \in {"cancel", "decide", "act"}
            \/ pc \in {"start", "stopping", "init", "scan"} /\ start.next = "reload"

PolledInv == (\E r \in Role : following[r] # None) => rl_timer \/ Handling

(* The second role has its turn when nothing waits for the first. *)
TurnInv == /\ pc \in {"decide", "act"} => previous[turn] # None
           /\ second => /\ pc \in {"cancel", "decide", "act"}
                        /\ following[Other(turn)] = None

(* A request waits only once a role was first. *)
FirstInv == pre_entity_type = "idle" => \A r \in Role : following[r] = None

(* From the cancel on no switch of the channel starts. *)
SwitchInv ==
  /\ pc \in {"decide", "act"} /\ following[turn] # None => cancel[turn]
  /\ pc = "act" /\ following[turn] # None => g_mrole_csa_flag # "SWITCHING"

QueueInv == PolledInv /\ TurnInv /\ FirstInv /\ EntitiesConserved

(* Only the timer thread touches the queue, the poll and the launch. *)
LEMMA OthersLeave ==
  ASSUME Application \/ Reports
  PROVE  UNCHANGED <<rl_timer, queue, launch>>
<1>1. CASE Application
  BY <1>1 DEF Application, Ask, AppStopsStation, AppStoppedStation,
    AppStopsAp, AppRegistersMonitor, AppStartsMonitor, AppStopsMonitor
<1>2. CASE Reports
  BY <1>2 DEF Reports, ScanStarts, ScanEnds, Associates, Joins, JoinFails,
    SwitchEnds, DhcpStarts, DhcpBound, LinkLost, DisconnectInd, BeaconUpdated,
    Beacons, PowerSaveOpens, PowerSaveCloses, PowerSaveSet
<1> QED
  BY <1>1, <1>2

LEMMA QueueStep ==
  ASSUME TypeOK, QueueInv, Next
  PROVE  QueueInv'
<1> USE RolesAssumption
<1>0. CASE Application \/ Reports
  BY <1>0, OthersLeave
  DEF QueueInv, PolledInv, Handling, TurnInv, FirstInv, EntitiesConserved, queue, launch,
      locals, Other, Role
<1>1. CASE EnterFires
  <2>1. PolledInv'
    BY <1>1 DEF TypeOK, DataOK, QueueInv, PolledInv, Handling, TurnInv,
      FirstInv, Role, Other, EnterFires, queue
  <2>2. TurnInv'
    BY <1>1 DEF TypeOK, DataOK, QueueInv, TurnInv, Role, Other, EnterFires,
      queue
  <2>3. FirstInv'
    BY <1>1 DEF TypeOK, DataOK, QueueInv, FirstInv, Role, EnterFires, queue
  <2>4. EntitiesConserved'
    BY <1>1 DEF TypeOK, DataOK, QueueInv, TurnInv, EntitiesConserved, Role,
      EnterFires, queue
  <2> QED
    BY <2>1, <2>2, <2>3, <2>4 DEF QueueInv
<1>2. CASE EnterNoMemory
  <2>1. PolledInv'
    BY <1>2 DEF TypeOK, DataOK, QueueInv, PolledInv, Handling, TurnInv,
      FirstInv, Role, Other, EnterNoMemory, queue, launch, locals
  <2>2. TurnInv'
    BY <1>2 DEF TypeOK, DataOK, QueueInv, TurnInv, Role, Other, EnterNoMemory,
      queue, launch, locals
  <2>3. FirstInv'
    BY <1>2 DEF TypeOK, DataOK, QueueInv, FirstInv, Role, EnterNoMemory,
      queue, launch, locals
  <2>4. EntitiesConserved'
    BY <1>2 DEF TypeOK, DataOK, QueueInv, TurnInv, EntitiesConserved, Role,
      EnterNoMemory, queue, launch, locals
  <2> QED
    BY <2>1, <2>2, <2>3, <2>4 DEF QueueInv
<1>3. CASE EnterCaches
  <2>1. PolledInv'
    BY <1>3 DEF TypeOK, DataOK, QueueInv, PolledInv, Handling, TurnInv,
      FirstInv, Role, Other, EnterCaches, queue
  <2>2. TurnInv'
    BY <1>3 DEF TypeOK, DataOK, QueueInv, TurnInv, Role, Other, EnterCaches,
      queue
  <2>3. FirstInv'
    BY <1>3 DEF TypeOK, DataOK, QueueInv, FirstInv, Role, EnterCaches, queue
  <2>4. EntitiesConserved'
    BY <1>3 DEF TypeOK, DataOK, QueueInv, TurnInv, EntitiesConserved, Role,
      EnterCaches, queue
  <2> QED
    BY <2>1, <2>2, <2>3, <2>4 DEF QueueInv
<1>4. CASE EnterDone
  <2>1. PolledInv'
    BY <1>4 DEF TypeOK, DataOK, QueueInv, PolledInv, Handling, TurnInv,
      FirstInv, Role, Other, EnterDone, queue, locals
  <2>2. TurnInv'
    BY <1>4 DEF TypeOK, DataOK, QueueInv, TurnInv, Role, Other, EnterDone,
      queue, locals
  <2>3. FirstInv'
    BY <1>4 DEF TypeOK, DataOK, QueueInv, FirstInv, Role, EnterDone, queue,
      locals
  <2>4. EntitiesConserved'
    BY <1>4 DEF TypeOK, DataOK, QueueInv, TurnInv, EntitiesConserved, Role,
      EnterDone, queue, locals
  <2> QED
    BY <2>1, <2>2, <2>3, <2>4 DEF QueueInv
<1>5. ASSUME NEW r \in Role, EnterStarts(r)
      PROVE  QueueInv'
  <2>1. PolledInv'
    BY <1>5 DEF TypeOK, DataOK, QueueInv, PolledInv, Handling, TurnInv,
      FirstInv, Role, Other, EnterStarts, Entering, FirstType, Starts,
      AfterEntering
  <2>2. TurnInv'
    BY <1>5 DEF TypeOK, DataOK, QueueInv, TurnInv, Role, Other, EnterStarts,
      Entering, Starts, AfterEntering
  <2>3. FirstInv'
    BY <1>5 DEF TypeOK, DataOK, QueueInv, FirstInv, Role, EnterStarts,
      Entering, FirstType
  <2>4. EntitiesConserved'
    BY <1>5 DEF TypeOK, DataOK, QueueInv, TurnInv, EntitiesConserved, Role,
      EnterStarts, Entering
  <2> QED
    BY <2>1, <2>2, <2>3, <2>4 DEF QueueInv
<1>6. ASSUME NEW r \in Role, EnterQueues(r)
      PROVE  QueueInv'
  <2>1. PolledInv'
    BY <1>6 DEF TypeOK, DataOK, QueueInv, PolledInv, Handling, TurnInv,
      FirstInv, Role, Other, EnterQueues, Entering, FirstType, AfterEntering
  <2>2. TurnInv'
    BY <1>6 DEF TypeOK, DataOK, QueueInv, TurnInv, Role, Other, EnterQueues,
      Entering, AfterEntering
  <2>3. FirstInv'
    BY <1>6 DEF TypeOK, DataOK, QueueInv, FirstInv, Role, EnterQueues,
      Entering, FirstType
  <2>4. EntitiesConserved'
    BY <1>6 DEF TypeOK, DataOK, QueueInv, TurnInv, EntitiesConserved, Role,
      EnterQueues, Entering
  <2> QED
    BY <2>1, <2>2, <2>3, <2>4 DEF QueueInv
<1>7. ASSUME NEW r \in Role, EnterDrops(r)
      PROVE  QueueInv'
  <2>1. PolledInv'
    BY <1>7 DEF TypeOK, DataOK, QueueInv, PolledInv, Handling, TurnInv,
      FirstInv, Role, Other, EnterDrops, Entering, queue
  <2>2. TurnInv'
    BY <1>7 DEF TypeOK, DataOK, QueueInv, TurnInv, Role, Other, EnterDrops,
      Entering, queue
  <2>3. FirstInv'
    BY <1>7 DEF TypeOK, DataOK, QueueInv, FirstInv, Role, EnterDrops,
      Entering, queue
  <2>4. EntitiesConserved'
    BY <1>7 DEF TypeOK, DataOK, QueueInv, TurnInv, EntitiesConserved, Role,
      EnterDrops, Entering, queue
  <2> QED
    BY <2>1, <2>2, <2>3, <2>4 DEF QueueInv
<1>8. CASE LaunchFires
  <2>1. PolledInv'
    BY <1>8 DEF TypeOK, DataOK, QueueInv, PolledInv, Handling, TurnInv,
      FirstInv, Role, Other, LaunchFires, queue
  <2>2. TurnInv'
    BY <1>8 DEF TypeOK, DataOK, QueueInv, TurnInv, Role, Other, LaunchFires,
      queue
  <2>3. FirstInv'
    BY <1>8 DEF TypeOK, DataOK, QueueInv, FirstInv, Role, LaunchFires, queue
  <2>4. EntitiesConserved'
    BY <1>8 DEF TypeOK, DataOK, QueueInv, TurnInv, EntitiesConserved, Role,
      LaunchFires, queue
  <2> QED
    BY <2>1, <2>2, <2>3, <2>4 DEF QueueInv
<1>9. CASE LaunchFollowing
  <2>1. PolledInv'
    BY <1>9 DEF TypeOK, DataOK, QueueInv, PolledInv, Handling, TurnInv,
      FirstInv, Role, Other, LaunchFollowing, Starts, NoTurn
  <2>2. TurnInv'
    BY <1>9 DEF TypeOK, DataOK, QueueInv, TurnInv, Role, Other,
      LaunchFollowing, Starts, NoTurn
  <2>3. FirstInv'
    BY <1>9 DEF TypeOK, DataOK, QueueInv, FirstInv, Role, LaunchFollowing
  <2>4. EntitiesConserved'
    BY <1>9 DEF TypeOK, DataOK, QueueInv, TurnInv, EntitiesConserved, Role,
      LaunchFollowing
  <2> QED
    BY <2>1, <2>2, <2>3, <2>4 DEF QueueInv
<1>10. CASE LaunchNothing
  <2>1. PolledInv'
    BY <1>10 DEF TypeOK, DataOK, QueueInv, PolledInv, Handling, TurnInv,
      FirstInv, Role, Other, LaunchNothing, TurnOver, NoTurn
  <2>2. TurnInv'
    BY <1>10 DEF TypeOK, DataOK, QueueInv, TurnInv, Role, Other,
      LaunchNothing, TurnOver, NoTurn
  <2>3. FirstInv'
    BY <1>10 DEF TypeOK, DataOK, QueueInv, FirstInv, Role, LaunchNothing,
      TurnOver, Other
  <2>4. EntitiesConserved'
    BY <1>10 DEF TypeOK, DataOK, QueueInv, TurnInv, EntitiesConserved, Role,
      LaunchNothing
  <2> QED
    BY <2>1, <2>2, <2>3, <2>4 DEF QueueInv
<1>11. CASE LaunchCancels
  <2>1. PolledInv'
    BY <1>11 DEF TypeOK, DataOK, QueueInv, PolledInv, Handling, TurnInv,
      FirstInv, Role, Other, LaunchCancels, queue, locals
  <2>2. TurnInv'
    BY <1>11 DEF TypeOK, DataOK, QueueInv, TurnInv, Role, Other,
      LaunchCancels, queue, locals
  <2>3. FirstInv'
    BY <1>11 DEF TypeOK, DataOK, QueueInv, FirstInv, Role, LaunchCancels,
      queue, locals
  <2>4. EntitiesConserved'
    BY <1>11 DEF TypeOK, DataOK, QueueInv, TurnInv, EntitiesConserved, Role,
      LaunchCancels, queue, locals
  <2> QED
    BY <2>1, <2>2, <2>3, <2>4 DEF QueueInv
<1>12. CASE LaunchDecides
  <2>1. PolledInv'
    BY <1>12 DEF TypeOK, DataOK, QueueInv, PolledInv, Handling, TurnInv,
      FirstInv, Role, Other, LaunchDecides, queue, locals
  <2>2. TurnInv'
    BY <1>12 DEF TypeOK, DataOK, QueueInv, TurnInv, Role, Other,
      LaunchDecides, queue, locals
  <2>3. FirstInv'
    BY <1>12 DEF TypeOK, DataOK, QueueInv, FirstInv, Role, LaunchDecides,
      queue, locals
  <2>4. EntitiesConserved'
    BY <1>12 DEF TypeOK, DataOK, QueueInv, TurnInv, EntitiesConserved, Role,
      LaunchDecides, queue, locals
  <2> QED
    BY <2>1, <2>2, <2>3, <2>4 DEF QueueInv
<1>13. CASE LaunchNext
  <2>1. PolledInv'
    BY <1>13 DEF TypeOK, DataOK, QueueInv, PolledInv, Handling, TurnInv,
      FirstInv, Role, Other, LaunchNext, Starts, NoTurn
  <2>2. TurnInv'
    BY <1>13 DEF TypeOK, DataOK, QueueInv, TurnInv, Role, Other, LaunchNext,
      Starts, NoTurn
  <2>3. FirstInv'
    BY <1>13 DEF TypeOK, DataOK, QueueInv, FirstInv, Role, LaunchNext
  <2>4. EntitiesConserved'
    BY <1>13 DEF TypeOK, DataOK, QueueInv, TurnInv, EntitiesConserved, Role,
      LaunchNext
  <2> QED
    BY <2>1, <2>2, <2>3, <2>4 DEF QueueInv
<1>14. CASE LaunchOver
  <2>1. PolledInv'
    BY <1>14 DEF TypeOK, DataOK, QueueInv, PolledInv, Handling, TurnInv,
      FirstInv, Role, Other, LaunchOver, TurnOver, NoTurn
  <2>2. TurnInv'
    BY <1>14 DEF TypeOK, DataOK, QueueInv, TurnInv, Role, Other, LaunchOver,
      TurnOver, NoTurn
  <2>3. FirstInv'
    BY <1>14 DEF TypeOK, DataOK, QueueInv, FirstInv, Role, LaunchOver,
      TurnOver, Other
  <2>4. EntitiesConserved'
    BY <1>14 DEF TypeOK, DataOK, QueueInv, TurnInv, EntitiesConserved, Role,
      LaunchOver
  <2> QED
    BY <2>1, <2>2, <2>3, <2>4 DEF QueueInv
<1>15. CASE LaunchContinues
  <2>1. PolledInv'
    BY <1>15 DEF TypeOK, DataOK, QueueInv, PolledInv, Handling, TurnInv,
      FirstInv, Role, Other, LaunchContinues, NoTurn, queue
  <2>2. TurnInv'
    BY <1>15 DEF TypeOK, DataOK, QueueInv, TurnInv, Role, Other,
      LaunchContinues, NoTurn, queue
  <2>3. FirstInv'
    BY <1>15 DEF TypeOK, DataOK, QueueInv, FirstInv, Role, LaunchContinues,
      queue
  <2>4. EntitiesConserved'
    BY <1>15 DEF TypeOK, DataOK, QueueInv, TurnInv, EntitiesConserved, Role,
      LaunchContinues, queue
  <2> QED
    BY <2>1, <2>2, <2>3, <2>4 DEF QueueInv
<1>16. CASE StartSta
  <2>1. PolledInv'
    BY <1>16 DEF TypeOK, DataOK, QueueInv, PolledInv, Handling, TurnInv,
      FirstInv, Role, Other, StartSta, Starting, Started, NoStart, queue
  <2>2. TurnInv'
    BY <1>16 DEF TypeOK, DataOK, QueueInv, TurnInv, Role, Other, StartSta,
      Starting, Started, NoStart, queue
  <2>3. FirstInv'
    BY <1>16 DEF TypeOK, DataOK, QueueInv, FirstInv, Role, StartSta, Starting,
      queue
  <2>4. EntitiesConserved'
    BY <1>16 DEF TypeOK, DataOK, QueueInv, TurnInv, EntitiesConserved, Role,
      StartSta, Starting, queue
  <2> QED
    BY <2>1, <2>2, <2>3, <2>4 DEF QueueInv
<1>17. CASE StartDeleteSta
  <2>1. PolledInv'
    BY <1>17 DEF TypeOK, DataOK, QueueInv, PolledInv, Handling, TurnInv,
      FirstInv, Role, Other, StartDeleteSta, Starting, queue, locals
  <2>2. TurnInv'
    BY <1>17 DEF TypeOK, DataOK, QueueInv, TurnInv, Role, Other,
      StartDeleteSta, Starting, queue, locals
  <2>3. FirstInv'
    BY <1>17 DEF TypeOK, DataOK, QueueInv, FirstInv, Role, StartDeleteSta,
      Starting, queue, locals
  <2>4. EntitiesConserved'
    BY <1>17 DEF TypeOK, DataOK, QueueInv, TurnInv, EntitiesConserved, Role,
      StartDeleteSta, Starting, queue, locals
  <2> QED
    BY <2>1, <2>2, <2>3, <2>4 DEF QueueInv
<1>18. CASE StartStopped
  <2>1. PolledInv'
    BY <1>18 DEF TypeOK, DataOK, QueueInv, PolledInv, Handling, TurnInv,
      FirstInv, Role, Other, StartStopped, Started, NoStart, queue
  <2>2. TurnInv'
    BY <1>18 DEF TypeOK, DataOK, QueueInv, TurnInv, Role, Other, StartStopped,
      Started, NoStart, queue
  <2>3. FirstInv'
    BY <1>18 DEF TypeOK, DataOK, QueueInv, FirstInv, Role, StartStopped, queue
  <2>4. EntitiesConserved'
    BY <1>18 DEF TypeOK, DataOK, QueueInv, TurnInv, EntitiesConserved, Role,
      StartStopped, queue
  <2> QED
    BY <2>1, <2>2, <2>3, <2>4 DEF QueueInv
<1>19. CASE StartInits
  <2>1. PolledInv'
    BY <1>19 DEF TypeOK, DataOK, QueueInv, PolledInv, Handling, TurnInv,
      FirstInv, Role, Other, StartInits, Started, NoStart, queue
  <2>2. TurnInv'
    BY <1>19 DEF TypeOK, DataOK, QueueInv, TurnInv, Role, Other, StartInits,
      Started, NoStart, queue
  <2>3. FirstInv'
    BY <1>19 DEF TypeOK, DataOK, QueueInv, FirstInv, Role, StartInits, queue
  <2>4. EntitiesConserved'
    BY <1>19 DEF TypeOK, DataOK, QueueInv, TurnInv, EntitiesConserved, Role,
      StartInits, queue
  <2> QED
    BY <2>1, <2>2, <2>3, <2>4 DEF QueueInv
<1>20. CASE StartScan
  <2>1. PolledInv'
    BY <1>20 DEF TypeOK, DataOK, QueueInv, PolledInv, Handling, TurnInv,
      FirstInv, Role, Other, StartScan, Starting, Started, NoStart, queue
  <2>2. TurnInv'
    BY <1>20 DEF TypeOK, DataOK, QueueInv, TurnInv, Role, Other, StartScan,
      Starting, Started, NoStart, queue
  <2>3. FirstInv'
    BY <1>20 DEF TypeOK, DataOK, QueueInv, FirstInv, Role, StartScan,
      Starting, queue
  <2>4. EntitiesConserved'
    BY <1>20 DEF TypeOK, DataOK, QueueInv, TurnInv, EntitiesConserved, Role,
      StartScan, Starting, queue
  <2> QED
    BY <2>1, <2>2, <2>3, <2>4 DEF QueueInv
<1>21. CASE StartAp
  <2>1. PolledInv'
    BY <1>21 DEF TypeOK, DataOK, QueueInv, PolledInv, Handling, TurnInv,
      FirstInv, Role, Other, StartAp, Starting, Started, NoStart, queue
  <2>2. TurnInv'
    BY <1>21 DEF TypeOK, DataOK, QueueInv, TurnInv, Role, Other, StartAp,
      Starting, Started, NoStart, queue
  <2>3. FirstInv'
    BY <1>21 DEF TypeOK, DataOK, QueueInv, FirstInv, Role, StartAp, Starting,
      queue
  <2>4. EntitiesConserved'
    BY <1>21 DEF TypeOK, DataOK, QueueInv, TurnInv, EntitiesConserved, Role,
      StartAp, Starting, queue
  <2> QED
    BY <2>1, <2>2, <2>3, <2>4 DEF QueueInv
<1>22. CASE StartDeleteAp
  <2>1. PolledInv'
    BY <1>22 DEF TypeOK, DataOK, QueueInv, PolledInv, Handling, TurnInv,
      FirstInv, Role, Other, StartDeleteAp, Starting, Started, NoStart, queue
  <2>2. TurnInv'
    BY <1>22 DEF TypeOK, DataOK, QueueInv, TurnInv, Role, Other,
      StartDeleteAp, Starting, Started, NoStart, queue
  <2>3. FirstInv'
    BY <1>22 DEF TypeOK, DataOK, QueueInv, FirstInv, Role, StartDeleteAp,
      Starting, queue
  <2>4. EntitiesConserved'
    BY <1>22 DEF TypeOK, DataOK, QueueInv, TurnInv, EntitiesConserved, Role,
      StartDeleteAp, Starting, queue
  <2> QED
    BY <2>1, <2>2, <2>3, <2>4 DEF QueueInv
<1>23. CASE StartScans
  <2>1. PolledInv'
    BY <1>23 DEF TypeOK, DataOK, QueueInv, PolledInv, Handling, TurnInv,
      FirstInv, Role, Other, StartScans, Started, NoStart, queue
  <2>2. TurnInv'
    BY <1>23 DEF TypeOK, DataOK, QueueInv, TurnInv, Role, Other, StartScans, Started, NoStart, queue
  <2>3. FirstInv'
    BY <1>23 DEF TypeOK, DataOK, QueueInv, FirstInv, Role, StartScans, queue
  <2>4. EntitiesConserved'
    BY <1>23 DEF TypeOK, DataOK, QueueInv, TurnInv, EntitiesConserved, Role,
      StartScans, queue
  <2> QED
    BY <2>1, <2>2, <2>3, <2>4 DEF QueueInv
<1> QED
  BY <1>0, <1>1, <1>2, <1>3, <1>4, <1>5, <1>6, <1>7, <1>8, <1>9,
     <1>10, <1>11, <1>12, <1>13, <1>14, <1>15, <1>16, <1>17, <1>18, <1>19,
     <1>20, <1>21, <1>22, <1>23 DEF Next, TimerThread

-------------------------------------------------------------------------------
(* No switch of the channel begins between the cancel and the launch.      *)

LEMMA SwitchStep ==
  ASSUME TypeOK, TurnInv, SwitchInv, Next
  PROVE  SwitchInv'
<1>1. CASE Application
  <2>1. UNCHANGED <<pc, turn, following>>
    BY <1>1, OthersLeave DEF queue, launch, locals
  <2>2. pc \notin {"decide", "act"}
    BY <1>1 DEF Application, AppRuns, Ask, AppStopsStation, AppStoppedStation,
      AppStopsAp, AppRegistersMonitor, AppStartsMonitor, AppStopsMonitor
  <2> QED
    BY <2>1, <2>2 DEF SwitchInv
<1>2. CASE Reports
  <2>1. UNCHANGED <<pc, turn, following>>
    BY <1>2, OthersLeave DEF queue, launch, locals
  <2>2. UNCHANGED cancel
    BY <1>2 DEF Reports, ScanStarts, ScanEnds, Associates, Joins, JoinFails, SwitchEnds,
      DhcpStarts, DhcpBound, LinkLost, DisconnectInd, BeaconUpdated, Beacons, PowerSaveOpens,
      PowerSaveCloses, PowerSaveSet, roles
  <2>3. \/ UNCHANGED g_mrole_csa_flag
        \/ g_mrole_csa_flag' = "SWITCHED"
        \/ \A r \in Role : ~cancel[r]
    BY <1>2 DEF Reports, ScanStarts, ScanEnds, Associates, Joins, JoinFails, SwitchEnds,
      DhcpStarts, DhcpBound, LinkLost, DisconnectInd, BeaconUpdated, Beacons,
      PowerSaveOpens, PowerSaveCloses, PowerSaveSet, SwitchesChannel, world, air
  <2> QED
    BY <2>1, <2>2, <2>3 DEF SwitchInv, TypeOK, DataOK
<1>3. CASE TimerThread
  <2>1. CASE LaunchCancels
    BY <2>1 DEF SwitchInv, LaunchCancels, TypeOK, DataOK, queue, locals
  <2>2. CASE LaunchDecides
    BY <2>2 DEF SwitchInv, LaunchDecides, TypeOK, DataOK, Role, rl_may_next_launch,
      rl_sta_may_next_launch, rl_ap_may_next_launch, queue, locals, roles
  <2>3. ASSUME TimerThread, ~LaunchCancels, ~LaunchDecides
        PROVE  pc' \notin {"decide", "act"}
    BY <2>3 DEF TypeOK, DataOK, TimerThread, EnterFires, EnterNoMemory, EnterCaches,
      EnterDone, EnterStarts, EnterQueues, EnterDrops, LaunchFires, LaunchFollowing,
      LaunchNothing, LaunchNext, LaunchOver, LaunchContinues, StartSta, StartDeleteSta,
      StartStopped, StartInits, StartScan, StartScans, StartAp, StartDeleteAp, AfterEntering,
      Starts, Started, Starting, TurnOver, Entering, launch
  <2> QED
    BY <1>3, <2>1, <2>2, <2>3 DEF SwitchInv
<1> QED
  BY <1>1, <1>2, <1>3 DEF Next

-------------------------------------------------------------------------------
(* The socket and its timer.                                               *)

LEMMA PostedStep ==
  ASSUME PostedIsScheduled, Next
  PROVE  PostedIsScheduled'
<1>1. ASSUME NEW r \in Role, NEW req, Post(r, req)
      PROVE  enter_timer'
  BY <1>1 DEF Post
<1>2. CASE Application
  <2>1. CASE \E r \in Role, req \in Type : Ask(r, req)
    BY <2>1 DEF Ask, Post, PostedIsScheduled
  <2>2. CASE AppStopsStation \/ AppStoppedStation \/ AppStopsAp \/ AppStartsMonitor
             \/ AppRegistersMonitor \/ AppStopsMonitor
    BY <2>2 DEF PostedIsScheduled, AppStopsStation, AppStoppedStation, AppStopsAp,
      AppRegistersMonitor, AppStartsMonitor, AppStopsMonitor, socket
  <2> QED
    BY <1>2, <2>1, <2>2 DEF Application
<1>3. CASE Reports
  <2>1. CASE JoinFails \/ DisconnectInd
    BY <2>1 DEF PostedIsScheduled, JoinFails, DisconnectInd, Disconnected, PostCached,
      Post
  <2>2. CASE ~(JoinFails \/ DisconnectInd)
    BY <1>3, <2>2 DEF PostedIsScheduled, Reports, ScanStarts, ScanEnds, Associates,
      Joins, SwitchEnds, DhcpStarts, DhcpBound, LinkLost, BeaconUpdated, Beacons,
      PowerSaveOpens, PowerSaveCloses, PowerSaveSet, socket
  <2> QED
    BY <2>1, <2>2
<1>4. CASE TimerThread
  <2>1. CASE EnterFires
    BY <2>1 DEF PostedIsScheduled, EnterFires
  <2>2. CASE EnterNoMemory
    BY <2>2 DEF PostedIsScheduled, EnterNoMemory
  <2>3. ASSUME TimerThread, ~EnterFires, ~EnterNoMemory
        PROVE  UNCHANGED <<request, enter_timer, starved>>
    BY <2>3 DEF TimerThread, EnterCaches, EnterDone, EnterStarts, EnterQueues,
      EnterDrops, LaunchFires, LaunchFollowing, LaunchNothing, LaunchCancels,
      LaunchDecides, LaunchNext, LaunchOver, LaunchContinues, StartSta, StartDeleteSta,
      StartStopped, StartInits, StartScan, StartScans, StartAp, StartDeleteAp, socket
  <2> QED
    BY <1>4, <2>1, <2>2, <2>3 DEF PostedIsScheduled
<1> QED
  BY <1>2, <1>3, <1>4 DEF Next

-------------------------------------------------------------------------------
RlInv == TypeOK /\ QueueInv /\ SwitchInv /\ PostedIsScheduled

LEMMA InitInv ==
  ASSUME Init
  PROVE  RlInv
<1> USE RolesAssumption
<1>1. FlagsOK
  BY Zenon DEF Init, FlagsOK
<1>2. DataOK /\ entities \in 0..4
  BY DEF Init, DataOK, Type, Role, StaStatus, ApStatus, NoStart
<1>3. QueueInv
  BY DEF Init, QueueInv, PolledInv, TurnInv, FirstInv, EntitiesConserved, Role
<1>4. SwitchInv /\ PostedIsScheduled
  BY DEF Init, SwitchInv, PostedIsScheduled, Role
<1> QED
  BY <1>1, <1>2, <1>3, <1>4 DEF RlInv, TypeOK

LEMMA StepInv ==
  ASSUME RlInv, [Next]_vars
  PROVE  RlInv'
<1>1. CASE Next
  <2>1. FlagsOK' /\ DataOK' /\ QueueInv'
    BY <1>1, FlagsStep, DataStep, QueueStep DEF RlInv, TypeOK
  <2>2. entities' \in 0..4
    BY <2>1 DEF QueueInv, EntitiesConserved
  <2>3. SwitchInv' /\ PostedIsScheduled'
    BY <1>1, SwitchStep, PostedStep DEF RlInv, QueueInv
  <2> QED
    BY <2>1, <2>2, <2>3 DEF RlInv, TypeOK
<1>2. CASE UNCHANGED vars
  <2>1. FlagsOK'
    BY <1>2 DEF RlInv, TypeOK, FlagsOK, vars, socket, world, air, settings, launch,
      locals
  <2>2. DataOK' /\ entities' \in 0..4
    BY <1>2 DEF RlInv, TypeOK, DataOK, vars, socket, queue, roles, world, air, settings,
      launch, locals
  <2>3. QueueInv'
    BY <1>2 DEF RlInv, QueueInv, PolledInv, Handling, TurnInv, FirstInv,
      EntitiesConserved, vars, queue, launch, locals
  <2>4. SwitchInv' /\ PostedIsScheduled'
    BY <1>2 DEF RlInv, SwitchInv, PostedIsScheduled, vars, socket, queue, roles, launch,
      locals
  <2> QED
    BY <2>1, <2>2, <2>3, <2>4 DEF RlInv, TypeOK
<1> QED
  BY <1>1, <1>2

THEOREM Invariance == Spec => []RlInv
<1>1. Init => RlInv
  BY InitInv
<1>2. RlInv /\ [Next]_vars => RlInv'
  BY StepInv
<1> QED
  BY <1>1, <1>2, PTL DEF Spec

(* Every variable keeps its type, and the queue never has more entities    *)
(* than its four places.                                                   *)
THEOREM TypeCorrect == Spec => []TypeOK
<1>1. RlInv => TypeOK
  BY DEF RlInv
<1> QED
  BY <1>1, Invariance, PTL

(* rl_alloc_entity and rl_free_entity balance, however launches are        *)
(* queued, replaced and dropped.                                           *)
THEOREM EntitiesAreConserved == Spec => []EntitiesConserved
<1>1. RlInv => EntitiesConserved
  BY DEF RlInv, QueueInv
<1> QED
  BY <1>1, Invariance, PTL

(* While a request waits behind a launch the poll is running, or           *)
(* rl_launch_handler is and reloads it.                                    *)
THEOREM QueuedAlwaysPolled == Spec => []QueuedIsPolled
<1>1. RlInv => QueuedIsPolled
  BY DEF RlInv, QueueInv, PolledInv, Handling, QueuedIsPolled
<1> QED
  BY <1>1, Invariance, PTL

(* A request in the socket has its timer, unless rl_enter_handler's        *)
(* allocation failed.                                                      *)
THEOREM PostedAlwaysScheduled == Spec => []PostedIsScheduled
<1>1. RlInv => PostedIsScheduled
  BY DEF RlInv
<1> QED
  BY <1>1, Invariance, PTL

(* rl_launch_sta and rl_launch_ap never replace a launch while the access  *)
(* point follows the station to another channel.                           *)
THEOREM NeverSwapsDuringSwitch == Spec => NoSwapDuringSwitch
<1> DEFINE A == g_mrole_csa_flag = "SWITCHING" => \A r \in Role : ~Replaced(r)
<1>1. RlInv /\ [Next]_vars => [A]_vars
  <2> SUFFICES ASSUME RlInv, Next, NEW r \in Role, Replaced(r)
               PROVE  g_mrole_csa_flag # "SWITCHING"
    OBVIOUS
  <2>1. ~(Application \/ Reports)
    BY OthersLeave DEF Replaced, queue
  <2>2. following[r] # None /\ following'[r] = None /\ previous[r] # None
    BY DEF Replaced
  <2>3. LaunchNext \/ LaunchFollowing \/ \E s \in Role : EnterQueues(s)
    BY <2>1, <2>2 DEF Next, TimerThread, EnterFires, EnterNoMemory, EnterCaches,
      EnterDone, EnterStarts, EnterDrops, LaunchFires, LaunchNothing, LaunchCancels,
      LaunchDecides, LaunchOver, LaunchContinues, StartSta, StartDeleteSta,
      StartStopped, StartInits, StartScan, StartScans, StartAp, StartDeleteAp, queue
  <2>4. ~LaunchFollowing
    BY <2>2 DEF LaunchFollowing, RlInv, TypeOK, DataOK
  <2>5. ASSUME NEW s \in Role, EnterQueues(s)
        PROVE  FALSE
    BY <2>2, <2>5 DEF EnterQueues, Entering, RlInv, TypeOK, DataOK
  <2>6. LaunchNext
    BY <2>3, <2>4, <2>5
  <2>7. r = turn
    BY <2>2, <2>6 DEF LaunchNext, RlInv, TypeOK, DataOK
  <2> QED
    BY <2>2, <2>6, <2>7 DEF LaunchNext, RlInv, SwitchInv
<1> QED
  BY <1>1, Invariance, PTL DEF Spec, NoSwapDuringSwitch
===============================================================================
