---------------------------- MODULE Connectivity ----------------------------
(***************************************************************************)
(* The box, its network, its clock and its nights: what stored credentials *)
(* are joined at a boot, when the wall clock becomes valid, when the       *)
(* nightly reboot comes, and what each of them means to the others.        *)
(*                                                                         *)
(* The night runs in units of its own (a day has DayLen of them), coarse   *)
(* against the milliseconds of WifiLink: a unit does not pass within a     *)
(* join.  The time of day, once known, is taken for right.                 *)
(***************************************************************************)
EXTENDS WifiLink

CONSTANTS
  DayLen, WindowLen,   \* a day, and windowLenMin of it
  MinUptime,           \* minUptimeMs
  Posts                \* the credentials an operator may send

Words == {"", "farm"}

ASSUME ConnectivityAssumption ==
  /\ DayLen \in Nat /\ WindowLen \in 1 .. DayLen - 1
  /\ MinUptime \in Nat /\ WindowLen < MinUptime
  /\ Posts \subseteq Words \X Words

VARIABLES
  ssid, pass,       \* wifi_ssid and wifi_pass in flash: "", or the farm's
  sntp,             \* time() reads past SYNC_THRESHOLD
  valid,            \* synced_
  hour,             \* the time of day
  uptime,           \* units since boot, up to MinUptime
  rebooted          \* ghost: the nightly reboot has come in this night

nightVars == <<hour, uptime, rebooted>>
vars == <<linkVars, ssid, pass, sntp, valid, nightVars>>

TypeOK ==
  /\ LinkTypeOK
  /\ ssid \in Words /\ pass \in Words
  /\ {sntp, valid, rebooted} \subseteq BOOLEAN
  /\ hour \in 0 .. DayLen - 1 /\ uptime \in 0 .. MinUptime

Init ==
  /\ ssid \in Words /\ pass = ssid
  /\ apUp = FALSE
  /\ Begun(ssid # "", ssid = "farm")
  /\ sntp = FALSE /\ valid = FALSE
  /\ hour \in 0 .. DayLen - 1 /\ uptime = 0 /\ rebooted = FALSE

\* A phone finds the box on the farm's network or on the box's own.
Reachable == up \/ mode = "SoftAp"

-----------------------------------------------------------------------------
(* Booting                                                                 *)

\* setup(): the clock takes a first reading, the Wi-Fi manager begins with the
\* credentials in flash.  A reset that is not a power cut may keep the time.
Boot(name, word, keepsTime) ==
  /\ sntp' = (sntp /\ keepsTime) /\ valid' = sntp'
  /\ Begin(name # "", name = "farm" /\ word = "farm")
  /\ uptime' = 0
  /\ UNCHANGED <<apUp, hour>>

\* A power cut, a panic, the restart into a new image.
Reset ==
  /\ \E keepsTime \in BOOLEAN : Boot(ssid, pass, keepsTime)
  /\ UNCHANGED <<ssid, pass, rebooted>>

-----------------------------------------------------------------------------
(* NightlyReboot::due, in a pass                                           *)

\* Clock::tick has polled earlier in the pass.
Synced == valid \/ sntp

Due_NoUptime == Synced /\ hour < WindowLen

\* lastRebootDay_ is lost in the very restart it is set for and never stops one.
Due == Synced /\ uptime >= MinUptime /\ hour < WindowLen

NightlyReboot ==
  /\ Due
  /\ \E keepsTime \in BOOLEAN : Boot(ssid, pass, keepsTime)
  /\ rebooted' = TRUE
  /\ UNCHANGED <<ssid, pass>>

\* A pass that does not end in the reboot: none is due, or the box is busy.
Pass ==
  /\ WifiTick
  /\ valid' = Synced
  /\ UNCHANGED <<ssid, pass, sntp, nightVars>>

-----------------------------------------------------------------------------
(* The operator and the world                                              *)

\* setWifiCreds, within postSettings; joined at the next boot.
PostSettings(p) ==
  /\ Reachable
  /\ ssid' = p[1] /\ pass' = p[2]
  /\ UNCHANGED <<linkVars, sntp, valid, nightVars>>

\* Power goes between its two writes.
PowerLossInPost(p) ==
  /\ Reachable
  /\ ssid' = p[1] /\ pass' = pass
  /\ Boot(p[1], pass, FALSE)
  /\ UNCHANGED rebooted

Sntp ==
  /\ up /\ ~sntp /\ sntp' = TRUE
  /\ UNCHANGED <<linkVars, ssid, pass, valid, nightVars>>

Hour ==
  /\ mode # "Connecting"
  /\ hour' = (hour + 1) % DayLen
  /\ uptime' = IF uptime < MinUptime THEN uptime + 1 ELSE uptime
  /\ rebooted' = (rebooted /\ hour' # 0)
  /\ UNCHANGED <<linkVars, ssid, pass, sntp, valid>>

Radio ==
  /\ \/ Elapse \/ ApComes \/ ApGoes \/ LinkDrops
     \/ Associates \/ Wedges \/ SelfHeals
  /\ UNCHANGED <<ssid, pass, sntp, valid, nightVars>>

Next ==
  \/ Pass \/ NightlyReboot
  \/ Radio
  \/ Reset
  \/ \E p \in Posts : PostSettings(p) \/ PowerLossInPost(p)
  \/ Sntp \/ Hour

\* The loop passes and time goes on.  Of attempts made for ever one succeeds
\* while the network is there; SNTP is answered on a link that keeps coming.
Fairness ==
  /\ WF_vars(Pass \/ NightlyReboot)
  /\ WF_vars(Elapse /\ Radio) /\ WF_vars(Hour)
  /\ SF_vars(Associates /\ Radio)
  /\ SF_vars(Sntp)

Spec == Init /\ [][Next]_vars /\ Fairness

-----------------------------------------------------------------------------
(* What must hold                                                          *)

\* Header of wifi_link_monitor.h: a link that stays down is asked to reconnect
\* right after the grace and then at the retry interval, indefinitely; no blip
\* is, nor a link that was asked less than an interval ago.  Only an interval in
\* which the counter's turn takes the outage's age back to nothing is longer, by
\* at most a second grace, seen by a pass that is late for it.
RetriesKeepPace ==
  [][ LET spacing == IF reconnecting THEN RetryIntervalMs ELSE GraceMs
          since   == IF connected THEN 0 ELSE quiet
          turned  == reconnecting /\ Since(downSinceMs) < since
          turn    == IF turned THEN GraceMs + MaxLag - 1 ELSE 0
      IN  mode = "Sta" =>
            /\ since < spacing + turn + MaxLag
            /\ Pass /\ Reconnects => since >= spacing ]_vars

\* Comment in WifiManager::tick: the name is announced again when a link that
\* was down for the grace is back, on the pass that sees it, and for no blip.
AnnounceMatchesOutage ==
  [][ Pass /\ mode = "Sta" /\ up => (Announces <=> stale) ]_vars

\* #147: once the farm's network is back for good, and the power with it, the
\* box is found again and again: on the network or on its own access point.
NeverStranded == <>[]apUp /\ <>[][~Reset]_vars => []<>Reachable

\* Header of nightly_reboot.h: once a night, no loop of reboots within it,
\* although what tells of the last reboot is lost in it.
OncePerNight == [][NightlyReboot => ~rebooted]_vars

\* Header of wifi_manager.h: nothing here gates watering, the scheduler runs
\* off the flash and the local clock.  A box that had the time has it again
\* and again, the more so when the network is back for good.
LocalAutonomy == <>[]apUp => [](valid => []<>valid)
=============================================================================
