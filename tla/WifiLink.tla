------------------------------ MODULE WifiLink ------------------------------
(***************************************************************************)
(* The Wi-Fi manager and its link monitor: the join at boot with its fall  *)
(* to an access point of the box's own, and afterwards the watch on the    *)
(* joined link, which asks for a reconnect when it stays down.  The radio  *)
(* is external: what it does is any of the actions under that heading.     *)
(* Instants are readings of the free-running millisecond counter and are   *)
(* subtracted modulo its range.                                            *)
(***************************************************************************)
EXTENDS Naturals

CONSTANTS
  GraceMs,          \* graceMs: down for this long before the first reconnect
  RetryIntervalMs,  \* retryIntervalMs: between reconnects
  STA_TIMEOUT_MS,   \* a join that takes this long is given up
  Wrap,             \* the range of millis()
  MaxLag            \* bound: the loop passes at least this often

ASSUME WifiLinkAssumption ==
  /\ GraceMs \in Nat /\ RetryIntervalMs \in Nat \ {0} /\ STA_TIMEOUT_MS \in Nat
  /\ Wrap \in Nat \ {0} /\ MaxLag \in Nat \ {0}
  /\ GraceMs + RetryIntervalMs + 2 * MaxLag < Wrap
  /\ STA_TIMEOUT_MS + MaxLag < Wrap

VARIABLES
  now,              \* millis()
  lag,              \* time since the loop's last pass
  mode, startMs,    \* mode_, startMs_
  reconnecting,     \* reconnecting_
  connected, downSinceMs, lastTryMs,   \* the monitor: connected_, downSinceMs_, lastTryMs_
  apUp,             \* the farm's network is in reach
  up,               \* WiFi.status() == WL_CONNECTED
  kicked,           \* an attempt to join is under way
  granted,          \* the credentials WiFi.begin was called with are the network's
  \* No code keeps these: how long the link has been seen down and how long
  \* since the last attempt (or since the drop), both up to QuietCap; a pass has
  \* seen it down for the grace since it was last seen up.
  downFor, quiet, stale

monitorVars == <<connected, downSinceMs, lastTryMs>>
managerVars == <<mode, startMs, reconnecting, monitorVars>>
radioVars == <<up, kicked>>
ghostVars == <<downFor, quiet, stale>>
linkVars == <<now, lag, managerVars, apUp, radioVars, granted, ghostVars>>

QuietCap == RetryIntervalMs + GraceMs + 2 * MaxLag

Instants == 0 .. Wrap - 1

LinkTypeOK ==
  /\ now \in Instants /\ lag \in 0 .. MaxLag
  /\ mode \in {"Connecting", "Sta", "SoftAp"} /\ startMs \in Instants
  /\ connected \in BOOLEAN /\ downSinceMs \in Instants /\ lastTryMs \in Instants
  /\ {reconnecting, apUp, up, kicked, granted, stale} \subseteq BOOLEAN
  /\ downFor \in 0 .. QuietCap /\ quiet \in 0 .. QuietCap

\* A member's initial values, and begin(): a box with a network's name stored
\* starts to join it, one without opens its own.
Begun(configured, right) ==
  /\ now = 0 /\ lag = 0 /\ startMs = 0
  /\ mode = IF configured THEN "Connecting" ELSE "SoftAp"
  /\ reconnecting = FALSE
  /\ connected = TRUE /\ downSinceMs = 0 /\ lastTryMs = 0
  /\ up = FALSE /\ kicked = configured /\ granted = right
  /\ downFor = 0 /\ quiet = 0 /\ stale = FALSE

Begin(configured, right) ==
  /\ now' = 0 /\ lag' = 0 /\ startMs' = 0
  /\ mode' = IF configured THEN "Connecting" ELSE "SoftAp"
  /\ reconnecting' = FALSE
  /\ connected' = TRUE /\ downSinceMs' = 0 /\ lastTryMs' = 0
  /\ up' = FALSE /\ kicked' = configured /\ granted' = right
  /\ downFor' = 0 /\ quiet' = 0 /\ stale' = FALSE

-----------------------------------------------------------------------------
(* WifiLinkMonitor                                                         *)

Since(t) == (now + Wrap - t) % Wrap

\* The baseline of the outage a pass sees, set on the pass that sees it first:
\* the first retry is to be eligible right after the grace.
DownSince == IF connected THEN now ELSE downSinceMs

LastTry_FromDrop == IF connected THEN now ELSE lastTryMs

LastTry == IF connected THEN (now + Wrap - RetryIntervalMs) % Wrap ELSE lastTryMs

Reconnects_Once ==
  ~up /\ ~reconnecting /\ Since(DownSince) >= GraceMs /\ Since(LastTry) >= RetryIntervalMs

Reconnects ==
  ~up /\ Since(DownSince) >= GraceMs /\ Since(LastTry) >= RetryIntervalMs

Update ==
  IF up THEN connected' = TRUE /\ UNCHANGED <<downSinceMs, lastTryMs>>
  ELSE /\ connected' = FALSE
       /\ downSinceMs' = DownSince
       /\ lastTryMs' = IF Reconnects THEN now ELSE LastTry

-----------------------------------------------------------------------------
(* WifiManager::tick                                                       *)

Announces_Always == mode = "Sta" /\ up /\ ~connected

\* startMdns on a link that was joined before.
Announces == mode = "Sta" /\ up /\ reconnecting

WatchJoin ==
  /\ mode = "Connecting"
  /\ IF up
     THEN /\ mode' = "Sta" /\ connected' = TRUE
          /\ UNCHANGED <<startMs, reconnecting, downSinceMs, lastTryMs, radioVars>>
     ELSE IF Since(startMs) >= STA_TIMEOUT_MS
     THEN /\ mode' = "SoftAp" /\ kicked' = FALSE
          /\ UNCHANGED <<up, startMs, reconnecting, monitorVars>>
     ELSE UNCHANGED <<managerVars, radioVars>>

WatchLink ==
  /\ mode = "Sta"
  /\ Update
  /\ reconnecting' = (Reconnects \/ (reconnecting /\ ~up))
  /\ kicked' = (kicked \/ Reconnects)
  /\ UNCHANGED <<mode, startMs, up>>

Capped(n) == IF n < QuietCap THEN n ELSE QuietCap

\* One pass's look at the Wi-Fi, and the ghosts with it.
WifiTick ==
  /\ \/ WatchJoin
     \/ WatchLink
     \/ mode = "SoftAp" /\ UNCHANGED <<managerVars, radioVars>>
  /\ lag' = 0
  /\ downFor' = IF mode' = "Sta" /\ ~up THEN downFor ELSE 0
  /\ quiet' = IF mode' = "Sta" /\ ~up /\ ~(mode = "Sta" /\ Reconnects)
              THEN IF connected THEN 0 ELSE quiet
              ELSE 0
  /\ stale' = (mode' = "Sta" /\ ~up /\ (stale \/ downFor >= GraceMs))
  /\ UNCHANGED <<now, apUp, granted>>

-----------------------------------------------------------------------------
(* The radio and the farm's network                                        *)

Elapse ==
  /\ lag < MaxLag
  /\ now' = (now + 1) % Wrap /\ lag' = lag + 1
  /\ downFor' = IF connected THEN 0 ELSE Capped(downFor + 1)
  /\ quiet' = IF connected THEN 0 ELSE Capped(quiet + 1)
  /\ UNCHANGED <<managerVars, apUp, radioVars, stale, granted>>

ApComes ==
  /\ ~apUp /\ apUp' = TRUE
  /\ UNCHANGED <<now, lag, managerVars, radioVars, ghostVars, granted>>

ApGoes ==
  /\ apUp /\ apUp' = FALSE /\ up' = FALSE
  /\ UNCHANGED <<now, lag, managerVars, kicked, ghostVars, granted>>

\* A hiccup that leaves the network where it was.
LinkDrops ==
  /\ up /\ up' = FALSE
  /\ UNCHANGED <<now, lag, managerVars, apUp, kicked, ghostVars, granted>>

\* The attempt under way finds the network.
Associates ==
  /\ kicked /\ apUp /\ granted
  /\ up' = TRUE /\ kicked' = FALSE
  /\ UNCHANGED <<now, lag, managerVars, apUp, ghostVars, granted>>

\* It comes to nothing.
Wedges ==
  /\ kicked /\ kicked' = FALSE
  /\ UNCHANGED <<now, lag, managerVars, apUp, up, ghostVars, granted>>

\* setAutoReconnect: the radio may also find back unasked.
SelfHeals ==
  /\ mode # "SoftAp" /\ ~up /\ apUp /\ granted
  /\ up' = TRUE /\ kicked' = FALSE
  /\ UNCHANGED <<now, lag, managerVars, apUp, ghostVars, granted>>
=============================================================================
