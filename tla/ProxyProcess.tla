------------------------------ MODULE ProxyProcess ------------------------------
(***************************************************************************)
(* The process around the servers (LocalProxy of src/proxy/proxy.js): its  *)
(* module variables tunnelServer and proxyServerInstance, which restarts   *)
(* replace, and config.json, which the admin page, restarts, the scan of   *)
(* updateDevices and the start of the process read and write.              *)
(*                                                                         *)
(* Requests of the admin page overlap as they come; no lock is taken.  An  *)
(* action is what runs between two awaits.  The servers of one kind share  *)
(* a port; a server is known by the restart that made it.                  *)
(*                                                                         *)
(* Of config.json, "settings" are the fields loadConfig carries over, and  *)
(* "login" those it drops or sets to a default: login_username,            *)
(* login_password, config_file, tunnel_padding.  0 is the default.         *)
(***************************************************************************)
EXTENDS Naturals, FiniteSets

CONSTANTS
  Restarts,    \* POST /api/restart
  Scans,       \* updateDevices, every two hours and on request
  Boot,        \* the start of the process, and the servers it makes
  Page,        \* the admin page
  None,
  MaxSaves,    \* bounds of the model: settings saved
  MaxScans     \* and scans

ASSUME ProcessAssumption ==
  /\ Boot \notin Restarts \cup Scans /\ None \notin Restarts \cup {Boot}
  /\ Page \notin Scans \cup {Boot}
  /\ Restarts \cap Scans = {}
  /\ IsFiniteSet(Restarts)
  /\ MaxSaves \in Nat /\ MaxScans \in Nat

Servers == Restarts \cup {Boot}

VARIABLES
  file,      \* config.json: settings, login, network_scanning_status, devices by scan
  read,      \* what the page, or a task that is to write it, has read of it
  kept,      \* what updateDevices has read at its start
  pc,        \* where a task waits
  scanned,   \* scans begun
  shorter,   \* for a restart that waits a second, the shorter waits it began in
  tunnel,    \* tunnelServer
  tunnels,   \* the tunnel servers
  proxy,     \* proxyServerInstance
  proxies,   \* the proxy servers
  conf,      \* the settings start has read, those its tunnel server runs with
  saved,     \* history: the settings last saved,
  staleRead, \* whose read somebody else has written after,
  staleKept, \* and whose kept copy,
  lost,      \* whether such a copy was written back,
  burst,     \* restarts begun since there last was none (a burst of three stays),
  fault      \* and whether one failed since a restart last began alone

copies == <<read, kept, staleRead, staleKept>>
config == <<file, copies, scanned, saved, lost>>
servers == <<tunnel, tunnels, proxy, proxies, conf>>
history == <<burst, fault>>
restarts == <<servers, history, shorter>>
vars == <<pc, config, restarts>>

Readers == Scans \cup {Boot, Page}

Restarting == {r \in Restarts : pc[r] \notin {"idle", "done", "failed"}}
Scanning == {u \in Scans : pc[u] # "idle"}

File == [settings : 0 .. MaxSaves, login : 0 .. MaxSaves, scanning : BOOLEAN,
         devices : SUBSET (1 .. MaxScans)]

Blank == [settings |-> 0, login |-> 0, scanning |-> FALSE, devices |-> {}]

Init ==
  /\ file = Blank
  /\ read = [t \in Readers |-> Blank] /\ kept = [u \in Scans |-> Blank]
  /\ saved = 0 /\ scanned = 0
  /\ staleRead = {} /\ staleKept = {} /\ lost = FALSE
  /\ pc = [t \in Servers \cup Scans |-> IF t = Boot THEN "up" ELSE "idle"]
  /\ shorter = [r \in Restarts |-> {}]
  /\ tunnel = Boot /\ proxy = Boot
  /\ tunnels = [s \in Servers |-> IF s = Boot THEN "up" ELSE "none"]
  /\ proxies = tunnels
  /\ conf = [s \in Servers |-> 0]
  /\ burst = 0 /\ fault = FALSE

GoesTo(t, where) == pc' = [pc EXCEPT ![t] = where]

\* Sessions take up to 500 ms to close, and timers fire in the order they are
\* due: a wait of a second outlasts the closings it finds begun.
Closing(r) == pc[r] \in {"stopping", "remaking"}
HasClosed(r) == [q \in Restarts |-> shorter[q] \ {r}]
Continues(r, where) == GoesTo(r, where) /\ shorter' = HasClosed(r)
WaitsASecond(r, where) ==
  /\ GoesTo(r, where)
  /\ shorter' = [HasClosed(r) EXCEPT ![r] = {q \in Restarts \ {r} : Closing(q)}]

------------------------------------------------------------------------------
(* Restarts *)

\* Faulty variant: the variable still names the server that was stopped.
StopTunnelNamed == tunnels' = [tunnels EXCEPT ![tunnel] = "down"] /\ UNCHANGED tunnel

\* closeTunnel: forgotten, and no longer listening; its sessions take up to 500 ms.
StopTunnel == tunnels' = [tunnels EXCEPT ![tunnel] = "down"] /\ tunnel' = None

\* ProxyServer.close does not wait; restart does, for a second.
CloseProxy(r) ==
  IF proxy = None
  THEN Continues(r, "loading") /\ UNCHANGED proxies
  ELSE WaitsASecond(r, "delay") /\ proxies' = [proxies EXCEPT ![proxy] = "down"]

\* restart
Restart(r) ==
  /\ pc[r] = "idle"
  /\ burst' = IF Restarting = {} /\ burst <= 2 THEN 1 ELSE burst + 1
  /\ fault' = (fault /\ Restarting # {})
  /\ IF tunnel # None
     THEN StopTunnel /\ Continues(r, "stopping") /\ UNCHANGED proxies
     ELSE CloseProxy(r) /\ UNCHANGED <<tunnel, tunnels>>
  /\ UNCHANGED <<config, proxy, conf>>

Stopped(r) ==
  /\ pc[r] = "stopping"
  /\ CloseProxy(r)
  /\ UNCHANGED <<config, tunnel, tunnels, proxy, conf, history>>

\* start: loadConfig
Load(r) ==
  /\ pc[r] \in {"delay", "loading"} /\ shorter[r] = {}
  /\ conf' = [conf EXCEPT ![r] = file.settings] /\ Continues(r, "loaded")
  /\ UNCHANGED <<config, tunnel, tunnels, proxy, proxies, history>>

\* A server starts to listen, or finds its port in use.
Listen(states, r) ==
  [states EXCEPT ![r] = IF \E s \in Servers : states[s] = "up" THEN "failed" ELSE "up"]

\* startProxyServer: a port in use is only logged.
LaunchProxy(r) ==
  /\ proxy' = r
  /\ proxies' = Listen(proxies, r)
  /\ Continues(r, "done")

\* start, with the tunnel up: a proxy that listens is closed first.
StartProxy(r) ==
  IF proxy # None /\ proxies[proxy] = "up"
  THEN proxies' = [proxies EXCEPT ![proxy] = "down"] /\ proxy' = None /\ WaitsASecond(r, "relaunch")
  ELSE LaunchProxy(r)

\* The rest of initTunnel: without a certificate it throws; the variable is
\* set before the port is found in use.
MakeTunnel(r) ==
  /\ UNCHANGED conf
  /\ \/ /\ Continues(r, "failed") /\ fault' = TRUE
        /\ UNCHANGED <<tunnel, tunnels, proxy, proxies, burst>>
     \/ /\ tunnel' = r
        /\ UNCHANGED history
        /\ tunnels' = Listen(tunnels, r)
        /\ IF tunnels'[r] = "failed"
           THEN Continues(r, "failed") /\ UNCHANGED <<proxy, proxies>>
           ELSE StartProxy(r)

\* Faulty variant: initTunnel does not look at what runs.
InitTunnelAnyway(r) == pc[r] = "loaded" /\ MakeTunnel(r) /\ UNCHANGED config

InitTunnel(r) ==
  /\ pc[r] = "loaded"
  /\ IF tunnel # None
     THEN /\ StopTunnel /\ Continues(r, "remaking")
          /\ UNCHANGED <<proxy, proxies, conf, history>>
     ELSE MakeTunnel(r)
  /\ UNCHANGED config

Remake(r) == pc[r] = "remaking" /\ MakeTunnel(r) /\ UNCHANGED config

Relaunch(r) ==
  /\ pc[r] = "relaunch" /\ shorter[r] = {}
  /\ LaunchProxy(r)
  /\ UNCHANGED <<config, tunnel, tunnels, conf, history>>

------------------------------------------------------------------------------
(* config.json.  Writes are synchronous, reads are awaited. *)

\* Who holds a copy that it may write back.
Holding == {Page} \cup {t \in Scans \cup {Boot} :
                         pc[t] \in {"asked", "marking", "clearing", "unawaited", "resetting"}}
Keeping == {u \in Scans : pc[u] \notin {"idle", "unawaited"}}

Reads(t) == read' = [read EXCEPT ![t] = file] /\ staleRead' = staleRead \ {t}
Forgets(t) == read' = [read EXCEPT ![t] = Blank]

\* t writes the file, from a copy that somebody else has written after or not.
Writes(t, new, stale) ==
  /\ file' = new
  /\ staleRead' = (staleRead \cup Holding) \ {t}
  /\ staleKept' = staleKept \cup (Keeping \ {t})
  /\ lost' = (lost \/ stale)

\* GET /api/config, or the read of operator.js.
OpenPage ==
  /\ Reads(Page)
  /\ UNCHANGED <<pc, file, kept, staleKept, scanned, saved, lost, restarts>>

\* POST /api/config or /api/config/import, or the write of operator.js: all of
\* the file is replaced.
Save ==
  /\ saved < MaxSaves
  /\ saved' = saved + 1
  /\ LET new == [[read[Page] EXCEPT !.settings = saved + 1] EXCEPT !.login = saved + 1] IN
       Writes(Page, new, Page \in staleRead) /\ read' = [read EXCEPT ![Page] = new]
  /\ UNCHANGED <<pc, kept, scanned, restarts>>

\* A readConfig that found the file half written writes back what it found in
\* the backup: the file as it once was, as somebody may have read it.
Restore ==
  /\ \E t \in Holding : Writes(t, read[t], t \in staleRead)
  /\ UNCHANGED <<pc, read, kept, scanned, saved, restarts>>

\* loadConfig: the login is not carried over.
Carried == [file EXCEPT !.login = 0]

\* updateDevices
UpdateDevices(u) ==
  /\ pc[u] = "idle" /\ scanned < MaxScans
  /\ scanned' = scanned + 1
  /\ kept' = [kept EXCEPT ![u] = Carried] /\ staleKept' = staleKept \ {u}
  /\ GoesTo(u, "asking")
  /\ UNCHANGED <<file, read, staleRead, saved, lost, restarts>>

\* scanNetwork: getScanStatus
GetScanStatus(u) ==
  /\ pc[u] = "asking"
  /\ Reads(u) /\ GoesTo(u, "asked")
  /\ UNCHANGED <<file, kept, staleKept, scanned, saved, lost, restarts>>

\* The write of updateDevices: what it read at its start, and the devices.
Merge(u, found) ==
  /\ Writes(u, [kept[u] EXCEPT !.devices = @ \cup found], u \in staleKept)
  /\ kept' = [kept EXCEPT ![u] = Blank]

\* Faulty variant: only what was found.
MergeFound(u, found) ==
  /\ Writes(u, [kept[u] EXCEPT !.devices = found], u \in staleKept)
  /\ kept' = [kept EXCEPT ![u] = Blank]

\* When a scan is said to run its last result is taken (tempDevices); else
\* setScanStatus reads the file again.
Decide(u) ==
  /\ pc[u] = "asked"
  /\ \/ /\ read[u].scanning
        /\ \E found \in {{}, {scanned}} : Merge(u, found)
        /\ GoesTo(u, "idle") /\ Forgets(u)
     \/ /\ ~read[u].scanning
        /\ Reads(u) /\ GoesTo(u, "marking") /\ UNCHANGED <<file, kept, staleKept, lost>>
  /\ UNCHANGED <<scanned, saved, restarts>>

\* The write of setScanStatus.
SetScanStatus(t, from, to, running) ==
  /\ pc[t] = from
  /\ Writes(t, [read[t] EXCEPT !.scanning = running], t \in staleRead)
  /\ GoesTo(t, to) /\ Forgets(t)
  /\ UNCHANGED <<kept, scanned, saved, restarts>>

\* doScan is over; setScanStatus reads.
ScanEnds(u) ==
  /\ pc[u] = "scanning"
  /\ Reads(u) /\ GoesTo(u, "clearing")
  /\ UNCHANGED <<file, kept, staleKept, scanned, saved, lost, restarts>>

\* doScan throws, or its arp command fails and the status is taken back first:
\* the devices are written back as they were while a setScanStatus nobody waits
\* for reads, before that write or after it.
ScanFails(u) ==
  /\ pc[u] \in {"scanning", "merging"}
  /\ Merge(u, {})
  /\ \E seen \in {file, file'} : read' = [read EXCEPT ![u] = seen]
  /\ GoesTo(u, "unawaited")
  /\ UNCHANGED <<scanned, saved, restarts>>

\* The end of updateDevices.
MergeDevices(u) ==
  /\ pc[u] = "merging"
  /\ Merge(u, {scanned}) /\ GoesTo(u, "idle") /\ Forgets(u)
  /\ UNCHANGED <<scanned, saved, restarts>>

------------------------------------------------------------------------------
(* The process dies, at any moment, and is started again.  Its servers and *)
(* tasks are gone; the file and the page in the browser are not.  init     *)
(* takes the scan status back without waiting for it.                      *)

\* Only the page's copy is still there, and that of init.
CopiesAreGone ==
  /\ read' = [t \in Readers |-> IF t = Page THEN read[Page] ELSE IF t = Boot THEN file ELSE Blank]
  /\ kept' = [u \in Scans |-> Blank]
  /\ staleRead' = staleRead \cap {Page} /\ staleKept' = {}

Reborn ==
  /\ tunnel' = Boot /\ proxy' = Boot
  /\ tunnels' = [s \in Servers |-> IF s = Boot THEN "up" ELSE "none"]
  /\ proxies' = tunnels'
  /\ conf' = [s \in Servers |-> IF s = Boot THEN file.settings ELSE 0]
  /\ shorter' = [r \in Restarts |-> {}]
  /\ burst' = 0 /\ fault' = FALSE

StartsAt(first) == pc' = [t \in Servers \cup Scans |-> IF t = Boot THEN first ELSE "idle"]

\* Faulty variant: init leaves the scan status as it is.
CrashUnreset ==
  CopiesAreGone /\ Reborn /\ StartsAt("up") /\ UNCHANGED <<file, scanned, saved, lost>>

Crash ==
  CopiesAreGone /\ Reborn /\ StartsAt("resetting") /\ UNCHANGED <<file, scanned, saved, lost>>

Next ==
  \/ \E r \in Restarts :
       Restart(r) \/ Stopped(r) \/ Load(r) \/ InitTunnel(r) \/ Remake(r) \/ Relaunch(r)
  \/ OpenPage \/ Save \/ Restore
  \/ Crash \/ SetScanStatus(Boot, "resetting", "up", FALSE)
  \/ \E u \in Scans :
       \/ UpdateDevices(u) \/ GetScanStatus(u) \/ Decide(u)
       \/ SetScanStatus(u, "marking", "scanning", TRUE)
       \/ ScanEnds(u) \/ ScanFails(u)
       \/ SetScanStatus(u, "clearing", "merging", FALSE)
       \/ SetScanStatus(u, "unawaited", "idle", FALSE)
       \/ MergeDevices(u)

Spec == Init /\ [][Next]_vars

------------------------------------------------------------------------------
(* Properties *)

(* Types; and tunnelServer never names a server that was stopped.          *)
TypeOK ==
  /\ file \in File /\ lost \in BOOLEAN
  /\ read \in [Readers -> File] /\ kept \in [Scans -> File]
  /\ staleRead \subseteq Readers /\ staleKept \subseteq Scans
  /\ shorter \in [Restarts -> SUBSET Restarts]
  /\ tunnel \in Servers \cup {None} /\ proxy \in Servers \cup {None}
  /\ tunnels \in [Servers -> {"none", "up", "down", "failed"}]
  /\ proxies \in [Servers -> {"none", "up", "down", "failed"}]
  /\ conf \in [Servers -> 0 .. MaxSaves] /\ saved \in 0 .. MaxSaves
  /\ scanned \in 0 .. MaxScans /\ burst \in 0 .. Cardinality(Restarts) /\ fault \in BOOLEAN
  /\ tunnel # None => tunnels[tunnel] \in {"up", "failed"}

(* What is saved stays, but for the login, which may be gone; devices are  *)
(* only added; and the scan status is taken back however a scan ends, a    *)
(* process that dies in one included.  All this until a copy that somebody *)
(* else has written after is written back: the code lets it be.            *)
ConfigSurvives ==
  ~lost =>
    /\ file.settings = saved /\ file.login \in {0, saved}
    /\ Scanning = {} /\ pc[Boot] = "up" => ~file.scanning
    /\ read[Page].devices \subseteq file.devices

Only(server, states) == {s \in Servers : states[s] = "up"} = {server}

(* Two overlapping restarts leave one tunnel and one proxy that listen,    *)
(* those the module variables name; and a restart that runs alone applies  *)
(* the settings it has read and repairs what a failed one left.  (Of three *)
(* in a chain the last proxy can be left listening with no name for it.)   *)
QuietIsSound ==
  Restarting = {} /\ ~fault /\ burst \in 1 .. 2 =>
    /\ tunnel # None /\ Only(tunnel, tunnels)
    /\ proxy # None /\ Only(proxy, proxies)
    /\ burst = 1 /\ ~lost =>
         \A r \in Restarts : pc[r] = "done" => conf[r] <= conf[tunnel]
==============================================================================
