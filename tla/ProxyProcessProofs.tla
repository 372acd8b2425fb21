--------------------------- MODULE ProxyProcessProofs ---------------------------
(***************************************************************************)
(* Proofs about module ProxyProcess, for any restarts, scans and saves.    *)
(***************************************************************************)
EXTENDS ProxyProcess, FiniteSetTheorems, TLAPS

-------------------------------------------------------------------------------
(* The invariants                                                          *)

RestartPlaces == {"idle", "stopping", "delay", "loading", "loaded", "remaking",
                  "relaunch", "done", "failed"}
ScanPlaces == {"idle", "asking", "asked", "marking", "scanning", "clearing",
               "merging", "unawaited"}
BootPlaces == {"resetting", "up"}
States == {"none", "up", "down", "failed"}

(* Types of the file and its readers, and of where a task waits.           *)
FileTypes ==
  /\ file \in File /\ lost \in BOOLEAN
  /\ read \in [Readers -> File] /\ kept \in [Scans -> File]
  /\ staleRead \subseteq Readers /\ staleKept \subseteq Scans
  /\ saved \in 0 .. MaxSaves /\ scanned \in 0 .. MaxScans
  /\ Scanning # {} => scanned > 0

Places ==
  /\ pc \in [Servers \cup Scans -> RestartPlaces \cup ScanPlaces \cup BootPlaces]
  /\ \A r \in Restarts : pc[r] \in RestartPlaces
  /\ \A u \in Scans : pc[u] \in ScanPlaces
  /\ pc[Boot] \in BootPlaces

ServerTypes ==
  /\ shorter \in [Restarts -> SUBSET Restarts]
  /\ tunnel \in Servers \cup {None} /\ proxy \in Servers \cup {None}
  /\ tunnels \in [Servers -> States]
  /\ proxies \in [Servers -> States]
  /\ conf \in [Servers -> 0 .. MaxSaves]
  /\ fault \in BOOLEAN
  /\ tunnel # None => tunnels[tunnel] \in {"up", "failed"}

(* A burst is of restarts that have begun.                                 *)
Begun == {r \in Restarts : pc[r] # "idle"}
BurstIsBegun == burst \in 0 .. Cardinality(Begun)

(* The scan status is set only while somebody is still to take it back;    *)
(* and who does so makes every other copy stale.                           *)
Ending == {"scanning", "clearing", "unawaited"}
TakenBack(S) == pc[Boot] = "resetting" \/ \E v \in S : pc[v] \in Ending

(* What a copy nobody has written after holds of the file.                 *)
CopyOf(f, g, n) == f.settings = n /\ f.login \in {0, n} /\ f.devices = g.devices

UntilLost ==
  ~lost =>
    /\ file.settings = saved /\ file.login \in {0, saved}
    /\ file.scanning => TakenBack(Scans)
    /\ read[Page].devices \subseteq file.devices
    /\ Page \notin staleRead => read[Page] = file
    /\ \A t \in Holding \ staleRead :
         CopyOf(read[t], file, saved) /\ (read[t].scanning => TakenBack(Scans))
    /\ \A u \in Keeping \ staleKept :
         CopyOf(kept[u], file, saved) /\ (kept[u].scanning => TakenBack(Scans \ {u}))

Before == {"stopping", "delay", "loading", "loaded"}

(* Of restarts that are alone or two: no server listens but the one the    *)
(* module variable names, so no port is found in use; the first of two to  *)
(* make its tunnel finds neither tunnel nor proxy; and the other is alone  *)
(* when it takes that tunnel down again.                                   *)
Named ==
  /\ \A s \in Servers : tunnels[s] = "up" => tunnel = s
  /\ \A s \in Servers : proxies[s] = "up" => proxy = s
  /\ proxy = None => \E r \in Restarts : pc[r] = "relaunch"

OneOrTwo ==
  /\ burst = 0 => Restarting = {}
  /\ \A o, q, r \in Restarting : o = q \/ o = r \/ q = r
  /\ \A r \in Restarts :
       /\ pc[r] = "remaking" => tunnel = None /\ Restarting = {r}
       /\ pc[r] = "relaunch" => /\ proxy = None /\ Restarting = {r}
                                /\ tunnel # None /\ tunnels[tunnel] = "up"
  /\ \A r, q \in Restarting : r # q =>
       /\ burst = 2
       /\ tunnel = None /\ proxies[proxy] # "up"
       /\ pc[r] \in Before
  /\ burst = 1 => \A r \in Restarting :
       /\ tunnel = None /\ pc[r] \in Before
       /\ pc[r] # "stopping" => proxies[proxy] # "up"

QuietRuns ==
  Restarting = {} /\ ~fault =>
    /\ tunnel # None /\ tunnels[tunnel] = "up"
    /\ proxy # None /\ proxies[proxy] = "up"

(* A restart that runs alone has read the newest settings of all servers.  *)
Newest ==
  ~lost =>
    /\ \A s \in Servers : conf[s] <= saved
    /\ burst = 1 => \A r \in Restarting :
         pc[r] = "loaded" => \A s \in Servers : conf[s] <= conf[r]
    /\ burst = 1 /\ Restarting = {} /\ ~fault => \A s \in Servers : conf[s] <= conf[tunnel]

Sound == burst <= 2 => Named /\ OneOrTwo /\ QuietRuns /\ Newest

IInv == FileTypes /\ Places /\ ServerTypes /\ BurstIsBegun /\ UntilLost /\ Sound

-------------------------------------------------------------------------------
(* A task goes on                                                          *)

LEMMA RestartMoves ==
  ASSUME Places, NEW r \in Restarts, NEW w \in RestartPlaces, GoesTo(r, w)
  PROVE  /\ Places' /\ pc'[r] = w
         /\ \A q \in Restarts : q # r => pc'[q] = pc[q]
         /\ \A u \in Scans \cup {Boot} : pc'[u] = pc[u]
         /\ Scanning' = Scanning /\ Holding' = Holding /\ Keeping' = Keeping
         /\ w \in {"idle", "done", "failed"} => Restarting' = Restarting \ {r}
         /\ w \notin {"idle", "done", "failed"} => Restarting' = Restarting \cup {r}
<1>1. /\ pc' \in [Servers \cup Scans -> RestartPlaces \cup ScanPlaces \cup BootPlaces] /\ pc'[r] = w
      /\ \A t \in Servers \cup Scans : t # r => pc'[t] = pc[t]
      /\ r \notin Scans /\ r # Boot
  BY ProcessAssumption DEF Places, GoesTo, Servers
<1>2. Places'
  BY <1>1 DEF Places, Servers
<1>3. Scanning' = Scanning /\ Holding' = Holding /\ Keeping' = Keeping
  BY <1>1 DEF Scanning, Holding, Keeping, Servers
<1>4. /\ w \in {"idle", "done", "failed"} => Restarting' = Restarting \ {r}
      /\ w \notin {"idle", "done", "failed"} => Restarting' = Restarting \cup {r}
  BY <1>1 DEF Restarting, Servers
<1> QED BY <1>1, <1>2, <1>3, <1>4 DEF Servers

LEMMA TaskMoves ==
  ASSUME Places, NEW t \in Scans \cup {Boot}, NEW w, GoesTo(t, w),
         (t \in Scans /\ w \in ScanPlaces) \/ (t = Boot /\ w \in BootPlaces)
  PROVE  /\ Places' /\ pc'[t] = w
         /\ \A r \in Restarts : pc'[r] = pc[r]
         /\ \A v \in Scans \cup {Boot} : v # t => pc'[v] = pc[v]
         /\ Restarting' = Restarting /\ Begun' = Begun
         /\ Scanning' \subseteq Scanning \cup {t} /\ (t = Boot => Scanning' = Scanning)
<1>1. /\ pc' \in [Servers \cup Scans -> RestartPlaces \cup ScanPlaces \cup BootPlaces] /\ pc'[t] = w
      /\ \A v \in Servers \cup Scans : v # t => pc'[v] = pc[v]
      /\ t \notin Restarts /\ Boot \notin Scans
  BY ProcessAssumption DEF Places, GoesTo, Servers
<1>2. Places'
  BY <1>1 DEF Places, Servers
<1>3. Restarting' = Restarting /\ Begun' = Begun
  BY <1>1 DEF Restarting, Begun, Servers
<1>4. Scanning' \subseteq Scanning \cup {t} /\ (t = Boot => Scanning' = Scanning)
  BY <1>1 DEF Scanning, Servers
<1> QED BY <1>1, <1>2, <1>3, <1>4 DEF Servers

-------------------------------------------------------------------------------
(* The file                                                                *)

(* What writes put in place of a field.                                    *)
LEMMA FileWrites ==
  ASSUME NEW f \in File
  PROVE  /\ \A n \in 0 .. MaxSaves :
              LET g == [f EXCEPT !.settings = n] IN
              /\ g \in File /\ g.settings = n /\ g.login = f.login
              /\ g.scanning = f.scanning /\ g.devices = f.devices
         /\ \A n \in 0 .. MaxSaves :
              LET g == [f EXCEPT !.login = n] IN
              /\ g \in File /\ g.settings = f.settings /\ g.login = n
              /\ g.scanning = f.scanning /\ g.devices = f.devices
         /\ \A b \in BOOLEAN :
              LET g == [f EXCEPT !.scanning = b] IN
              /\ g \in File /\ g.scanning = b /\ g.login = f.login
              /\ g.settings = f.settings /\ g.devices = f.devices
         /\ \A D \in SUBSET (1 .. MaxScans) :
              LET g == [f EXCEPT !.devices = @ \cup D] IN
              /\ g \in File /\ g.devices = f.devices \cup D /\ g.login = f.login
              /\ g.settings = f.settings /\ g.scanning = f.scanning
BY DEF File

LEMMA BlankIsFile == Blank \in File
BY ProcessAssumption DEF Blank, File

FileInv == FileTypes /\ Places /\ UntilLost

(* After a write only the writer's copies may not be stale.                *)
LEMMA OnlyOwn ==
  ASSUME FileInv, NEW t \in Readers, NEW new, NEW stale \in BOOLEAN, Writes(t, new, stale),
         \A v \in Scans \cup {Boot} : v # t => pc'[v] = pc[v]
  PROVE  /\ staleRead' \subseteq Readers /\ staleKept' \subseteq Scans
         /\ lost' \in BOOLEAN /\ (~lost' => ~lost /\ ~stale)
         /\ Holding' \ staleRead' \subseteq {t}
         /\ Keeping' \ staleKept' \subseteq {t}
         /\ t # Page => Page \in staleRead'
         /\ t \in Keeping \ staleKept => t \notin staleKept'
         /\ t \in staleKept => t \in staleKept'
BY DEF FileInv, FileTypes, Writes, Holding, Keeping, Readers

(* OpenPage, Save and Restore.                                             *)
LEMMA OpenPageHolds == ASSUME FileInv, OpenPage PROVE FileInv'
<1>1. /\ pc' = pc /\ file' = file /\ lost' = lost /\ saved' = saved
      /\ kept' = kept /\ staleKept' = staleKept /\ scanned' = scanned
      /\ read' = [read EXCEPT ![Page] = file] /\ staleRead' = staleRead \ {Page}
  BY DEF OpenPage, Reads
<1>2. /\ read' \in [Readers -> File] /\ read'[Page] = file
      /\ \A t \in Readers \ {Page} : read'[t] = read[t]
  BY <1>1 DEF FileInv, FileTypes, Readers
<1>3. Scanning' = Scanning /\ Holding' = Holding /\ Keeping' = Keeping /\ Places'
  BY <1>1 DEF FileInv, Scanning, Holding, Keeping, Places
<1>4. FileTypes'
  BY <1>1, <1>2, <1>3 DEF FileInv, FileTypes
<1>5. UntilLost'
  <2> SUFFICES ASSUME ~lost PROVE UntilLost'
    BY <1>1 DEF UntilLost
  <2>1. Holding \subseteq Readers
    BY DEF Holding, Readers
  <2>2. \A t \in Holding' \ staleRead' :
          CopyOf(read'[t], file, saved) /\ (read'[t].scanning => TakenBack(Scans))
    BY <1>1, <1>2, <1>3, <2>1 DEF FileInv, UntilLost, CopyOf
  <2> QED BY <1>1, <1>2, <1>3, <2>2 DEF FileInv, UntilLost, CopyOf, TakenBack
<1> QED BY <1>3, <1>4, <1>5 DEF FileInv

LEMMA PageHolds ==
  ASSUME FileInv, Save PROVE FileInv'
<1>1. saved + 1 \in 0 .. MaxSaves /\ saved' = saved + 1
  BY ProcessAssumption DEF Save, FileInv, FileTypes
<1>2. PICK new : /\ new = [[read[Page] EXCEPT !.settings = saved + 1] EXCEPT !.login = saved + 1]
                 /\ Writes(Page, new, Page \in staleRead) /\ read' = [read EXCEPT ![Page] = new]
  BY DEF Save
<1>3. read[Page] \in File
  BY DEF FileInv, FileTypes, Readers
<1>4. PICK mid \in File : /\ mid = [read[Page] EXCEPT !.settings = saved + 1]
                          /\ mid.settings = saved + 1 /\ mid.devices = read[Page].devices
                          /\ mid.scanning = read[Page].scanning
  <2> DEFINE g == [read[Page] EXCEPT !.settings = saved + 1]
  <2>1. g \in File /\ g.settings = saved + 1 /\ g.devices = read[Page].devices
        /\ g.scanning = read[Page].scanning
    BY <1>1, <1>3, FileWrites
  <2> QED BY <2>1
<1>5. /\ new \in File /\ new.settings = saved' /\ new.login = saved'
      /\ new.scanning = read[Page].scanning /\ new.devices = read[Page].devices
  <2>1. new = [mid EXCEPT !.login = saved + 1]
    BY <1>2, <1>4
  <2>2. /\ new \in File /\ new.settings = mid.settings /\ new.login = saved + 1
        /\ new.scanning = mid.scanning /\ new.devices = mid.devices
    BY <1>1, <2>1, FileWrites
  <2> QED BY <1>1, <1>4, <2>2
<1>6. pc' = pc /\ kept' = kept /\ scanned' = scanned /\ Places'
  BY DEF FileInv, Save, Places
<1>7. Scanning' = Scanning
  BY <1>6 DEF Scanning
<1>8. Page \in Readers /\ Page \notin Scans
  BY ProcessAssumption DEF Readers
<1>9. /\ staleRead' \subseteq Readers /\ staleKept' \subseteq Scans
      /\ lost' \in BOOLEAN /\ (~lost' => ~lost /\ Page \notin staleRead)
      /\ Holding' \ staleRead' \subseteq {Page} /\ Keeping' \ staleKept' \subseteq {Page}
  <2>1. PICK b \in BOOLEAN : b <=> Page \in staleRead
    OBVIOUS
  <2>2. Writes(Page, new, b)
    BY <1>2, <2>1 DEF Writes
  <2>3. \A v \in Scans \cup {Boot} : v # Page => pc'[v] = pc[v]
    BY <1>6
  <2> QED BY <1>8, <2>1, <2>2, <2>3, OnlyOwn
<1>10. file' = new /\ read'[Page] = new /\ read' \in [Readers -> File]
  BY <1>2, <1>5, <1>8 DEF Writes, FileInv, FileTypes
<1>11. FileTypes'
  BY <1>1, <1>5, <1>6, <1>7, <1>9, <1>10 DEF FileInv, FileTypes
<1>12. UntilLost'
  <2> SUFFICES ASSUME ~lost' PROVE UntilLost'
    BY DEF UntilLost
  <2>1. read[Page] = file /\ (file.scanning => TakenBack(Scans))
    BY <1>9 DEF FileInv, UntilLost
  <2>2. new.scanning => TakenBack(Scans)'
    BY <1>5, <1>6, <2>1 DEF TakenBack
  <2>3. Keeping' \ staleKept' = {}
    BY <1>8, <1>9 DEF Keeping
  <2> QED BY <1>5, <1>9, <1>10, <2>2, <2>3 DEF UntilLost, CopyOf
<1> QED BY <1>6, <1>11, <1>12 DEF FileInv

LEMMA RestoreHolds == ASSUME FileInv, Restore PROVE FileInv'
<1>1. PICK t \in Holding : Writes(t, read[t], t \in staleRead)
  BY DEF Restore
<1>2. pc' = pc /\ read' = read /\ kept' = kept /\ scanned' = scanned /\ saved' = saved /\ Places'
  BY DEF FileInv, Restore, Places
<1>3. Scanning' = Scanning /\ Holding' = Holding /\ Keeping' = Keeping
  BY <1>2 DEF Scanning, Holding, Keeping
<1>4. t \in Readers /\ read[t] \in File
  BY DEF Holding, Readers, FileInv, FileTypes
<1>5. /\ staleRead' \subseteq Readers /\ staleKept' \subseteq Scans
      /\ lost' \in BOOLEAN /\ (~lost' => ~lost /\ t \notin staleRead)
      /\ Holding' \ staleRead' \subseteq {t} /\ Keeping' \ staleKept' \subseteq {t}
      /\ (t # Page => Page \in staleRead') /\ (t \in staleKept => t \in staleKept')
  <2>1. PICK b \in BOOLEAN : b <=> t \in staleRead
    OBVIOUS
  <2>2. Writes(t, read[t], b)
    BY <1>1, <2>1 DEF Writes
  <2>3. \A v \in Scans \cup {Boot} : v # t => pc'[v] = pc[v]
    BY <1>2
  <2> QED BY <1>4, <2>1, <2>2, <2>3, OnlyOwn
<1>6. file' = read[t]
  BY <1>1 DEF Writes
<1>7. FileTypes'
  BY <1>2, <1>3, <1>4, <1>5, <1>6 DEF FileInv, FileTypes
<1>8. UntilLost'
  <2> SUFFICES ASSUME ~lost' PROVE UntilLost'
    BY DEF UntilLost
  <2>1. ~lost /\ t \in Holding \ staleRead
    BY <1>5
  <2>2. CopyOf(read[t], file, saved) /\ (read[t].scanning => TakenBack(Scans))
    BY <2>1 DEF FileInv, UntilLost
  <2>3. \A S : TakenBack(S)' <=> TakenBack(S)
    BY <1>2 DEF TakenBack
  <2>4. \A f : CopyOf(f, file', saved') <=> CopyOf(f, file, saved)
    BY <1>2, <1>6, <2>2 DEF CopyOf
  <2>5. \A s \in Holding' \ staleRead' :
          CopyOf(read'[s], file', saved') /\ (read'[s].scanning => TakenBack(Scans)')
    BY <1>2, <1>5, <2>2, <2>3, <2>4
  <2>6. \A u \in Keeping' \ staleKept' :
          CopyOf(kept'[u], file', saved') /\ (kept'[u].scanning => TakenBack(Scans \ {u})')
    <3>1. \A u \in Keeping' \ staleKept' : u \in Keeping \ staleKept
      BY <1>3, <1>5
    <3> QED BY <1>2, <2>1, <2>3, <2>4, <3>1 DEF FileInv, UntilLost
  <2>7. /\ read'[Page].devices \subseteq file'.devices
        /\ Page \notin staleRead' => read'[Page] = file'
    BY <1>2, <1>5, <1>6, <2>1, <2>2 DEF FileInv, UntilLost, CopyOf
  <2>8. file'.settings = saved' /\ file'.login \in {0, saved'}
    BY <1>2, <1>6, <2>2 DEF CopyOf
  <2>9. file'.scanning => TakenBack(Scans)'
    BY <1>6, <2>2, <2>3
  <2> QED BY <2>5, <2>6, <2>7, <2>8, <2>9 DEF UntilLost
<1> QED BY <1>2, <1>7, <1>8 DEF FileInv

(* A scan writes the file: what it leaves when its copy was not stale.     *)
LEMMA WriteHolds ==
  ASSUME FileInv, NEW t \in Scans \cup {Boot}, NEW w, GoesTo(t, w),
         (t \in Scanning /\ w \in ScanPlaces) \/ (t = Boot /\ w \in BootPlaces),
         NEW new \in File, NEW stale \in BOOLEAN, Writes(t, new, stale),
         UNCHANGED <<scanned, saved>>,
         read' \in [Readers -> File], read'[Page] = read[Page],
         kept' \in [Scans -> File],
         ~lost /\ ~stale =>
           /\ new.settings = saved /\ new.login \in {0, saved}
           /\ file.devices \subseteq new.devices
           /\ new.scanning => TakenBack(Scans)'
           /\ t \in Holding' => /\ CopyOf(read'[t], file', saved')
                                /\ read'[t].scanning => TakenBack(Scans)'
           /\ t \in Keeping' => /\ t \in Keeping /\ kept' = kept
                                /\ new.devices = file.devices
  PROVE  FileInv'
<1>1. t \in Readers /\ t # Page /\ Boot \notin Scans /\ Scanning \subseteq Scans
  BY ProcessAssumption DEF Readers, Scanning
<1>2. /\ Places' /\ Scanning' \subseteq Scanning \cup {t} /\ (t = Boot => Scanning' = Scanning)
      /\ \A v \in Scans \cup {Boot} : v # t => pc'[v] = pc[v]
  BY <1>1, TaskMoves DEF FileInv
<1>3. /\ staleRead' \subseteq Readers /\ staleKept' \subseteq Scans
      /\ lost' \in BOOLEAN /\ (~lost' => ~lost /\ ~stale)
      /\ Holding' \ staleRead' \subseteq {t} /\ Keeping' \ staleKept' \subseteq {t}
      /\ Page \in staleRead' /\ (t \in staleKept => t \in staleKept')
  BY <1>1, <1>2, OnlyOwn
<1>4. file' = new
  BY DEF Writes
<1>5. FileTypes'
  <2>1. Scanning' # {} => scanned > 0
    BY <1>1, <1>2 DEF FileInv, FileTypes
  <2> QED BY <1>3, <1>4, <2>1 DEF FileInv, FileTypes
<1>6. UntilLost'
  <2> SUFFICES ASSUME ~lost' PROVE UntilLost'
    BY DEF UntilLost
  <2>1. ~lost /\ ~stale
    BY <1>3
  <2>2. \A s \in Holding' \ staleRead' :
          CopyOf(read'[s], file', saved') /\ (read'[s].scanning => TakenBack(Scans)')
    BY <1>3, <2>1
  <2>3. \A u \in Keeping' \ staleKept' :
          CopyOf(kept'[u], file', saved') /\ (kept'[u].scanning => TakenBack(Scans \ {u})')
    <3> SUFFICES ASSUME NEW u \in Keeping' \ staleKept'
                 PROVE  CopyOf(kept'[u], file', saved') /\ (kept'[u].scanning => TakenBack(Scans \ {u})')
      OBVIOUS
    <3>1. u = t /\ t \in Keeping \ staleKept /\ kept' = kept /\ new.devices = file.devices
      BY <1>3, <2>1
    <3>2. CopyOf(kept[t], file, saved) /\ (kept[t].scanning => TakenBack(Scans \ {t})) /\ t \in Scans
      BY <2>1, <3>1 DEF FileInv, UntilLost, Keeping
    <3>3. TakenBack(Scans \ {t}) => TakenBack(Scans \ {t})'
      BY <1>1, <1>2, <3>2 DEF TakenBack
    <3>4. CopyOf(kept[t], file', saved')
      BY <1>4, <3>1, <3>2 DEF CopyOf
    <3> QED BY <3>1, <3>2, <3>3, <3>4
  <2>4. read'[Page].devices \subseteq file'.devices
    BY <1>4, <2>1 DEF FileInv, UntilLost
  <2> QED BY <1>3, <1>4, <2>1, <2>2, <2>3, <2>4 DEF UntilLost
<1> QED BY <1>2, <1>5, <1>6 DEF FileInv

LEMMA MergeHolds ==
  ASSUME FileInv, NEW u \in Scanning, NEW w \in {"idle", "unawaited"}, GoesTo(u, w),
         pc[u] # "unawaited", NEW D \in SUBSET (1 .. MaxScans), Merge(u, D),
         UNCHANGED <<scanned, saved>>,
         \/ w = "idle" /\ Forgets(u)
         \/ /\ w = "unawaited" /\ pc[u] \in Ending \cup {"merging"} /\ D = {}
            /\ \E seen \in {file, file'} : read' = [read EXCEPT ![u] = seen]
  PROVE  FileInv'
<1>1. u \in Scans /\ u \in Readers /\ u # Page /\ u \in Keeping /\ u # Boot
  BY ProcessAssumption DEF Scanning, Keeping, Readers
<1>2. kept[u] \in File /\ file \in File /\ read \in [Readers -> File] /\ kept \in [Scans -> File]
  BY <1>1 DEF FileInv, FileTypes
<1>3. PICK new \in File :
        /\ new = [kept[u] EXCEPT !.devices = @ \cup D]
        /\ new.devices = kept[u].devices \cup D /\ new.login = kept[u].login
        /\ new.settings = kept[u].settings /\ new.scanning = kept[u].scanning
  <2> DEFINE g == [kept[u] EXCEPT !.devices = @ \cup D]
  <2>1. /\ g \in File /\ g.devices = kept[u].devices \cup D /\ g.login = kept[u].login
        /\ g.settings = kept[u].settings /\ g.scanning = kept[u].scanning
    BY <1>2, FileWrites
  <2> QED BY <2>1
<1>4. /\ Writes(u, new, u \in staleKept) /\ file' = new
      /\ kept' = [kept EXCEPT ![u] = Blank]
  BY <1>3 DEF Merge, Writes
<1>5. kept' \in [Scans -> File]
  BY <1>1, <1>2, <1>4, BlankIsFile
<1>6. /\ Places' /\ pc'[u] = w /\ \A v \in Scans \cup {Boot} : v # u => pc'[v] = pc[v]
  BY <1>1, TaskMoves DEF FileInv, ScanPlaces
<1>7. u \notin Keeping' /\ (u \in Holding' => w = "unawaited")
  BY <1>1, <1>6 DEF Keeping, Holding
<1>8. PICK seen \in File : /\ read' = [read EXCEPT ![u] = seen]
                           /\ w = "unawaited" => seen \in {file, new} /\ D = {}
  BY <1>2, <1>4, BlankIsFile DEF Forgets
<1>9. read' \in [Readers -> File] /\ read'[u] = seen /\ read'[Page] = read[Page]
  BY <1>1, <1>2, <1>8 DEF Readers
<1>10. ASSUME ~lost, u \notin staleKept
       PROVE  /\ new.settings = saved /\ new.login \in {0, saved}
              /\ file.devices \subseteq new.devices
              /\ new.scanning => TakenBack(Scans)'
              /\ u \in Holding' => /\ CopyOf(read'[u], file', saved')
                                   /\ read'[u].scanning => TakenBack(Scans)'
  <2>1. CopyOf(kept[u], file, saved) /\ (kept[u].scanning => TakenBack(Scans \ {u}))
    BY <1>1, <1>10 DEF FileInv, UntilLost
  <2>2. new.settings = saved /\ new.login \in {0, saved} /\ new.devices = file.devices \cup D
    BY <1>3, <2>1 DEF CopyOf
  <2>3. new.scanning => TakenBack(Scans)'
    BY <1>3, <1>6, <1>1, <2>1 DEF TakenBack
  <2>4. ASSUME w = "unawaited" PROVE CopyOf(seen, file', saved') /\ (seen.scanning => TakenBack(Scans)')
    <3>1. TakenBack(Scans)'
      BY <1>1, <1>6, <2>4 DEF TakenBack, Ending
    <3>2. new.devices = file.devices
      BY <1>8, <2>2, <2>4
    <3>3. CopyOf(seen, file', saved')
      BY <1>4, <1>8, <1>10, <2>2, <2>4, <3>2 DEF CopyOf, FileInv, UntilLost
    <3> QED BY <3>1, <3>3
  <2> QED BY <1>7, <1>9, <2>2, <2>3, <2>4
<1>11. PICK b \in BOOLEAN : b <=> u \in staleKept
  OBVIOUS
<1>12. w \in ScanPlaces /\ Writes(u, new, b)
  BY <1>4, <1>11 DEF ScanPlaces, Writes
<1> QED BY <1>1, <1>5, <1>7, <1>9, <1>10, <1>11, <1>12, WriteHolds

LEMMA SetScanStatusHolds ==
  ASSUME FileInv, NEW t \in Scans \cup {Boot}, NEW from, NEW to, NEW running \in BOOLEAN,
         SetScanStatus(t, from, to, running),
         \/ t \in Scans /\ from = "marking" /\ to = "scanning"
         \/ t \in Scans /\ from = "clearing" /\ to = "merging" /\ ~running
         \/ t \in Scans /\ from = "unawaited" /\ to = "idle" /\ ~running
         \/ t = Boot /\ from = "resetting" /\ to = "up" /\ ~running
  PROVE  FileInv'
<1>1. t \in Readers /\ t # Page /\ t \in Holding /\ pc[t] = from
  BY ProcessAssumption DEF SetScanStatus, Readers, Holding
<1>2. (t \in Scanning /\ to \in ScanPlaces) \/ (t = Boot /\ to \in BootPlaces)
  BY <1>1 DEF Scanning, ScanPlaces, BootPlaces
<1>3. read[t] \in File /\ read \in [Readers -> File] /\ kept \in [Scans -> File]
  BY <1>1 DEF FileInv, FileTypes
<1>4. PICK new \in File :
        /\ new = [read[t] EXCEPT !.scanning = running]
        /\ new.scanning = running /\ new.login = read[t].login
        /\ new.settings = read[t].settings /\ new.devices = read[t].devices
  <2> DEFINE g == [read[t] EXCEPT !.scanning = running]
  <2>1. /\ g \in File /\ g.scanning = running /\ g.login = read[t].login
        /\ g.settings = read[t].settings /\ g.devices = read[t].devices
    BY <1>3, FileWrites
  <2> QED BY <2>1
<1>5. /\ Writes(t, new, t \in staleRead) /\ file' = new /\ GoesTo(t, to)
      /\ read' = [read EXCEPT ![t] = Blank] /\ kept' = kept /\ UNCHANGED <<scanned, saved>>
  BY <1>4 DEF SetScanStatus, Writes, Forgets
<1>6. read' \in [Readers -> File] /\ read'[Page] = read[Page]
  BY <1>1, <1>3, <1>5, BlankIsFile DEF Readers
<1>7. /\ Places' /\ pc'[t] = to
  BY <1>2, <1>5, TaskMoves DEF FileInv, Scanning
<1>8. t \notin Holding' /\ (t \in Keeping' => t \in Keeping)
  <2>1. t \notin Holding'
    BY <1>1, <1>7 DEF Holding
  <2>2. t \in Keeping' => t \in Keeping
    BY <1>1, <1>7, ProcessAssumption DEF Keeping
  <2> QED BY <2>1, <2>2
<1>9. ASSUME ~lost, t \notin staleRead
      PROVE  /\ new.settings = saved /\ new.login \in {0, saved}
             /\ new.devices = file.devices
             /\ new.scanning => TakenBack(Scans)'
  <2>1. CopyOf(read[t], file, saved)
    BY <1>1, <1>9 DEF FileInv, UntilLost
  <2>2. running => to = "scanning" /\ t \in Scans
    OBVIOUS
  <2> QED BY <1>4, <1>7, <2>1, <2>2 DEF CopyOf, TakenBack, Ending
<1>10. PICK b \in BOOLEAN : b <=> t \in staleRead
  OBVIOUS
<1>11. Writes(t, new, b)
  BY <1>5, <1>10 DEF Writes
<1> QED BY <1>2, <1>3, <1>5, <1>11, <1>6, <1>8, <1>9, <1>10, WriteHolds

(* A scan reads the file.                                                  *)
LEMMA ReadHolds ==
  ASSUME FileInv, NEW u \in Scanning, NEW w \in {"asked", "marking", "clearing"}, GoesTo(u, w),
         pc[u] \in {"asking", "asked", "scanning"}, pc[u] \in Ending => w \in Ending,
         UNCHANGED <<file, kept, staleKept, scanned, saved, lost>>, Reads(u)
  PROVE  FileInv'
<1>1. u \in Scans /\ u \in Readers /\ u # Page /\ w \in ScanPlaces
  BY ProcessAssumption DEF Scanning, Readers, ScanPlaces
<1>2. /\ read' \in [Readers -> File] /\ read'[u] = file
      /\ \A t \in Readers \ {u} : read'[t] = read[t]
      /\ staleRead' = staleRead \ {u}
  BY <1>1 DEF Reads, FileInv, FileTypes
<1>3. /\ Places' /\ pc'[u] = w /\ \A v \in Scans \cup {Boot} : v # u => pc'[v] = pc[v]
      /\ Scanning' \subseteq Scanning
  BY <1>1, TaskMoves DEF FileInv
<1>4. Holding' \subseteq Holding \cup {u} /\ Keeping' \subseteq Keeping /\ Holding' \subseteq Readers
  BY <1>1, <1>3 DEF Holding, Keeping, Readers
<1>5. \A S \in SUBSET Scans : TakenBack(S) => TakenBack(S)'
  BY <1>3 DEF TakenBack
<1>6. FileTypes'
  BY <1>2, <1>3 DEF FileInv, FileTypes
<1>7. UntilLost'
  <2> SUFFICES ASSUME ~lost PROVE UntilLost'
    BY DEF UntilLost
  <2>1. \A f : CopyOf(f, file', saved') <=> CopyOf(f, file, saved)
    BY DEF CopyOf
  <2>2. /\ file.settings = saved /\ file.login \in {0, saved}
        /\ file.scanning => TakenBack(Scans)
        /\ read[Page].devices \subseteq file.devices
        /\ Page \notin staleRead => read[Page] = file
    BY DEF FileInv, UntilLost
  <2>3. CopyOf(file, file, saved)
    BY <2>2 DEF CopyOf
  <2>4. \A t \in Holding' \ staleRead' :
          CopyOf(read'[t], file', saved') /\ (read'[t].scanning => TakenBack(Scans)')
    <3> SUFFICES ASSUME NEW t \in Holding' \ staleRead'
                 PROVE  CopyOf(read'[t], file', saved') /\ (read'[t].scanning => TakenBack(Scans)')
      OBVIOUS
    <3>1. CASE t = u
      BY <1>2, <1>5, <2>1, <2>2, <2>3, <3>1
    <3>2. CASE t # u
      <4>1. t \in Holding \ staleRead /\ read'[t] = read[t]
        BY <1>2, <1>4, <3>2
      <4>2. CopyOf(read[t], file, saved) /\ (read[t].scanning => TakenBack(Scans))
        BY <4>1 DEF FileInv, UntilLost
      <4> QED BY <1>5, <2>1, <4>1, <4>2
    <3> QED BY <3>1, <3>2
  <2>5. \A v \in Keeping' \ staleKept' :
          CopyOf(kept'[v], file', saved') /\ (kept'[v].scanning => TakenBack(Scans \ {v})')
    <3> SUFFICES ASSUME NEW v \in Keeping' \ staleKept'
                 PROVE  CopyOf(kept[v], file', saved') /\ (kept[v].scanning => TakenBack(Scans \ {v})')
      OBVIOUS
    <3>1. CopyOf(kept[v], file, saved) /\ (kept[v].scanning => TakenBack(Scans \ {v}))
      BY <1>4 DEF FileInv, UntilLost
    <3> QED BY <1>5, <2>1, <3>1
  <2>6. /\ read'[Page].devices \subseteq file'.devices
        /\ Page \notin staleRead' => read'[Page] = file'
    <3>1. read'[Page] = read[Page]
      BY <1>1, <1>2 DEF Readers
    <3> QED BY <1>1, <1>2, <2>2, <3>1
  <2> QED BY <1>5, <2>2, <2>4, <2>5, <2>6 DEF UntilLost
<1> QED BY <1>3, <1>6, <1>7 DEF FileInv

LEMMA UpdateDevicesHolds ==
  ASSUME FileInv, NEW u \in Scans, UpdateDevices(u) PROVE FileInv'
<1>1. /\ pc[u] = "idle" /\ GoesTo(u, "asking") /\ staleKept' = staleKept \ {u}
      /\ UNCHANGED <<file, read, staleRead, saved, lost>>
  BY DEF UpdateDevices
<1>2. /\ Places' /\ pc'[u] = "asking" /\ \A v \in Scans \cup {Boot} : v # u => pc'[v] = pc[v]
      /\ u # Boot
  BY <1>1, TaskMoves, ProcessAssumption DEF FileInv, ScanPlaces
<1>3. scanned' \in 0 .. MaxScans /\ scanned' > 0
  BY ProcessAssumption DEF UpdateDevices, FileInv, FileTypes
<1>4. PICK f \in File : /\ f = Carried /\ f.login = 0 /\ f.settings = file.settings
                        /\ f.scanning = file.scanning /\ f.devices = file.devices
  <2> DEFINE g == [file EXCEPT !.login = 0]
  <2>1. 0 \in 0 .. MaxSaves /\ file \in File
    BY ProcessAssumption DEF FileInv, FileTypes
  <2>2. /\ g \in File /\ g.login = 0 /\ g.settings = file.settings
        /\ g.scanning = file.scanning /\ g.devices = file.devices
    BY <2>1, FileWrites
  <2> QED BY <2>2 DEF Carried
<1>5. /\ kept' \in [Scans -> File] /\ kept'[u] = f
      /\ \A v \in Scans \ {u} : kept'[v] = kept[v]
  BY <1>4 DEF UpdateDevices, FileInv, FileTypes
<1>6. FileTypes'
  BY <1>1, <1>3, <1>5 DEF FileInv, FileTypes
<1>7. Holding' = Holding /\ Keeping' \subseteq Keeping \cup {u} /\ Keeping' \subseteq Scans
  BY <1>1, <1>2 DEF Holding, Keeping
<1>8. \A S \in SUBSET Scans : TakenBack(S) <=> TakenBack(S)'
  BY <1>1, <1>2 DEF TakenBack, Ending
<1>9. TakenBack(Scans) => TakenBack(Scans \ {u})
  BY <1>1 DEF TakenBack, Ending
<1>10. UntilLost'
  <2> SUFFICES ASSUME ~lost PROVE UntilLost'
    BY <1>1 DEF UntilLost
  <2>1. \A g : CopyOf(g, file', saved') <=> CopyOf(g, file, saved)
    BY <1>1 DEF CopyOf
  <2>2. /\ file.settings = saved /\ file.login \in {0, saved}
        /\ file.scanning => TakenBack(Scans)
        /\ read[Page].devices \subseteq file.devices
        /\ Page \notin staleRead => read[Page] = file
    BY DEF FileInv, UntilLost
  <2>3. CopyOf(f, file, saved)
    BY <1>4, <2>2 DEF CopyOf
  <2>4. \A v \in Keeping' \ staleKept' :
          CopyOf(kept'[v], file', saved') /\ (kept'[v].scanning => TakenBack(Scans \ {v})')
    <3> SUFFICES ASSUME NEW v \in Keeping' \ staleKept'
                 PROVE  CopyOf(kept'[v], file', saved') /\ (kept'[v].scanning => TakenBack(Scans \ {v})')
      OBVIOUS
    <3>1. CASE v = u
      BY <1>4, <1>5, <1>8, <1>9, <2>1, <2>2, <2>3, <3>1
    <3>2. CASE v # u
      <4>1. v \in Keeping \ staleKept /\ kept'[v] = kept[v]
        BY <1>1, <1>5, <1>7, <3>2
      <4>2. CopyOf(kept[v], file, saved) /\ (kept[v].scanning => TakenBack(Scans \ {v}))
        BY <4>1 DEF FileInv, UntilLost
      <4> QED BY <1>8, <2>1, <4>1, <4>2
    <3> QED BY <3>1, <3>2
  <2>5. \A t \in Holding' \ staleRead' :
          CopyOf(read'[t], file', saved') /\ (read'[t].scanning => TakenBack(Scans)')
    <3> SUFFICES ASSUME NEW t \in Holding \ staleRead
                 PROVE  CopyOf(read[t], file', saved') /\ (read[t].scanning => TakenBack(Scans)')
      BY <1>1, <1>7
    <3>1. CopyOf(read[t], file, saved) /\ (read[t].scanning => TakenBack(Scans))
      BY DEF FileInv, UntilLost
    <3> QED BY <1>8, <2>1, <3>1
  <2> QED BY <1>1, <1>8, <2>2, <2>4, <2>5 DEF UntilLost
<1> QED BY <1>2, <1>6, <1>10 DEF FileInv

LEMMA ScanHolds ==
  ASSUME FileInv, NEW u \in Scans,
         GetScanStatus(u) \/ Decide(u) \/ ScanEnds(u) \/ ScanFails(u) \/ MergeDevices(u)
  PROVE  FileInv'
<1>1. u \in Scanning /\ UNCHANGED <<scanned, saved>> /\ pc[u] # "unawaited"
  BY DEF GetScanStatus, Decide, ScanEnds, ScanFails, MergeDevices, Scanning
<1>2. {} \in SUBSET (1 .. MaxScans) /\ {scanned} \in SUBSET (1 .. MaxScans)
  BY <1>1, ProcessAssumption DEF FileInv, FileTypes
<1>3. CASE GetScanStatus(u)
  <2>1. /\ GoesTo(u, "asked") /\ pc[u] = "asking" /\ Reads(u)
        /\ UNCHANGED <<file, kept, staleKept, scanned, saved, lost>>
    BY <1>3 DEF GetScanStatus
  <2> QED BY <1>1, <2>1, ReadHolds DEF Ending
<1>4. CASE ScanEnds(u)
  <2>1. /\ GoesTo(u, "clearing") /\ pc[u] = "scanning" /\ Reads(u)
        /\ UNCHANGED <<file, kept, staleKept, scanned, saved, lost>>
    BY <1>4 DEF ScanEnds
  <2> QED BY <1>1, <2>1, ReadHolds DEF Ending
<1>5. CASE Decide(u)
  <2>1. CASE read[u].scanning
    <3>1. GoesTo(u, "idle") /\ Forgets(u) /\ \E found \in {{}, {scanned}} : Merge(u, found)
      BY <1>5, <2>1 DEF Decide
    <3> QED BY <1>1, <1>2, <3>1, MergeHolds
  <2>2. CASE ~read[u].scanning
    <3>1. /\ GoesTo(u, "marking") /\ pc[u] = "asked" /\ Reads(u)
          /\ UNCHANGED <<file, kept, staleKept, scanned, saved, lost>>
      BY <1>5, <2>2 DEF Decide
    <3> QED BY <1>1, <3>1, ReadHolds DEF Ending
  <2> QED BY <2>1, <2>2
<1>6. CASE ScanFails(u)
  <2>1. /\ GoesTo(u, "unawaited") /\ Merge(u, {}) /\ pc[u] \in {"scanning", "merging"}
        /\ \E seen \in {file, file'} : read' = [read EXCEPT ![u] = seen]
    BY <1>6 DEF ScanFails
  <2> QED BY <1>1, <1>2, <2>1, MergeHolds DEF Ending
<1>7. CASE MergeDevices(u)
  <2>1. GoesTo(u, "idle") /\ Merge(u, {scanned}) /\ Forgets(u)
    BY <1>7 DEF MergeDevices
  <2> QED BY <1>1, <1>2, <2>1, MergeHolds
<1> QED BY <1>3, <1>4, <1>5, <1>6, <1>7

-------------------------------------------------------------------------------
(* The file does not matter to the servers, nor the servers to the file    *)

FileAction ==
  \/ OpenPage \/ Save \/ Restore
  \/ SetScanStatus(Boot, "resetting", "up", FALSE)
  \/ \E u \in Scans :
       \/ UpdateDevices(u) \/ GetScanStatus(u) \/ Decide(u)
       \/ SetScanStatus(u, "marking", "scanning", TRUE)
       \/ ScanEnds(u) \/ ScanFails(u)
       \/ SetScanStatus(u, "clearing", "merging", FALSE)
       \/ SetScanStatus(u, "unawaited", "idle", FALSE)
       \/ MergeDevices(u)

LEMMA FileActionHolds == ASSUME FileInv, FileAction PROVE FileInv'
<1>1. ASSUME NEW u \in Scans,
             \/ SetScanStatus(u, "marking", "scanning", TRUE)
             \/ SetScanStatus(u, "clearing", "merging", FALSE)
             \/ SetScanStatus(u, "unawaited", "idle", FALSE)
      PROVE  FileInv'
  BY <1>1, SetScanStatusHolds
<1>2. ASSUME SetScanStatus(Boot, "resetting", "up", FALSE) PROVE FileInv'
  BY <1>2, SetScanStatusHolds
<1> QED BY <1>1, <1>2, OpenPageHolds, PageHolds, RestoreHolds, UpdateDevicesHolds, ScanHolds
        DEF FileAction

ServerInv == ServerTypes /\ BurstIsBegun /\ Sound

LEMMA FileActionLeavesServers ==
  ASSUME FileInv, ServerInv, FileAction PROVE ServerInv'
<1> DEFINE Step(t, w) == /\ GoesTo(t, w)
                         /\ (t \in Scans /\ w \in ScanPlaces) \/ (t = Boot /\ w \in BootPlaces)
<1>1. /\ UNCHANGED restarts /\ saved' \in Nat /\ saved <= saved'
      /\ ~lost' => ~lost
  BY DEF FileAction, OpenPage, Save, Restore, UpdateDevices, GetScanStatus, Decide, SetScanStatus,
         ScanEnds, ScanFails, MergeDevices, Merge, Writes, FileInv, FileTypes
<1>2. Restarting' = Restarting /\ Begun' = Begun /\ \A r \in Restarts : pc'[r] = pc[r]
  <2>1. CASE OpenPage \/ Save \/ Restore
    BY <2>1 DEF OpenPage, Save, Restore, Restarting, Begun
  <2>2. ASSUME NEW t \in Scans \cup {Boot}, NEW w, Step(t, w)
        PROVE  Restarting' = Restarting /\ Begun' = Begun
               /\ \A r \in Restarts : pc'[r] = pc[r]
    BY <2>2, TaskMoves DEF FileInv
  <2>3. ASSUME SetScanStatus(Boot, "resetting", "up", FALSE) PROVE Step(Boot, "up")
    BY <2>3 DEF SetScanStatus, BootPlaces
  <2>4. ASSUME NEW u \in Scans,
               \/ UpdateDevices(u) \/ GetScanStatus(u) \/ Decide(u)
               \/ SetScanStatus(u, "marking", "scanning", TRUE)
               \/ ScanEnds(u) \/ ScanFails(u)
               \/ SetScanStatus(u, "clearing", "merging", FALSE)
               \/ SetScanStatus(u, "unawaited", "idle", FALSE)
               \/ MergeDevices(u)
        PROVE  \E w : Step(u, w)
    BY <2>4 DEF UpdateDevices, GetScanStatus, Decide, SetScanStatus, ScanEnds, ScanFails,
                MergeDevices, ScanPlaces
  <2>5. CASE SetScanStatus(Boot, "resetting", "up", FALSE)
    BY <2>2, <2>3, <2>5
  <2>6. CASE \E u \in Scans :
               \/ UpdateDevices(u) \/ GetScanStatus(u) \/ Decide(u)
               \/ SetScanStatus(u, "marking", "scanning", TRUE)
               \/ ScanEnds(u) \/ ScanFails(u)
               \/ SetScanStatus(u, "clearing", "merging", FALSE)
               \/ SetScanStatus(u, "unawaited", "idle", FALSE)
               \/ MergeDevices(u)
    <3>1. PICK u \in Scans : \E w : Step(u, w)
      BY <2>4, <2>6
    <3> HIDE DEF Step
    <3> QED BY <2>2, <3>1
  <2> QED BY <2>1, <2>5, <2>6 DEF FileAction
<1>3. ServerTypes' /\ BurstIsBegun'
  BY <1>1, <1>2 DEF ServerInv, ServerTypes, BurstIsBegun, restarts, servers, history
<1>4. Named' <=> Named
  BY <1>1, <1>2 DEF Named, restarts, servers
<1>5. OneOrTwo' <=> OneOrTwo
  <2>1. Restarting \subseteq Restarts
    BY DEF Restarting
  <2> QED BY <1>1, <1>2, <2>1 DEF OneOrTwo, restarts, servers, history
<1>6. QuietRuns' <=> QuietRuns
  BY <1>1, <1>2 DEF QuietRuns, restarts, servers, history
<1>7. Newest => Newest'
  <2>1. Restarting \subseteq Restarts
    BY DEF Restarting
  <2>2. \A s \in Servers : conf[s] \in Nat
    BY DEF ServerInv, ServerTypes
  <2>3. saved \in Nat
    BY DEF FileInv, FileTypes
  <2>4. conf' = conf /\ burst' = burst /\ fault' = fault /\ tunnel' = tunnel
    BY <1>1 DEF restarts, servers, history
  <2>5. \A n \in Nat : n <= saved => n <= saved'
    BY <1>1, <2>3
  <2> QED BY <1>1, <1>2, <2>1, <2>2, <2>4, <2>5 DEF Newest
<1>8. Sound'
  BY <1>1, <1>4, <1>5, <1>6, <1>7 DEF ServerInv, Sound, restarts, history
<1> QED BY <1>3, <1>8 DEF ServerInv

-------------------------------------------------------------------------------
(* Restarts                                                                *)

RestartAction(r) ==
  Restart(r) \/ Stopped(r) \/ Load(r) \/ InitTunnel(r) \/ Remake(r) \/ Relaunch(r)

(* Where a step of a restart may lead.                                     *)
LEMMA RestartGoes ==
  ASSUME NEW r \in Restarts, RestartAction(r)
  PROVE  /\ \E w \in RestartPlaces \ {"idle"} : GoesTo(r, w)
         /\ UNCHANGED config
BY DEF RestartAction, Restart, Stopped, Load, InitTunnel, Remake, Relaunch, MakeTunnel,
       StartProxy, LaunchProxy, CloseProxy, Continues, WaitsASecond, RestartPlaces

LEMMA RestartLeavesFile ==
  ASSUME FileInv, NEW r \in Restarts, RestartAction(r)
  PROVE  FileInv'
<1>1. /\ Places' /\ Scanning' = Scanning /\ Holding' = Holding /\ Keeping' = Keeping
      /\ \A u \in Scans \cup {Boot} : pc'[u] = pc[u]
      /\ UNCHANGED config
  BY RestartGoes, RestartMoves DEF FileInv
<1>2. \A S \in SUBSET Scans : TakenBack(S)' <=> TakenBack(S)
  BY <1>1 DEF TakenBack
<1>3. FileTypes'
  BY <1>1 DEF FileInv, FileTypes, config, copies
<1>4. UntilLost'
  <2>1. \A f : CopyOf(f, file', saved') <=> CopyOf(f, file, saved)
    BY <1>1 DEF CopyOf, config
  <2> QED BY <1>1, <1>2, <2>1 DEF FileInv, UntilLost, config, copies
<1> QED BY <1>1, <1>3, <1>4 DEF FileInv

LEMMA ShorterType ==
  ASSUME ServerTypes, NEW r \in Restarts
  PROVE  /\ HasClosed(r) \in [Restarts -> SUBSET Restarts]
         /\ \A Q \in SUBSET Restarts :
              [HasClosed(r) EXCEPT ![r] = Q] \in [Restarts -> SUBSET Restarts]
BY DEF ServerTypes, HasClosed

LEMMA GoesOnTypes ==
  ASSUME ServerTypes, NEW r \in Restarts, NEW w, Continues(r, w) \/ WaitsASecond(r, w)
  PROVE  shorter' \in [Restarts -> SUBSET Restarts]
<1>1. CASE Continues(r, w)
  BY <1>1, ShorterType DEF Continues
<1>2. CASE WaitsASecond(r, w)
  BY <1>2, ShorterType DEF WaitsASecond
<1> QED BY <1>1, <1>2

LEMMA ListenType ==
  ASSUME NEW f \in [Servers -> States], NEW r \in Servers
  PROVE  /\ Listen(f, r) \in [Servers -> States]
         /\ Listen(f, r)[r] \in {"up", "failed"}
         /\ \A s \in Servers : s # r => Listen(f, r)[s] = f[s]
         /\ (\A s \in Servers : f[s] # "up") => Listen(f, r)[r] = "up"
BY DEF Listen, States

LEMMA StartProxyTypes ==
  ASSUME ServerTypes, NEW r \in Restarts,
         StartProxy(r) \/ LaunchProxy(r) \/ (CloseProxy(r) /\ proxy' = proxy)
  PROVE  /\ proxy' \in Servers \cup {None} /\ proxies' \in [Servers -> States]
         /\ shorter' \in [Restarts -> SUBSET Restarts]
<1>1. r \in Servers /\ None \notin Servers
  BY ProcessAssumption DEF Servers
<1>2. CASE CloseProxy(r) /\ proxy' = proxy
  BY <1>2, GoesOnTypes DEF CloseProxy, ServerTypes, States
<1>3. CASE LaunchProxy(r)
  BY <1>1, <1>3, GoesOnTypes, ListenType DEF LaunchProxy, ServerTypes
<1>4. CASE StartProxy(r)
  <2>1. CASE proxy # None /\ proxies[proxy] = "up"
    BY <1>4, <2>1, GoesOnTypes DEF StartProxy, ServerTypes, States
  <2>2. CASE ~(proxy # None /\ proxies[proxy] = "up")
    BY <1>3, <1>4, <2>2 DEF StartProxy
  <2> QED BY <2>1, <2>2
<1> QED BY <1>2, <1>3, <1>4

LEMMA StopTunnelTypes ==
  ASSUME ServerTypes, tunnel # None, StopTunnel
  PROVE  /\ tunnel' = None /\ tunnels' \in [Servers -> States]
         /\ \A s \in Servers : tunnels'[s] = IF s = tunnel THEN "down" ELSE tunnels[s]
BY DEF ServerTypes, StopTunnel, States

LEMMA MakeTunnelTypes ==
  ASSUME ServerTypes, NEW r \in Restarts, MakeTunnel(r)
  PROVE  ServerTypes'
<1>1. r \in Servers /\ conf' = conf
  BY DEF Servers, MakeTunnel
<1>2. CASE fault' = TRUE /\ Continues(r, "failed") /\ UNCHANGED <<tunnel, tunnels, proxy, proxies>>
  BY <1>1, <1>2, GoesOnTypes DEF ServerTypes
<1>3. ASSUME tunnel' = r, UNCHANGED history, tunnels' = Listen(tunnels, r),
             IF tunnels'[r] = "failed"
             THEN Continues(r, "failed") /\ UNCHANGED <<proxy, proxies>>
             ELSE StartProxy(r)
      PROVE  ServerTypes'
  <2>1. tunnels' \in [Servers -> States] /\ tunnels'[r] \in {"up", "failed"}
    BY <1>1, <1>3, ListenType DEF ServerTypes
  <2>2. /\ proxy' \in Servers \cup {None} /\ proxies' \in [Servers -> States]
        /\ shorter' \in [Restarts -> SUBSET Restarts]
    BY <1>3, StartProxyTypes, GoesOnTypes DEF ServerTypes
  <2> QED BY <1>1, <1>3, <2>1, <2>2 DEF ServerTypes, history
<1> QED BY <1>2, <1>3 DEF MakeTunnel

LEMMA RestartTypes ==
  ASSUME FileTypes, ServerTypes, NEW r \in Restarts, RestartAction(r)
  PROVE  ServerTypes'
<1>1. CASE Restart(r)
  <2>1. fault' \in BOOLEAN /\ proxy' = proxy /\ conf' = conf
    BY <1>1 DEF Restart, ServerTypes
  <2>2. CASE tunnel # None
    <3>1. StopTunnel /\ Continues(r, "stopping") /\ proxies' = proxies
      BY <1>1, <2>2 DEF Restart
    <3> QED BY <2>1, <2>2, <3>1, StopTunnelTypes, GoesOnTypes DEF ServerTypes
  <2>3. CASE tunnel = None
    <3>1. CloseProxy(r) /\ UNCHANGED <<tunnel, tunnels>>
      BY <1>1, <2>3 DEF Restart
    <3> QED BY <2>1, <3>1, StartProxyTypes DEF ServerTypes
  <2> QED BY <2>2, <2>3
<1>2. CASE Stopped(r)
  <2>1. CloseProxy(r) /\ proxy' = proxy /\ UNCHANGED <<tunnel, tunnels, conf, fault>>
    BY <1>2 DEF Stopped, history
  <2> QED BY <2>1, StartProxyTypes DEF ServerTypes
<1>3. CASE Load(r)
  <2>1. conf' \in [Servers -> 0 .. MaxSaves]
    BY <1>3 DEF Load, ServerTypes, FileTypes, File
  <2>2. shorter' \in [Restarts -> SUBSET Restarts]
    BY <1>3, GoesOnTypes DEF Load
  <2> QED BY <1>3, <2>1, <2>2 DEF Load, ServerTypes, history
<1>4. CASE InitTunnel(r)
  <2>1. CASE tunnel # None
    <3>1. /\ StopTunnel /\ Continues(r, "remaking")
          /\ UNCHANGED <<proxy, proxies, conf, fault>>
      BY <1>4, <2>1 DEF InitTunnel, history
    <3> QED BY <2>1, <3>1, StopTunnelTypes, GoesOnTypes DEF ServerTypes
  <2>2. CASE tunnel = None
    BY <1>4, <2>2, MakeTunnelTypes DEF InitTunnel
  <2> QED BY <2>1, <2>2
<1>5. CASE Remake(r)
  BY <1>5, MakeTunnelTypes DEF Remake
<1>6. CASE Relaunch(r)
  <2>1. LaunchProxy(r) /\ UNCHANGED <<tunnel, tunnels, conf, fault>>
    BY <1>6 DEF Relaunch, history
  <2> QED BY <2>1, StartProxyTypes DEF ServerTypes
<1> QED BY <1>1, <1>2, <1>3, <1>4, <1>5, <1>6 DEF RestartAction

LEMMA BurstHolds ==
  ASSUME Places, BurstIsBegun, NEW r \in Restarts, RestartAction(r)
  PROVE  BurstIsBegun'
<1> DEFINE begun == Cardinality(Begun)
           begunThen == Cardinality(Begun')
<1>1. PICK w \in RestartPlaces \ {"idle"} : GoesTo(r, w)
  BY RestartGoes
<1>2. Begun' = Begun \cup {r}
  BY <1>1, RestartMoves DEF Begun
<1>3. IsFiniteSet(Begun)
  BY FS_Subset, ProcessAssumption DEF Begun
<1>4. begun \in Nat /\ begunThen = IF r \in Begun THEN begun ELSE begun + 1
  BY <1>2, <1>3, FS_CardinalityType, FS_AddElement
<1>5. burst \in 0 .. begun
  BY DEF BurstIsBegun
<1>6. CASE pc[r] = "idle"
  <2>1. Restart(r)
    BY <1>6 DEF RestartAction, Stopped, Load, InitTunnel, Remake, Relaunch
  <2>2. burst' \in {1, burst + 1}
    BY <2>1 DEF Restart
  <2>3. begunThen = begun + 1
    BY <1>4, <1>6 DEF Begun
  <2>4. burst' \in 0 .. begunThen
    <3> HIDE DEF begun, begunThen
    <3> QED BY <1>4, <1>5, <2>2, <2>3
  <2> QED BY <2>4 DEF BurstIsBegun
<1>7. CASE pc[r] # "idle"
  <2>1. burst' = burst
    BY <1>7 DEF RestartAction, Restart, Stopped, Load, InitTunnel, Remake, Relaunch,
                MakeTunnel, history
  <2>2. begunThen = begun
    BY <1>4, <1>7 DEF Begun
  <2> QED BY <1>5, <2>1, <2>2 DEF BurstIsBegun
<1> QED BY <1>6, <1>7

-------------------------------------------------------------------------------
(* Restarts that are alone or two                                          *)

(* What is known of them before a step.                                    *)
Calm == FileTypes /\ Places /\ ServerTypes /\ UntilLost /\ Sound /\ burst \in Nat

LEMMA CalmFacts ==
  ASSUME Calm, burst <= 2
  PROVE  /\ Named /\ OneOrTwo /\ QuietRuns /\ Newest /\ burst \in 0 .. 2
         /\ Restarting \subseteq Restarts /\ None \notin Servers /\ Restarts \subseteq Servers
         /\ proxy = None => \E q \in Restarting : pc[q] = "relaunch" /\ Restarting = {q}
<1>1. /\ Named /\ OneOrTwo /\ QuietRuns /\ Newest /\ burst \in 0 .. 2
      /\ Restarting \subseteq Restarts /\ None \notin Servers /\ Restarts \subseteq Servers
  BY ProcessAssumption DEF Calm, Sound, Restarting, Servers
<1>2. ASSUME proxy = None PROVE \E q \in Restarting : pc[q] = "relaunch" /\ Restarting = {q}
  <2>1. PICK q \in Restarts : pc[q] = "relaunch"
    BY <1>1, <1>2 DEF Named
  <2>2. Restarting = {q}
    BY <1>1, <2>1 DEF OneOrTwo
  <2> QED BY <2>1, <2>2
<1> QED BY <1>1, <1>2

LEMMA RestartSound ==
  ASSUME Calm, NEW r \in Restarts, Restart(r), burst' <= 2
  PROVE  Sound'
<1>1. /\ pc[r] = "idle" /\ proxy' = proxy /\ conf' = conf
      /\ UNCHANGED <<saved, lost>>
  BY DEF Restart, config
<1>2. burst <= 2
  <2>1. burst' = (IF Restarting = {} /\ burst <= 2 THEN 1 ELSE burst + 1) /\ burst \in Nat
    BY DEF Restart, Calm
  <2> QED BY <2>1
<1>3. Named /\ OneOrTwo /\ Newest /\ burst \in 0 .. 2 /\ Restarting \subseteq Restarts
  BY <1>2, CalmFacts
<1>4. r \notin Restarting
  BY <1>1 DEF Restarting
<1>5. ASSUME NEW w \in {"stopping", "delay"}, GoesTo(r, w)
      PROVE  /\ pc'[r] = w /\ \A q \in Restarts : q # r => pc'[q] = pc[q]
             /\ Restarting' = Restarting \cup {r}
  BY <1>5, RestartMoves DEF Calm, RestartPlaces
<1>6. CASE Restarting = {}
  <2>1. burst' = 1 /\ proxy # None
    BY <1>2, <1>6, CalmFacts DEF Restart, Calm
  <2>2. \A q \in Restarts : pc[q] \in {"idle", "done", "failed"}
    BY <1>6 DEF Restarting
  <2>3. CASE tunnel # None
    <3>1. StopTunnel /\ GoesTo(r, "stopping") /\ proxies' = proxies
      BY <2>3 DEF Restart, Continues
    <3>2. /\ tunnel' = None
          /\ \A s \in Servers : tunnels'[s] = IF s = tunnel THEN "down" ELSE tunnels[s]
      BY <2>3, <3>1, StopTunnelTypes DEF Calm
    <3>3. /\ pc'[r] = "stopping" /\ \A q \in Restarts : q # r => pc'[q] = pc[q]
          /\ Restarting' = {r}
      BY <1>5, <1>6, <3>1
    <3>4. Named' /\ OneOrTwo' /\ QuietRuns'
      BY <1>1, <1>3, <2>1, <2>2, <3>1, <3>2, <3>3 DEF Named, OneOrTwo, QuietRuns, Before
    <3>5. Newest'
      BY <1>1, <1>3, <3>3 DEF Newest
    <3> QED BY <3>4, <3>5 DEF Sound
  <2>4. CASE tunnel = None
    <3>1. /\ CloseProxy(r) /\ UNCHANGED <<tunnel, tunnels>>
      BY <2>4 DEF Restart
    <3>2. GoesTo(r, "delay") /\ proxies' = [proxies EXCEPT ![proxy] = "down"]
      BY <2>1, <3>1 DEF CloseProxy, WaitsASecond
    <3>3. \A s \in Servers : proxies'[s] = IF s = proxy THEN "down" ELSE proxies[s]
      BY <3>2 DEF Calm, ServerTypes
    <3>4. /\ pc'[r] = "delay" /\ \A q \in Restarts : q # r => pc'[q] = pc[q]
          /\ Restarting' = {r}
      BY <1>5, <1>6, <3>2
    <3>5. proxy \in Servers
      BY <2>1 DEF Calm, ServerTypes
    <3>6. Named' /\ OneOrTwo' /\ QuietRuns'
      BY <1>1, <1>3, <2>1, <2>2, <2>4, <3>1, <3>3, <3>4, <3>5
         DEF Named, OneOrTwo, QuietRuns, Before
    <3>7. Newest'
      BY <1>1, <1>3, <3>4 DEF Newest
    <3> QED BY <3>6, <3>7 DEF Sound
  <2> QED BY <2>3, <2>4
<1>7. CASE Restarting # {}
  <2>1. burst = 1 /\ burst' = 2
    BY <1>3, <1>7 DEF Restart, OneOrTwo
  <2>2. PICK a \in Restarting : TRUE
    BY <1>7
  <2>3. Restarting = {a} /\ pc[a] \in Before /\ tunnel = None
    BY <1>3, <2>1, <2>2 DEF OneOrTwo
  <2>4. proxy \in Servers /\ proxy # None
    BY <1>2, <2>3, CalmFacts DEF Calm, ServerTypes, Before
  <2>5. CloseProxy(r) /\ UNCHANGED <<tunnel, tunnels>>
    BY <2>3 DEF Restart
  <2>6. GoesTo(r, "delay") /\ proxies' = [proxies EXCEPT ![proxy] = "down"]
    BY <2>4, <2>5 DEF CloseProxy, WaitsASecond
  <2>7. \A s \in Servers : proxies'[s] = IF s = proxy THEN "down" ELSE proxies[s]
    BY <2>6 DEF Calm, ServerTypes
  <2>8. /\ pc'[r] = "delay" /\ \A q \in Restarts : q # r => pc'[q] = pc[q]
        /\ Restarting' = {a, r}
    BY <1>5, <2>3, <2>6
  <2>9. \A q \in Restarts : q # r /\ q # a => pc[q] \in {"idle", "done", "failed"}
    BY <2>3 DEF Restarting
  <2>10. Named'
    BY <1>1, <1>3, <2>4, <2>5, <2>7 DEF Named
  <2>11. OneOrTwo'
    BY <1>1, <1>3, <1>4, <2>1, <2>3, <2>4, <2>5, <2>7, <2>8, <2>9 DEF OneOrTwo, Before
  <2>12. QuietRuns' /\ Newest'
    BY <1>1, <1>3, <2>1, <2>8 DEF QuietRuns, Newest
  <2> QED BY <2>10, <2>11, <2>12 DEF Sound
<1> QED BY <1>6, <1>7

LEMMA StoppedSound ==
  ASSUME Calm, NEW r \in Restarts, Stopped(r), burst' <= 2
  PROVE  Sound'
<1>1. /\ pc[r] = "stopping" /\ r \in Restarting /\ burst' = burst /\ fault' = fault
      /\ UNCHANGED <<tunnel, tunnels, proxy, conf, saved, lost>>
  BY DEF Stopped, config, history, Restarting
<1>2. Named /\ OneOrTwo /\ Newest /\ Restarting \subseteq Restarts
  BY <1>1, CalmFacts
<1>3. proxy \in Servers /\ proxy # None
  BY <1>1, CalmFacts DEF Calm, ServerTypes
<1>4. GoesTo(r, "delay") /\ proxies' = [proxies EXCEPT ![proxy] = "down"]
  BY <1>3 DEF Stopped, CloseProxy, WaitsASecond
<1>5. \A s \in Servers : proxies'[s] = IF s = proxy THEN "down" ELSE proxies[s]
  BY <1>4 DEF Calm, ServerTypes
<1>6. /\ pc'[r] = "delay" /\ \A q \in Restarts : q # r => pc'[q] = pc[q]
      /\ Restarting' = Restarting
  BY <1>1, <1>4, RestartMoves DEF Calm, RestartPlaces
<1>7. Named'
  BY <1>1, <1>2, <1>3, <1>5 DEF Named
<1>8. OneOrTwo'
  BY <1>1, <1>2, <1>3, <1>5, <1>6 DEF OneOrTwo, Before
<1>9. QuietRuns' /\ Newest'
  BY <1>1, <1>2, <1>6 DEF QuietRuns, Newest
<1> QED BY <1>7, <1>8, <1>9 DEF Sound

LEMMA LoadSound ==
  ASSUME Calm, NEW r \in Restarts, Load(r), burst' <= 2
  PROVE  Sound'
<1>1. /\ pc[r] \in {"delay", "loading"} /\ r \in Restarting /\ burst' = burst /\ fault' = fault
      /\ UNCHANGED <<tunnel, tunnels, proxy, proxies, saved, lost>>
  BY DEF Load, config, history, Restarting
<1>2. Named /\ OneOrTwo /\ Newest /\ Restarting \subseteq Restarts /\ r \in Servers
  BY <1>1, CalmFacts
<1>3. proxy # None
  BY <1>1, CalmFacts
<1>4. \A s \in Servers : conf'[s] = IF s = r THEN file.settings ELSE conf[s]
  BY DEF Load, Calm, ServerTypes
<1>5. /\ pc'[r] = "loaded" /\ \A q \in Restarts : q # r => pc'[q] = pc[q]
      /\ Restarting' = Restarting
  BY <1>1, RestartMoves DEF Calm, RestartPlaces, Load, Continues
<1>6. Named'
  BY <1>1, <1>2, <1>3 DEF Named
<1>7. OneOrTwo'
  BY <1>1, <1>2, <1>5 DEF OneOrTwo, Before
<1>8. QuietRuns'
  BY <1>1, <1>5 DEF QuietRuns
<1>9. Newest'
  <2> SUFFICES ASSUME ~lost' PROVE Newest'
    BY DEF Newest
  <2>1. file.settings = saved /\ saved \in Nat /\ ~lost
    BY <1>1 DEF Calm, UntilLost, FileTypes
  <2>2. \A s \in Servers : conf'[s] <= saved
    BY <1>2, <1>4, <2>1 DEF Newest
  <2>3. conf'[r] = saved
    BY <1>2, <1>4, <2>1
  <2>4. burst = 1 => \A q \in Restarting : q = r
    BY <1>1, <1>2 DEF OneOrTwo
  <2> QED BY <1>1, <1>5, <2>2, <2>3, <2>4 DEF Newest
<1> QED BY <1>6, <1>7, <1>8, <1>9 DEF Sound

(* The tunnel that a restart finds is one it takes down again.             *)
LEMMA TakeDownSound ==
  ASSUME Calm, NEW r \in Restarts, InitTunnel(r), tunnel # None, burst' <= 2
  PROVE  Sound'
<1>1. /\ pc[r] = "loaded" /\ r \in Restarting /\ burst' = burst /\ fault' = fault
      /\ UNCHANGED <<proxy, proxies, conf, saved, lost>>
      /\ StopTunnel /\ GoesTo(r, "remaking")
  BY DEF InitTunnel, config, history, Restarting, Continues
<1>2. Named /\ OneOrTwo /\ Newest /\ Restarting \subseteq Restarts /\ burst \in 0 .. 2
  BY <1>1, CalmFacts
<1>3. proxy # None
  BY <1>1, CalmFacts
<1>4. Restarting = {r} /\ burst = 2
  BY <1>1, <1>2 DEF OneOrTwo
<1>5. /\ tunnel' = None
      /\ \A s \in Servers : tunnels'[s] = IF s = tunnel THEN "down" ELSE tunnels[s]
  BY <1>1, StopTunnelTypes DEF Calm
<1>6. /\ pc'[r] = "remaking" /\ \A q \in Restarts : q # r => pc'[q] = pc[q]
      /\ Restarting' = {r}
  BY <1>1, <1>4, RestartMoves DEF Calm, RestartPlaces
<1>7. Named'
  BY <1>1, <1>2, <1>3, <1>5 DEF Named
<1>8. OneOrTwo'
  BY <1>1, <1>2, <1>4, <1>5, <1>6 DEF OneOrTwo, Before
<1>9. QuietRuns' /\ Newest'
  BY <1>1, <1>2, <1>4, <1>6 DEF QuietRuns, Newest
<1> QED BY <1>7, <1>8, <1>9 DEF Sound

(* A server that nobody's port is taken from comes up.                     *)
LEMMA LaunchSound ==
  ASSUME Calm, NEW r \in Restarting, LaunchProxy(r), burst' <= 2,
         UNCHANGED <<saved, lost, conf, burst, fault>>,
         proxy = None \/ proxies[proxy] # "up",
         tunnel' = r \/ UNCHANGED <<tunnel, tunnels>>,
         tunnel' # None /\ tunnels'[tunnel'] = "up",
         \A s \in Servers : tunnels'[s] = "up" => tunnel' = s,
         (pc[r] = "loaded" /\ tunnel' = r) \/ burst # 1
  PROVE  Sound'
<1>1. Named /\ OneOrTwo /\ Newest /\ Restarting \subseteq Restarts /\ burst \in 0 .. 2
      /\ r \in Servers /\ r \in Restarts /\ None \notin Servers
  BY CalmFacts
<1>2. \A s \in Servers : proxies[s] # "up"
  BY <1>1 DEF Named
<1>3. proxy' = r /\ GoesTo(r, "done") /\ proxies' = Listen(proxies, r)
  BY DEF LaunchProxy, Continues
<1>4. proxies'[r] = "up" /\ \A s \in Servers : s # r => proxies'[s] # "up"
  BY <1>1, <1>2, <1>3, ListenType DEF Calm, ServerTypes
<1>5. /\ pc'[r] = "done" /\ \A q \in Restarts : q # r => pc'[q] = pc[q]
      /\ Restarting' = Restarting \ {r}
  BY <1>1, <1>3, RestartMoves DEF Calm, RestartPlaces
<1>6. Named'
  BY <1>1, <1>3, <1>4 DEF Named
<1>7. QuietRuns'
  BY <1>1, <1>3, <1>4 DEF QuietRuns
<1>8. burst # 0 /\ (burst = 1 => Restarting' = {})
  BY <1>1, <1>5 DEF OneOrTwo
<1>9. \A q \in Restarts : pc'[q] \notin {"remaking", "relaunch"}
  <2>1. ASSUME NEW q \in Restarts, q # r, pc[q] \in {"remaking", "relaunch"} PROVE FALSE
    BY <1>1, <2>1 DEF OneOrTwo
  <2> QED BY <1>5, <2>1
<1>10. OneOrTwo'
  BY <1>1, <1>5, <1>8, <1>9 DEF OneOrTwo
<1>11. Newest'
  <2>1. burst = 1 /\ ~lost =>
          \A q \in Restarting : pc[q] = "loaded" => \A s \in Servers : conf[s] <= conf[q]
    BY <1>1 DEF Newest
  <2> QED BY <1>1, <1>8, <2>1 DEF Newest
<1> QED BY <1>6, <1>7, <1>10, <1>11 DEF Sound

LEMMA MakeTunnelSound ==
  ASSUME Calm, NEW r \in Restarts, MakeTunnel(r), burst' <= 2,
         UNCHANGED <<saved, lost>>,
         tunnel = None, pc[r] \in {"loaded", "remaking"}
  PROVE  Sound'
<1>1. r \in Restarting /\ conf' = conf /\ burst' = burst
  BY DEF Restarting, MakeTunnel, history
<1>2. Named /\ OneOrTwo /\ Newest /\ Restarting \subseteq Restarts /\ burst \in 0 .. 2
      /\ r \in Servers /\ None \notin Servers
  BY <1>1, CalmFacts
<1>3. proxy # None /\ proxy \in Servers
  BY <1>1, CalmFacts DEF Calm, ServerTypes
<1>4. burst # 0
  BY <1>1, <1>2 DEF OneOrTwo
<1>5. CASE Continues(r, "failed") /\ fault' = TRUE /\ UNCHANGED <<tunnel, tunnels, proxy, proxies>>
  <2>1. /\ pc'[r] = "failed" /\ \A q \in Restarts : q # r => pc'[q] = pc[q]
        /\ Restarting' = Restarting \ {r}
    BY <1>5, RestartMoves DEF Calm, RestartPlaces, Continues
  <2>2. burst = 1 => Restarting' = {}
    BY <1>1, <1>2, <2>1 DEF OneOrTwo
  <2>3. Named'
    BY <1>2, <1>3, <1>5 DEF Named
  <2>4. \A q \in Restarts : pc'[q] \notin {"remaking", "relaunch"}
    <3>1. ASSUME NEW q \in Restarts, q # r, pc[q] \in {"remaking", "relaunch"} PROVE FALSE
      BY <1>1, <1>2, <3>1 DEF OneOrTwo
    <3> QED BY <2>1, <3>1
  <2>5. OneOrTwo'
    <3>1. \A q \in Restarting' : q \in Restarting /\ pc'[q] = pc[q]
      BY <1>2, <2>1
    <3> QED BY <1>1, <1>2, <1>4, <1>5, <2>2, <2>4, <3>1 DEF OneOrTwo
  <2>6. QuietRuns' /\ Newest'
    BY <1>1, <1>2, <1>5, <2>2 DEF QuietRuns, Newest
  <2> QED BY <2>3, <2>5, <2>6 DEF Sound
<1>6. ASSUME tunnel' = r, UNCHANGED history, tunnels' = Listen(tunnels, r),
             IF tunnels'[r] = "failed"
             THEN Continues(r, "failed") /\ UNCHANGED <<proxy, proxies>>
             ELSE StartProxy(r)
      PROVE  Sound'
  <2>1. \A s \in Servers : tunnels[s] # "up"
    BY <1>2 DEF Named
  <2>2. tunnels'[r] = "up" /\ \A s \in Servers : s # r => tunnels'[s] # "up"
    BY <1>2, <1>6, <2>1, ListenType DEF Calm, ServerTypes
  <2>3. StartProxy(r) /\ burst' = burst /\ fault' = fault
    BY <1>6, <2>2 DEF history
  <2>4. CASE proxies[proxy] = "up"
    <3>1. proxies' = [proxies EXCEPT ![proxy] = "down"] /\ proxy' = None /\ GoesTo(r, "relaunch")
      BY <1>3, <2>3, <2>4 DEF StartProxy, WaitsASecond
    <3>2. Restarting = {r}
      BY <1>1, <1>2, <2>4 DEF OneOrTwo
    <3>3. burst = 2
      BY <1>1, <1>2, <2>4, <3>2 DEF OneOrTwo, Before
    <3>4. \A s \in Servers : proxies'[s] # "up"
      BY <1>2, <3>1 DEF Named, Calm, ServerTypes
    <3>5. /\ pc'[r] = "relaunch" /\ \A q \in Restarts : q # r => pc'[q] = pc[q]
          /\ Restarting' = {r}
      BY <3>1, <3>2, RestartMoves DEF Calm, RestartPlaces
    <3>6. Named'
      BY <1>6, <2>2, <3>4, <3>5 DEF Named
    <3>7. \A q \in Restarts : q # r => pc'[q] \notin {"remaking", "relaunch"}
      BY <1>2, <3>2, <3>5 DEF OneOrTwo
    <3>8. OneOrTwo'
      BY <1>2, <1>6, <2>2, <2>3, <3>1, <3>3, <3>5, <3>7 DEF OneOrTwo
    <3>9. QuietRuns' /\ Newest'
      BY <1>1, <1>2, <3>3, <3>5 DEF QuietRuns, Newest
    <3> QED BY <3>6, <3>8, <3>9 DEF Sound
  <2>5. CASE proxies[proxy] # "up"
    <3>1. LaunchProxy(r)
      BY <2>3, <2>5 DEF StartProxy
    <3>2. pc[r] = "loaded" \/ burst # 1
      BY <1>1, <1>2 DEF OneOrTwo, Before
    <3> QED BY <1>1, <1>2, <1>6, <2>2, <2>3, <2>5, <3>1, <3>2, LaunchSound
  <2> QED BY <2>4, <2>5
<1> QED BY <1>5, <1>6 DEF MakeTunnel

LEMMA RelaunchSound ==
  ASSUME Calm, NEW r \in Restarts, Relaunch(r), burst' <= 2
  PROVE  Sound'
<1>1. /\ pc[r] = "relaunch" /\ r \in Restarting /\ LaunchProxy(r)
      /\ UNCHANGED <<tunnel, tunnels, conf, burst, fault, saved, lost>>
  BY DEF Relaunch, Restarting, history, config
<1>2. Named /\ OneOrTwo
  BY <1>1, CalmFacts
<1>3. proxy = None /\ tunnel # None /\ tunnels[tunnel] = "up" /\ burst # 1
  BY <1>1, <1>2 DEF OneOrTwo, Before
<1>4. \A s \in Servers : tunnels[s] = "up" => tunnel = s
  BY <1>2 DEF Named
<1> QED BY <1>1, <1>3, <1>4, LaunchSound

LEMMA RestartActionSound ==
  ASSUME Calm, NEW r \in Restarts, RestartAction(r), burst' <= 2
  PROVE  Sound'
<1>1. CASE InitTunnel(r)
  <2>1. CASE tunnel # None
    BY <1>1, <2>1, TakeDownSound
  <2>2. CASE tunnel = None
    BY <1>1, <2>2, MakeTunnelSound DEF InitTunnel, config
  <2> QED BY <2>1, <2>2
<1>2. CASE Remake(r)
  <2>1. pc[r] = "remaking" /\ MakeTunnel(r) /\ UNCHANGED <<saved, lost>> /\ burst' = burst
    BY <1>2 DEF Remake, config, MakeTunnel, history
  <2>2. tunnel = None
    BY <2>1, CalmFacts DEF OneOrTwo
  <2> QED BY <2>1, <2>2, MakeTunnelSound
<1> QED BY <1>1, <1>2, RestartSound, StoppedSound, LoadSound, RelaunchSound DEF RestartAction

-------------------------------------------------------------------------------
(* The theorems                                                            *)

LEMMA InitHolds == Init => IInv
<1> SUFFICES ASSUME Init PROVE IInv
  OBVIOUS
<1>1. Restarting = {} /\ Scanning = {} /\ Begun = {} /\ Holding = {Page} /\ Keeping = {}
  BY ProcessAssumption DEF Init, Restarting, Scanning, Begun, Holding, Keeping, Servers
<1>2. file = Blank /\ file \in File /\ file.settings = 0 /\ file.login = 0 /\ ~file.scanning
  BY BlankIsFile DEF Init, Blank
<1>3. FileTypes
  <2>1. read \in [Readers -> File] /\ kept \in [Scans -> File]
    <3>1. read = [t \in Readers |-> Blank] /\ kept = [u \in Scans |-> Blank]
      BY DEF Init
    <3> QED BY <3>1, BlankIsFile
  <2>2. saved \in 0 .. MaxSaves /\ scanned \in 0 .. MaxScans
    <3>1. saved = 0 /\ scanned = 0
      BY DEF Init
    <3>2. 0 \in 0 .. MaxSaves /\ 0 \in 0 .. MaxScans
      BY ProcessAssumption
    <3> QED BY <3>1, <3>2
  <2>3. lost \in BOOLEAN /\ staleRead = {} /\ staleKept = {}
    BY DEF Init
  <2> QED BY <1>1, <1>2, <2>1, <2>2, <2>3 DEF FileTypes
<1>4. Places
  BY ProcessAssumption DEF Init, Places, RestartPlaces, ScanPlaces, BootPlaces, Servers
<1>5. /\ Boot \in Servers /\ None \notin Servers /\ 0 \in 0 .. MaxSaves
  BY ProcessAssumption DEF Servers
<1>6. ServerTypes
  BY <1>5 DEF Init, ServerTypes, States
<1>7. BurstIsBegun
  BY <1>1, FS_EmptySet DEF Init, BurstIsBegun
<1>8. UntilLost
  <2>1. read[Page] = file
    BY <1>2 DEF Init, Readers
  <2>2. saved = 0
    BY DEF Init
  <2> QED BY <1>1, <1>2, <2>1, <2>2 DEF UntilLost, CopyOf
<1>9. Named /\ OneOrTwo /\ QuietRuns /\ Newest
  <2>1. Named
    BY <1>5 DEF Init, Named
  <2>2. OneOrTwo
    <3>1. \A r \in Restarts : pc[r] = "idle"
      BY ProcessAssumption DEF Init, Servers
    <3> QED BY <1>1, <3>1 DEF OneOrTwo
  <2>3. QuietRuns
    BY <1>5 DEF Init, QuietRuns
  <2>4. Newest
    BY <1>1, <1>5 DEF Init, Newest
  <2> QED BY <2>1, <2>2, <2>3, <2>4
<1> QED BY <1>3, <1>4, <1>6, <1>7, <1>8, <1>9 DEF IInv, Sound

(* The process dies and starts again.                                      *)
LEMMA CrashHolds == ASSUME IInv, Crash PROVE IInv'
<1>1. /\ UNCHANGED <<file, scanned, saved, lost>>
      /\ read' = [t \in Readers |-> IF t = Page THEN read[Page] ELSE IF t = Boot THEN file ELSE Blank]
      /\ kept' = [u \in Scans |-> Blank]
      /\ staleRead' = staleRead \cap {Page} /\ staleKept' = {}
      /\ pc' = [t \in Servers \cup Scans |-> IF t = Boot THEN "resetting" ELSE "idle"]
  BY DEF Crash, CopiesAreGone, StartsAt
<1>2. /\ tunnel' = Boot /\ proxy' = Boot
      /\ tunnels' = [s \in Servers |-> IF s = Boot THEN "up" ELSE "none"]
      /\ proxies' = tunnels'
      /\ conf' = [s \in Servers |-> IF s = Boot THEN file.settings ELSE 0]
      /\ shorter' = [r \in Restarts |-> {}]
      /\ burst' = 0 /\ fault' = FALSE
  BY DEF Crash, Reborn
<1>3. /\ Boot \in Servers /\ None \notin Servers /\ Boot \notin Restarts \cup Scans
      /\ Page \in Readers /\ Page \notin Scans /\ Page # Boot
  BY ProcessAssumption DEF Servers, Readers
<1>4. /\ Restarting' = {} /\ Scanning' = {} /\ Begun' = {} /\ Holding' = {Page, Boot}
      /\ Keeping' = {} /\ pc'[Boot] = "resetting"
  BY <1>1, <1>3 DEF Restarting, Scanning, Begun, Holding, Keeping, Servers
<1>5. Places'
  BY <1>1, <1>3 DEF Places, RestartPlaces, ScanPlaces, BootPlaces, Servers
<1>6. /\ read' \in [Readers -> File] /\ read'[Page] = read[Page] /\ read'[Boot] = file
      /\ kept' \in [Scans -> File]
  BY <1>1, <1>3, BlankIsFile DEF IInv, FileTypes, Readers
<1>7. FileTypes'
  BY <1>1, <1>4, <1>6 DEF IInv, FileTypes
<1>8. UntilLost'
  <2> SUFFICES ASSUME ~lost PROVE UntilLost'
    BY <1>1 DEF UntilLost
  <2>1. TakenBack(Scans)'
    BY <1>4 DEF TakenBack
  <2>2. /\ file.settings = saved /\ file.login \in {0, saved}
        /\ read[Page].devices \subseteq file.devices
        /\ Page \notin staleRead => read[Page] = file
    BY DEF IInv, UntilLost
  <2> QED BY <1>1, <1>3, <1>4, <1>6, <2>1, <2>2 DEF UntilLost, CopyOf
<1>9. file.settings \in 0 .. MaxSaves /\ 0 \in 0 .. MaxSaves /\ saved \in Nat
  BY ProcessAssumption DEF IInv, FileTypes, File
<1>10. ServerTypes'
  BY <1>2, <1>3, <1>9 DEF ServerTypes, States
<1>11. BurstIsBegun'
  BY <1>2, <1>4, FS_EmptySet DEF BurstIsBegun
<1>12. Sound'
  <2>1. Named'
    BY <1>2, <1>3 DEF Named
  <2>2. OneOrTwo'
    <3>1. \A r \in Restarts : pc'[r] = "idle"
      BY <1>1, <1>3 DEF Servers
    <3> QED BY <1>2, <1>4, <3>1 DEF OneOrTwo
  <2>3. QuietRuns'
    BY <1>2, <1>3 DEF QuietRuns
  <2>4. Newest'
    <3> SUFFICES ASSUME ~lost PROVE Newest'
      BY <1>1 DEF Newest
    <3>1. file.settings = saved
      BY DEF IInv, UntilLost
    <3>2. \A s \in Servers : conf'[s] <= saved
      BY <1>2, <1>9, <3>1
    <3> QED BY <1>1, <1>2, <3>2 DEF Newest
  <2> QED BY <2>1, <2>2, <2>3, <2>4 DEF Sound
<1> QED BY <1>5, <1>7, <1>8, <1>10, <1>11, <1>12 DEF IInv

LEMMA StepHolds == IInv /\ [Next]_vars => IInv'
<1> SUFFICES ASSUME IInv, [Next]_vars PROVE IInv'
  OBVIOUS
<1>1. FileInv /\ ServerInv
  BY DEF IInv, FileInv, ServerInv
<1>2. CASE FileAction
  <2>1. FileInv' /\ ServerInv'
    BY <1>1, <1>2, FileActionHolds, FileActionLeavesServers
  <2> QED BY <2>1 DEF IInv, FileInv, ServerInv
<1>3. ASSUME NEW r \in Restarts, RestartAction(r) PROVE IInv'
  <2>1. FileInv'
    BY <1>1, <1>3, RestartLeavesFile
  <2>2. ServerTypes' /\ BurstIsBegun'
    BY <1>3, RestartTypes, BurstHolds DEF IInv
  <2>3. burst \in Nat
    <3>1. IsFiniteSet(Begun)
      BY FS_Subset, ProcessAssumption DEF Begun
    <3>2. Cardinality(Begun) \in Nat
      BY <3>1, FS_CardinalityType
    <3> QED BY <3>2 DEF IInv, BurstIsBegun
  <2>4. Sound'
    <3>1. CASE burst' <= 2
      BY <1>3, <2>3, <3>1, RestartActionSound DEF IInv, Calm
    <3>2. CASE ~(burst' <= 2)
      BY <3>2 DEF Sound
    <3> QED BY <3>1, <3>2
  <2> QED BY <2>1, <2>2, <2>4 DEF IInv, FileInv
<1>4. CASE UNCHANGED vars
  <2>1. Scanning' = Scanning /\ Restarting' = Restarting /\ Begun' = Begun
    BY <1>4 DEF vars, Scanning, Restarting, Begun
  <2>2. FileInv'
    <3>1. Holding' = Holding /\ Keeping' = Keeping
      BY <1>4 DEF vars, Holding, Keeping
    <3> QED BY <1>1, <1>4, <2>1, <3>1 DEF vars, config, copies, FileInv, FileTypes, Places, UntilLost,
                                          CopyOf, TakenBack
  <2>3. ServerTypes' /\ BurstIsBegun'
    BY <1>4, <2>1 DEF vars, restarts, servers, history, IInv, ServerTypes, BurstIsBegun
  <2>4. Sound'
    BY <1>4, <2>1 DEF vars, config, restarts, servers, history, IInv, Sound, Named, OneOrTwo,
                      QuietRuns, Newest
  <2> QED BY <2>2, <2>3, <2>4 DEF IInv, FileInv
<1>5. CASE Crash
  BY <1>5, CrashHolds
<1> QED BY <1>2, <1>3, <1>4, <1>5 DEF Next, FileAction, RestartAction

LEMMA Invariance == Spec => []IInv
BY InitHolds, StepHolds, PTL DEF Spec

(* The types of the state; and the variable of the tunnel server never     *)
(* names a server that was stopped.                                        *)
THEOREM TypeCorrect == Spec => []TypeOK
<1>1. IInv => TypeOK
  <2> SUFFICES ASSUME IInv PROVE TypeOK
    OBVIOUS
  <2>1. Begun \subseteq Restarts /\ IsFiniteSet(Restarts)
    BY ProcessAssumption DEF Begun
  <2>2. /\ Cardinality(Begun) \in Nat /\ Cardinality(Restarts) \in Nat
        /\ Cardinality(Begun) <= Cardinality(Restarts)
    BY <2>1, FS_Subset, FS_CardinalityType
  <2>3. burst \in 0 .. Cardinality(Restarts)
    BY <2>2 DEF IInv, BurstIsBegun
  <2> QED BY <2>3 DEF IInv, FileTypes, ServerTypes, States, TypeOK
<1> QED BY <1>1, Invariance, PTL

(* What is saved stays, but for the login; devices are only added; and the *)
(* scan status is taken back however a scan ends: with any number of scans *)
(* and restarts, and wherever the process dies, until a stale copy is      *)
(* written back.                                                           *)
THEOREM ConfigIsKept == Spec => []ConfigSurvives
<1>1. IInv => ConfigSurvives
  <2> SUFFICES ASSUME IInv, ~lost, Scanning = {}, pc[Boot] = "up" PROVE ~file.scanning
    BY DEF IInv, UntilLost, ConfigSurvives
  <2>1. \A v \in Scans : pc[v] = "idle"
    BY DEF Scanning
  <2> QED BY <2>1 DEF IInv, UntilLost, TakenBack, Ending
<1> QED BY <1>1, Invariance, PTL

(* One restart or two that lost leave one tunnel server and one proxy   *)
(* that listen, those the module variables name; and one that runs alone   *)
(* applies the settings it has read: whatever restarts came before.        *)
THEOREM QuietSound == Spec => []QuietIsSound
<1>1. IInv => QuietIsSound
  <2> SUFFICES ASSUME IInv, Restarting = {}, ~fault, burst \in 1 .. 2
               PROVE  /\ tunnel # None /\ Only(tunnel, tunnels)
                      /\ proxy # None /\ Only(proxy, proxies)
                      /\ burst = 1 /\ ~lost =>
                           \A r \in Restarts : pc[r] = "done" => conf[r] <= conf[tunnel]
    BY DEF QuietIsSound
  <2>1. Named /\ QuietRuns /\ Newest
    BY DEF IInv, Sound
  <2>2. /\ tunnel # None /\ tunnels[tunnel] = "up" /\ tunnel \in Servers
        /\ proxy # None /\ proxies[proxy] = "up" /\ proxy \in Servers
    BY <2>1 DEF QuietRuns, IInv, ServerTypes
  <2>3. Only(tunnel, tunnels) /\ Only(proxy, proxies)
    BY <2>1, <2>2 DEF Only, Named
  <2>4. burst = 1 /\ ~lost => \A r \in Restarts : conf[r] <= conf[tunnel]
    BY <2>1 DEF Newest, Servers
  <2> QED BY <2>2, <2>3, <2>4
<1> QED BY <1>1, Invariance, PTL
================================================================================
