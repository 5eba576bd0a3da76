----------------------------- MODULE TaskCache -----------------------------
(***************************************************************************)
(* The cache of task results of `re-shell run`: CacheController            *)
(* (cache-runner.ts) over LocalFsCache and RemoteCache (cache-store.ts),   *)
(* for one task of one package.  Several checkouts share the cache         *)
(* (--cache-dir, ~/.re-shell/cache) and a remote: their runs look up, build *)
(* and store at once, over a directory per key that is read and removed    *)
(* file by file, while the sources are edited.                             *)
(*                                                                         *)
(* The key of a task is a hash of its sources, command, dependencies and   *)
(* tools, here the version of the sources.  A result carries the version   *)
(* that was built and the checkout that built it: builds of one version    *)
(* differ in their logs and time stamps.                                   *)
(***************************************************************************)
EXTENDS Naturals, FiniteSets

CONSTANTS
  Proc,       \* the checkouts, with one run at a time in each
  Version,    \* the contents the sources may have
  First,      \* the version at the start
  MaxRuns,    \* bound: runs
  MaxEdits    \* bound: edits of the sources

ASSUME CacheAssumption ==
  /\ First \in Version /\ "nothing" \notin Version
  /\ MaxRuns \in Nat /\ MaxEdits \in Nat

VARIABLES
  source,   \* the sources in each checkout
  dist,     \* the outputs there; Nothing also stands for parts of outputs
  entry,    \* the cache directory: the files of the entry of each key
  remote,   \* the remote cache
  pc,       \* where each process is
  key,      \* the memoised key of its run
  got,      \* what it has read of an entry
  cargo,    \* the result it restores or stores: logs and files
  why,      \* what it puts: "hydrate" or "store"
  runs, edits, \* counters for the bounds
  faults,   \* history: a crash, a failed put or a clean may have torn entries
  overlap,  \* history: the sources were edited during a run
  current,  \* history: a run has succeeded there since the last edit
  seen      \* history: the results that were whole during a lookup

vars == <<source, dist, entry, remote, pc, key, got, cargo, why, runs, edits, faults,
          overlap, current, seen>>

Nothing == [of |-> "nothing", by |-> "nobody"]
Result == [of : Version, by : Proc]

\* The files of an entry, in the order in which get reads them.
Part == 1 .. 4
Record == 1
Artifact == 4
NoEntry == [part \in Part |-> Nothing]
NoCargo == [logs |-> Nothing, files |-> Nothing]

Entry(p) == entry[key[p]]
Whole(k) == {r \in Result : \A part \in Part : entry[k][part] = r}

Steps == {"idle", "remote", "read", "restore", "build", "building", "capture", "clear", "move",
          "push"}

\* From the hash of the sources until the outputs are restored or captured.
UnderWay(p) == /\ pc[p] \in Steps \ {"idle", "push"}
               /\ ~(pc[p] \in {"clear", "move"} /\ why[p] = "store")
Reading(p) == pc[p] = "read"

CacheInit ==
  /\ source = [p \in Proc |-> First] /\ dist = [p \in Proc |-> Nothing]
  /\ entry = [k \in Version |-> NoEntry]
  /\ remote = [k \in Version |-> Nothing]
  /\ pc = [p \in Proc |-> "idle"]
  /\ key = [p \in Proc |-> First]
  /\ got = [p \in Proc |-> NoEntry]
  /\ cargo = [p \in Proc |-> NoCargo]
  /\ why = [p \in Proc |-> "store"]
  /\ runs = 0 /\ edits = 0
  /\ faults = FALSE /\ overlap = FALSE
  /\ current = [p \in Proc |-> FALSE]
  /\ seen = [p \in Proc |-> {}]

Goto(p, step) == pc' = [pc EXCEPT ![p] = step]

\* The process ends, and its memory with it.
memory == <<key, got, cargo, why, seen>>
Exits(p) ==
  /\ Goto(p, "idle")
  /\ key' = [key EXCEPT ![p] = First]
  /\ got' = [got EXCEPT ![p] = NoEntry]
  /\ cargo' = [cargo EXCEPT ![p] = NoCargo]
  /\ why' = [why EXCEPT ![p] = "store"]
  /\ seen' = [seen EXCEPT ![p] = {}]

checkout == <<source, dist>>
stores == <<entry, remote>>
history == <<faults, overlap, current>>
bounds == <<runs, edits>>

----------------------------------------------------------------------------
\* tryRestore: the key is computed once, then the remote cache is asked.

StartRun(p) ==
  /\ pc[p] = "idle" /\ runs < MaxRuns
  /\ runs' = runs + 1
  /\ key' = [key EXCEPT ![p] = source[p]]
  /\ Goto(p, "remote")
  /\ UNCHANGED <<checkout, stores, got, cargo, why, edits, history, seen>>

\* What get begins with.
BeginRead(p) ==
  /\ Goto(p, "read")
  /\ got' = [got EXCEPT ![p] = NoEntry]
  /\ why' = [why EXCEPT ![p] = "store"]
  /\ cargo' = [cargo EXCEPT ![p] = NoCargo]
  /\ seen' = [seen EXCEPT ![p] = Whole(key[p])]

\* The remote has the result: it is put into the local cache first.
RemoteHit(p) ==
  /\ pc[p] = "remote" /\ remote[key[p]] # Nothing
  /\ cargo' = [cargo EXCEPT ![p] = [logs |-> remote[key[p]], files |-> remote[key[p]]]]
  /\ why' = [why EXCEPT ![p] = "hydrate"]
  /\ Goto(p, "clear")
  /\ UNCHANGED <<checkout, stores, key, got, bounds, history, seen>>

\* There is no remote, it has nothing, or it cannot be reached.
RemoteMiss(p) ==
  /\ pc[p] = "remote"
  /\ BeginRead(p)
  /\ UNCHANGED <<checkout, stores, key, bounds, history>>

----------------------------------------------------------------------------
\* LocalFsCache.get reads the record, its signature, the signature of the
\* files and the files, one after the other.

NextPart(p) == CHOOSE part \in Part :
  got[p][part] = Nothing /\ \A earlier \in 1 .. (part - 1) : got[p][earlier] # Nothing

\* Mutant: the files are not compared with the hashes of the record.
VerifiedSignatures(parts) == \A part \in Part \ {Artifact} : parts[part] = parts[Record]

Verified(parts) == \A part \in Part : parts[part] = parts[Record]

ReadPart(p) ==
  LET part == NextPart(p)
  IN  /\ Reading(p) /\ part # Artifact
      /\ Entry(p)[part] # Nothing
      /\ got' = [got EXCEPT ![p][part] = Entry(p)[part]]
      /\ UNCHANGED <<checkout, stores, pc, key, cargo, why, bounds, history, seen>>

Misses(p) ==
  /\ Goto(p, "build")
  /\ got' = [got EXCEPT ![p] = NoEntry]
  /\ seen' = [seen EXCEPT ![p] = {}]

\* The last part, the files themselves.
AllRead(p) == Reading(p) /\ NextPart(p) = Artifact /\ Entry(p)[Artifact] # Nothing
Parts(p) == [got[p] EXCEPT ![Artifact] = Entry(p)[Artifact]]

\* A hit.
ReadHit(p) ==
  /\ AllRead(p) /\ Verified(Parts(p))
  /\ cargo' = [cargo EXCEPT ![p] = [logs |-> Parts(p)[Record], files |-> Parts(p)[Artifact]]]
  /\ got' = [got EXCEPT ![p] = NoEntry]
  /\ Goto(p, "restore")
  /\ UNCHANGED <<checkout, stores, key, why, bounds, history, seen>>

\* An entry that is not sound counts as absent.
ReadTorn(p) ==
  /\ AllRead(p) /\ ~Verified(Parts(p))
  /\ Misses(p)
  /\ UNCHANGED <<checkout, stores, key, cargo, why, bounds, history>>

\* A file is missing.
ReadMiss(p) ==
  /\ Reading(p) /\ Entry(p)[NextPart(p)] = Nothing
  /\ Misses(p)
  /\ UNCHANGED <<checkout, stores, key, cargo, why, bounds, history>>

\* restoreOutputs; the task is not run.
Restore(p) ==
  /\ pc[p] = "restore"
  /\ dist' = [dist EXCEPT ![p] = cargo[p].files]
  /\ current' = [current EXCEPT ![p] = @ \/ key[p] = source[p]]
  /\ Exits(p)
  /\ UNCHANGED <<source, stores, bounds, faults, overlap>>

\* A file cannot be written: that counts as a miss.
RestoreFails(p) ==
  /\ pc[p] = "restore"
  /\ dist' = [dist EXCEPT ![p] = Nothing]
  /\ current' = [current EXCEPT ![p] = FALSE]
  /\ Misses(p)
  /\ UNCHANGED <<source, stores, key, cargo, why, bounds, faults, overlap>>

----------------------------------------------------------------------------
\* A miss: the task is run, and its result stored if it succeeds.

BuildStarts(p) ==
  /\ pc[p] = "build"
  /\ cargo' = [cargo EXCEPT ![p].files = [of |-> source[p], by |-> p]]
  /\ Goto(p, "building")
  /\ UNCHANGED <<checkout, stores, key, got, why, bounds, history, seen>>

BuildSucceeds(p) ==
  /\ pc[p] = "building"
  /\ dist' = [dist EXCEPT ![p] = cargo[p].files]
  /\ Goto(p, "capture")
  /\ UNCHANGED <<source, stores, memory, bounds, history>>

\* Mutant: what a failed build left behind is stored.
BuildFailsButIsStored(p) ==
  /\ pc[p] = "building"
  /\ Goto(p, "capture")
  /\ UNCHANGED <<checkout, stores, memory, bounds, history>>

BuildFails(p) ==
  /\ pc[p] = "building"
  /\ dist' = [dist EXCEPT ![p] = Nothing]
  /\ current' = [current EXCEPT ![p] = FALSE]
  /\ Exits(p)
  /\ UNCHANGED <<source, stores, bounds, faults, overlap>>

\* captureOutputs: what lies in the checkout now is stored under the key.
Capture(p) ==
  /\ pc[p] = "capture"
  /\ cargo' = [cargo EXCEPT ![p] = [logs |-> dist[p], files |-> dist[p]]]
  /\ why' = [why EXCEPT ![p] = "store"]
  /\ Goto(p, "clear")
  /\ current' = [current EXCEPT ![p] = @ \/ key[p] = source[p]]
  /\ UNCHANGED <<checkout, stores, key, got, bounds, faults, overlap, seen>>

----------------------------------------------------------------------------
\* LocalFsCache.put: the new entry is complete in a directory of its own; the
\* old one is removed file by file and the new one moved into its place.

RemovePart(p) ==
  /\ pc[p] = "clear"
  /\ \E part \in Part :
       /\ Entry(p)[part] # Nothing
       /\ entry' = [entry EXCEPT ![key[p]][part] = Nothing]
  /\ UNCHANGED <<checkout, remote, pc, memory, bounds, history>>

Cleared(p) ==
  /\ pc[p] = "clear" /\ Entry(p) = NoEntry
  /\ Goto(p, "move")
  /\ UNCHANGED <<checkout, stores, memory, bounds, history>>

AfterPut(p) == IF why[p] = "hydrate" THEN "restore" ELSE "push"

\* Mutant: the new files are moved over what another process has put there, and
\* an artifact that exists is kept, as it has the same key.
MoveOver(p) ==
  /\ pc[p] = "move"
  /\ entry' = [entry EXCEPT ![key[p]] =
                 [part \in Part |-> IF part = Artifact /\ @[part] # Nothing THEN @[part]
                                    ELSE cargo[p].files]]
  /\ seen' = [q \in Proc |-> IF Reading(q) /\ key[q] = key[p] THEN seen[q] \cup {cargo[p].files}
                             ELSE seen[q]]
  /\ Goto(p, AfterPut(p))
  /\ UNCHANGED <<checkout, remote, key, got, cargo, why, bounds, history>>

Move(p) ==
  /\ pc[p] = "move" /\ Entry(p) = NoEntry
  /\ entry' = [entry EXCEPT ![key[p]] = [part \in Part |-> cargo[p].files]]
  /\ seen' = [q \in Proc |-> IF Reading(q) /\ key[q] = key[p] THEN seen[q] \cup {cargo[p].files}
                             ELSE seen[q]]
  /\ Goto(p, AfterPut(p))
  /\ UNCHANGED <<checkout, remote, key, got, cargo, why, bounds, history>>

\* The put throws: the result that was to be hydrated is looked up locally, a
\* result that was to be stored is given up.
GivesUp(p) ==
  IF why[p] = "hydrate"
  THEN BeginRead(p) /\ UNCHANGED key
  ELSE Exits(p)

\* Another process has moved its entry there first.
MoveTaken(p) ==
  /\ pc[p] = "move" /\ Entry(p) # NoEntry
  /\ GivesUp(p)
  /\ UNCHANGED <<checkout, stores, bounds, history>>

\* A file cannot be written or removed.
PutFails(p) ==
  /\ pc[p] \in {"clear", "move"}
  /\ faults' = TRUE
  /\ GivesUp(p)
  /\ UNCHANGED <<checkout, stores, bounds, overlap, current>>

\* The push to the remote succeeds or fails; the run ends either way.
Push(p) ==
  /\ pc[p] = "push"
  /\ remote' \in {remote, [remote EXCEPT ![key[p]] = cargo[p].files]}
  /\ Exits(p)
  /\ UNCHANGED <<checkout, entry, bounds, history>>

----------------------------------------------------------------------------
\* The world around.

Crash(p) ==
  /\ pc[p] # "idle"
  /\ Exits(p)
  /\ faults' = (faults \/ pc[p] \in {"clear", "move"})
  /\ IF pc[p] \in {"building", "restore"}
     THEN /\ dist' = [dist EXCEPT ![p] = Nothing]
          /\ current' = [current EXCEPT ![p] = FALSE]
     ELSE UNCHANGED <<dist, current>>
  /\ UNCHANGED <<source, stores, bounds, overlap>>

Edit(p) ==
  /\ edits < MaxEdits /\ edits' = edits + 1
  /\ \E v \in Version \ {source[p]} : source' = [source EXCEPT ![p] = v]
  /\ overlap' = (overlap \/ UnderWay(p))
  /\ current' = [current EXCEPT ![p] = FALSE]
  /\ UNCHANGED <<dist, stores, pc, memory, runs, faults>>

\* `re-shell cache clean` removes the files of every entry, one by one.
CleanCache ==
  /\ \E k \in Version, part \in Part :
       /\ entry[k][part] # Nothing
       /\ entry' = [entry EXCEPT ![k][part] = Nothing]
  /\ faults' = TRUE
  /\ UNCHANGED <<checkout, remote, pc, memory, bounds, overlap, current>>

Lookup(p) == StartRun(p) \/ RemoteHit(p) \/ RemoteMiss(p) \/ ReadPart(p) \/ ReadHit(p)
             \/ ReadTorn(p) \/ ReadMiss(p) \/ Restore(p) \/ RestoreFails(p)
Build(p) == BuildStarts(p) \/ BuildSucceeds(p) \/ BuildFails(p) \/ Capture(p)
Put(p) == RemovePart(p) \/ Cleared(p) \/ Move(p) \/ MoveTaken(p) \/ PutFails(p) \/ Push(p)

CacheNext ==
  \/ \E p \in Proc : Lookup(p) \/ Build(p) \/ Put(p) \/ Crash(p) \/ Edit(p)
  \/ CleanCache

CacheSpec == CacheInit /\ [][CacheNext]_vars

----------------------------------------------------------------------------
\* Type invariant: what a process is about to restore or to store is a result,
\* and nobody has read the files of an entry before it decides (get, put).
CacheTypeOK ==
  /\ source \in [Proc -> Version] /\ dist \in [Proc -> Result \cup {Nothing}]
  /\ entry \in [Version -> [Part -> Result \cup {Nothing}]]
  /\ remote \in [Version -> Result \cup {Nothing}]
  /\ pc \in [Proc -> Steps] /\ key \in [Proc -> Version]
  /\ got \in [Proc -> [Part -> Result \cup {Nothing}]]
  /\ cargo \in [Proc -> [logs : Result \cup {Nothing}, files : Result \cup {Nothing}]]
  /\ why \in [Proc -> {"hydrate", "store"}]
  /\ seen \in [Proc -> SUBSET Result]
  /\ {faults, overlap} \subseteq BOOLEAN /\ current \in [Proc -> BOOLEAN]
  /\ \A p \in Proc :
       /\ Reading(p) => got[p][Artifact] = Nothing
       /\ pc[p] \in {"building", "restore", "clear", "move", "push"} => cargo[p].files \in Result
       /\ pc[p] = "capture" => dist[p] \in Result

\* Whatever is removed, replaced or torn while it reads, what a lookup takes for
\* a hit, logs and files, was the whole entry at one moment of the lookup: get
\* is atomic although it reads file by file (LocalFsCache.get and put).
HitWasWhole ==
  \A p \in Proc : pc[p] = "restore" /\ why[p] = "store" =>
    \E r \in seen[p] : cargo[p] = [logs |-> r, files |-> r]

\* However puts of one key overtake and fail one another, they leave a whole
\* entry or none, unless one was cut short or the cache is being cleaned (put).
TornByFaultsOnly ==
  ~faults /\ (\A p \in Proc : pc[p] # "clear") =>
    \A k \in Version : entry[k] = NoEntry \/ Whole(k) # {}

\* After a run the outputs in a checkout are those of its sources, whether
\* they were built or restored, from whatever was stored by whom: provided
\* that nobody edited sources during a run (tryRestore, store).
OutputsAreFresh ==
  ~overlap => \A p \in Proc : current[p] => dist[p].of = source[p]
=============================================================================
