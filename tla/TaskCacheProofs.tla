--------------------------- MODULE TaskCacheProofs ---------------------------
(***************************************************************************)
(* Proofs about TaskCache, for any number of checkouts, contents, runs and *)
(* edits.                                                                  *)
(***************************************************************************)
EXTENDS TaskCache, TLAPS

LEMMA NothingIsNoResult == Nothing \notin Result
BY CacheAssumption DEF Nothing, Result

\* What get reads next: the first part it does not have.
LEMMA NextPartIsFirst ==
  ASSUME NEW p \in Proc, CacheTypeOK, Reading(p)
  PROVE  /\ NextPart(p) \in Part /\ got[p][NextPart(p)] = Nothing
         /\ \A earlier \in 1 .. (NextPart(p) - 1) : got[p][earlier] # Nothing
<1>1. got[p][4] = Nothing
  BY DEF CacheTypeOK, Artifact
<1>2. \E part \in Part :
        got[p][part] = Nothing /\ \A earlier \in 1 .. (part - 1) : got[p][earlier] # Nothing
  <2>1. CASE got[p][1] = Nothing
    BY <2>1 DEF Part
  <2>2. CASE got[p][1] # Nothing /\ got[p][2] = Nothing
    BY <2>2 DEF Part
  <2>3. CASE got[p][1] # Nothing /\ got[p][2] # Nothing /\ got[p][3] = Nothing
    BY <2>3 DEF Part
  <2>4. CASE got[p][1] # Nothing /\ got[p][2] # Nothing /\ got[p][3] # Nothing
    BY <1>1, <2>4 DEF Part
  <2>5. QED
    BY <2>1, <2>2, <2>3, <2>4
<1>3. QED
  BY <1>2 DEF NextPart

----------------------------------------------------------------------------
\* Types.

LEMMA InitTypes == CacheInit => CacheTypeOK
<1>1. SUFFICES ASSUME CacheInit PROVE CacheTypeOK
  OBVIOUS
<1>2. /\ source \in [Proc -> Version] /\ dist \in [Proc -> Result \cup {Nothing}]
      /\ entry \in [Version -> [Part -> Result \cup {Nothing}]]
      /\ remote \in [Version -> Result \cup {Nothing}]
      /\ pc \in [Proc -> Steps] /\ key \in [Proc -> Version]
  BY <1>1, CacheAssumption DEF CacheInit, NoEntry, Steps
<1>3. /\ got \in [Proc -> [Part -> Result \cup {Nothing}]]
      /\ cargo \in [Proc -> [logs : Result \cup {Nothing}, files : Result \cup {Nothing}]]
      /\ why \in [Proc -> {"hydrate", "store"}]
      /\ seen \in [Proc -> SUBSET Result]
      /\ {faults, overlap} \subseteq BOOLEAN /\ current \in [Proc -> BOOLEAN]
  BY <1>1 DEF CacheInit, NoEntry, NoCargo
<1>4. \A p \in Proc : pc[p] = "idle"
  BY <1>1 DEF CacheInit
<1>5. QED
  BY <1>2, <1>3, <1>4 DEF CacheTypeOK, Reading

\* The process ends.
LEMMA ExitTypes ==
  ASSUME CacheTypeOK, NEW p \in Proc, Exits(p)
  PROVE  /\ pc' \in [Proc -> Steps] /\ key' \in [Proc -> Version]
         /\ got' \in [Proc -> [Part -> Result \cup {Nothing}]]
         /\ cargo' \in [Proc -> [logs : Result \cup {Nothing}, files : Result \cup {Nothing}]]
         /\ why' \in [Proc -> {"hydrate", "store"}]
         /\ seen' \in [Proc -> SUBSET Result]
         /\ pc'[p] = "idle"
         /\ \A q \in Proc \ {p} : pc'[q] = pc[q] /\ got'[q] = got[q] /\ cargo'[q] = cargo[q]
BY CacheAssumption DEF CacheTypeOK, Exits, Goto, NoEntry, NoCargo, Steps

LEMMA LookupTypes ==
  ASSUME CacheTypeOK, NEW p \in Proc, Lookup(p)
  PROVE  CacheTypeOK'
<1> USE DEF CacheTypeOK, Reading, checkout, stores, history, bounds, memory
<1>1. CASE StartRun(p)
  BY <1>1 DEF StartRun, Goto, Steps
<1>2. CASE RemoteHit(p)
  BY <1>2 DEF RemoteHit, Goto, Steps
<1>3. CASE RemoteMiss(p)
  BY <1>3 DEF RemoteMiss, BeginRead, Goto, Steps, NoEntry, NoCargo, Whole, Part, Artifact
<1>4. CASE ReadPart(p)
  <2>1. NextPart(p) \in Part /\ NextPart(p) # Artifact
    BY <1>4, NextPartIsFirst DEF ReadPart
  <2>2. Entry(p)[NextPart(p)] \in Result \cup {Nothing}
    BY <2>1 DEF Entry
  <2>3. got' = [got EXCEPT ![p][NextPart(p)] = Entry(p)[NextPart(p)]]
    BY <1>4 DEF ReadPart
  <2>4. got' \in [Proc -> [Part -> Result \cup {Nothing}]]
    BY <2>1, <2>2, <2>3
  <2>5. \A q \in Proc : Reading(q) => got'[q][Artifact] = Nothing
    BY <2>1, <2>3 DEF Part, Artifact
  <2>6. QED
    BY <1>4, <2>4, <2>5 DEF ReadPart
<1>5. CASE ReadHit(p)
  <2>1. Parts(p)[Artifact] \in Result /\ Parts(p)[Record] \in Result \cup {Nothing}
    BY <1>5 DEF ReadHit, AllRead, Parts, Entry, Part, Artifact, Record
  <2>2. QED
    BY <1>5, <2>1 DEF ReadHit, Goto, Steps, NoEntry
<1>10. CASE ReadTorn(p)
  BY <1>10 DEF ReadTorn, Misses, Goto, Steps, NoEntry
<1>6. CASE ReadMiss(p)
  BY <1>6 DEF ReadMiss, Misses, Goto, Steps, NoEntry
<1>7. CASE Restore(p)
  BY <1>7, ExitTypes DEF Restore
<1>8. CASE RestoreFails(p)
  BY <1>8 DEF RestoreFails, Misses, Goto, Steps, NoEntry
<1>9. QED
  BY <1>1, <1>2, <1>3, <1>4, <1>5, <1>6, <1>7, <1>8, <1>10 DEF Lookup

LEMMA BuildStartsTypes ==
  ASSUME CacheTypeOK, NEW p \in Proc, BuildStarts(p)
  PROVE  CacheTypeOK'
<1> DEFINE C == [logs : Result \cup {Nothing}, files : Result \cup {Nothing}]
<1>1. PICK r \in Result : r = [of |-> source[p], by |-> p]
  BY DEF CacheTypeOK, Result
<1>2. cargo \in [Proc -> C] /\ pc \in [Proc -> Steps]
  BY DEF CacheTypeOK
<1>3. PICK c \in C : c = [cargo[p] EXCEPT !.files = r]
  <2>1. cargo[p] \in C
    BY <1>2
  <2>2. QED
    BY <1>1, <2>1
<1>4. cargo' = [cargo EXCEPT ![p] = c] /\ pc' = [pc EXCEPT ![p] = "building"]
  BY <1>1, <1>3 DEF BuildStarts, Goto
<1>5. c.files \in Result
  <2>1. cargo[p] \in C
    BY <1>2
  <2>2. QED
    BY <1>1, <1>3, <2>1
<1> HIDE DEF C
<1>6. cargo' \in [Proc -> C]
  BY <1>2, <1>3, <1>4
<1>7. pc' \in [Proc -> Steps]
  BY <1>2, <1>4 DEF Steps
<1>8. ASSUME NEW q \in Proc
      PROVE  /\ Reading(q)' => got'[q][Artifact] = Nothing
             /\ pc'[q] \in {"building", "restore", "clear", "move", "push"} => cargo'[q].files \in Result
             /\ pc'[q] = "capture" => dist'[q] \in Result
  <2>1. got' = got /\ (Reading(q) => got[q][Artifact] = Nothing)
    BY DEF BuildStarts, CacheTypeOK
  <2>2. /\ pc[q] \in {"building", "restore", "clear", "move", "push"} => cargo[q].files \in Result
        /\ pc[q] = "capture" => dist[q] \in Result
        /\ dist' = dist
    BY DEF BuildStarts, CacheTypeOK, checkout
  <2>3. CASE q = p
    <3>1. cargo'[q] = c /\ pc'[q] = "building"
      BY <1>2, <1>4, <2>3
    <3>2. QED
      BY <1>5, <2>1, <2>2, <3>1 DEF Reading
  <2>4. CASE q # p
    <3>1. cargo'[q] = cargo[q] /\ pc'[q] = pc[q]
      BY <1>2, <1>4, <2>4
    <3>2. QED
      BY <2>1, <2>2, <3>1 DEF Reading
  <2>5. QED
    BY <2>3, <2>4
<1>9. QED
  BY <1>6, <1>7, <1>8 DEF C, CacheTypeOK, BuildStarts, checkout, stores, history, bounds

LEMMA BuildTypes ==
  ASSUME CacheTypeOK, NEW p \in Proc, Build(p)
  PROVE  CacheTypeOK'
<1>1. CASE BuildStarts(p)
  BY <1>1, BuildStartsTypes
<1> USE DEF CacheTypeOK, Reading, checkout, stores, history, bounds, memory
<1>2. CASE BuildSucceeds(p)
  BY <1>2 DEF BuildSucceeds, Goto, Steps
<1>3. CASE BuildFails(p)
  BY <1>3, ExitTypes DEF BuildFails
<1>4. CASE Capture(p)
  BY <1>4 DEF Capture, Goto, Steps
<1>5. QED
  BY <1>1, <1>2, <1>3, <1>4 DEF Build

\* A put that throws.
LEMMA GivesUpTypes ==
  ASSUME CacheTypeOK, NEW p \in Proc, pc[p] \in {"clear", "move"}, GivesUp(p),
         UNCHANGED <<source, dist, entry, remote, current>>,
         {faults', overlap'} \subseteq BOOLEAN
  PROVE  CacheTypeOK'
<1>1. CASE why[p] = "hydrate"
  <2>1. BeginRead(p) /\ UNCHANGED key
    BY <1>1 DEF GivesUp
  <2>2. Whole(key[p]) \in SUBSET Result
    BY DEF Whole
  <2>3. QED
    BY <2>1, <2>2 DEF CacheTypeOK, Reading, BeginRead, Goto, Steps, NoEntry, NoCargo, Part, Artifact
<1>2. CASE why[p] # "hydrate"
  BY <1>2, ExitTypes DEF CacheTypeOK, Reading, GivesUp
<1>3. QED
  BY <1>1, <1>2

LEMMA PutTypes ==
  ASSUME CacheTypeOK, NEW p \in Proc, Put(p)
  PROVE  CacheTypeOK'
<1> USE DEF checkout, stores, history, bounds, memory
<1>1. CASE RemovePart(p)
  BY <1>1 DEF RemovePart, CacheTypeOK, Reading, Entry
<1>2. CASE Cleared(p)
  BY <1>2 DEF Cleared, CacheTypeOK, Reading, Goto, Steps
<1>3. CASE Move(p)
  <2>1. cargo[p].files \in Result /\ AfterPut(p) \in {"restore", "push"}
    BY <1>3 DEF Move, CacheTypeOK, AfterPut
  <2>2. QED
    BY <1>3, <2>1 DEF Move, CacheTypeOK, Reading, Goto, Steps
<1>4. CASE MoveTaken(p)
  BY <1>4, GivesUpTypes DEF MoveTaken, CacheTypeOK
<1>5. CASE PutFails(p)
  BY <1>5, GivesUpTypes DEF PutFails, CacheTypeOK
<1>6. CASE Push(p)
  <2>1. cargo[p].files \in Result
    BY <1>6 DEF Push, CacheTypeOK
  <2>2. remote' \in [Version -> Result \cup {Nothing}]
    BY <1>6, <2>1 DEF Push, CacheTypeOK
  <2>3. QED
    BY <1>6, <2>2, ExitTypes DEF Push, CacheTypeOK, Reading
<1>7. QED
  BY <1>1, <1>2, <1>3, <1>4, <1>5, <1>6 DEF Put

LEMMA NextTypes ==
  ASSUME CacheTypeOK, [CacheNext]_vars
  PROVE  CacheTypeOK'
<1> USE DEF checkout, stores, history, bounds, memory
<1>1. ASSUME NEW p \in Proc, Crash(p) PROVE CacheTypeOK'
  <2>1. CASE pc[p] \in {"building", "restore"}
    <3>1. Exits(p) /\ UNCHANGED <<source, entry, remote, overlap>> /\ faults' \in BOOLEAN
      BY <1>1 DEF Crash, CacheTypeOK
    <3>2. /\ dist' = [dist EXCEPT ![p] = Nothing]
          /\ current' = [current EXCEPT ![p] = FALSE]
      BY <1>1, <2>1 DEF Crash
    <3>3. /\ dist' \in [Proc -> Result \cup {Nothing}] /\ current' \in [Proc -> BOOLEAN]
          /\ \A q \in Proc \ {p} : dist'[q] = dist[q]
      BY <3>2 DEF CacheTypeOK
    <3>4. QED
      BY <3>1, <3>3, ExitTypes DEF CacheTypeOK, Reading
  <2>2. CASE pc[p] \notin {"building", "restore"}
    BY <1>1, <2>2, ExitTypes DEF Crash, CacheTypeOK, Reading
  <2>3. QED
    BY <2>1, <2>2
<1>2. ASSUME NEW p \in Proc, Edit(p) PROVE CacheTypeOK'
  BY <1>2 DEF Edit, CacheTypeOK, Reading
<1>3. CASE CleanCache
  BY <1>3 DEF CleanCache, CacheTypeOK, Reading
<1>4. CASE UNCHANGED vars
  BY <1>4 DEF vars, CacheTypeOK, Reading
<1>5. QED
  BY <1>1, <1>2, <1>3, <1>4, LookupTypes, BuildTypes, PutTypes DEF CacheNext

\* The caches hold results, and what is put there or restored is one.
THEOREM CacheTypes == CacheSpec => []CacheTypeOK
BY InitTypes, NextTypes, PTL DEF CacheSpec

----------------------------------------------------------------------------
\* A hit was whole.

\* While a process reads: whatever result all it has read belongs to was whole
\* since the lookup began, or a part that it has yet to read belongs to another.
\* Removing a part keeps that; so does an entry moved in, as it is whole then.
Undecided(p, r) == \E part \in Part : got[p][part] = Nothing /\ Entry(p)[part] # r
ReadSoFar(p, r) == \A part \in Part : got[p][part] # Nothing => got[p][part] = r
ReadingInv ==
  \A p \in Proc, r \in Result :
    Reading(p) /\ ReadSoFar(p, r) => r \in seen[p] \/ Undecided(p, r)
HitInv == CacheTypeOK /\ ReadingInv /\ HitWasWhole

LEMMA InitHit == CacheInit => HitInv
BY InitTypes DEF CacheInit, HitInv, ReadingInv, HitWasWhole, Reading

\* Steps of p that change no entry: those of others see nothing of it.
LEMMA HitElsewhere ==
  ASSUME HitInv, CacheTypeOK', NEW p \in Proc, UNCHANGED entry,
         \A q \in Proc \ {p} : /\ pc'[q] = pc[q] /\ key'[q] = key[q] /\ got'[q] = got[q]
                              /\ cargo'[q] = cargo[q] /\ why'[q] = why[q] /\ seen'[q] = seen[q],
         \A r \in Result : Reading(p)' /\ ReadSoFar(p, r)' => r \in seen'[p] \/ Undecided(p, r)',
         pc'[p] = "restore" /\ why'[p] = "store" =>
           \E r \in seen'[p] : cargo'[p] = [logs |-> r, files |-> r]
  PROVE  HitInv'
<1>1. ReadingInv'
  <2>1. SUFFICES ASSUME NEW q \in Proc, NEW r \in Result, Reading(q)', ReadSoFar(q, r)'
                 PROVE  r \in seen'[q] \/ Undecided(q, r)'
    BY DEF ReadingInv
  <2>2. CASE q = p
    BY <2>1, <2>2
  <2>3. CASE q # p
    BY <2>1, <2>3 DEF HitInv, ReadingInv, Reading, ReadSoFar, Undecided, Entry
  <2>4. QED
    BY <2>2, <2>3
<1>2. HitWasWhole'
  BY DEF HitInv, HitWasWhole
<1>3. QED
  BY <1>1, <1>2 DEF HitInv

LEMMA ExitHit ==
  ASSUME HitInv, CacheTypeOK', NEW p \in Proc, Exits(p), UNCHANGED entry
  PROVE  HitInv'
<1>1. pc'[p] = "idle"
  BY DEF Exits, Goto, HitInv, CacheTypeOK
<1>2. \A q \in Proc \ {p} : /\ pc'[q] = pc[q] /\ key'[q] = key[q] /\ got'[q] = got[q]
                             /\ cargo'[q] = cargo[q] /\ why'[q] = why[q] /\ seen'[q] = seen[q]
  BY DEF Exits, Goto, HitInv, CacheTypeOK
<1>3. QED
  BY <1>1, <1>2, HitElsewhere DEF Reading

\* A lookup begins: an entry is whole, or some part of it is not of r.
LEMMA BeginReadHit ==
  ASSUME HitInv, CacheTypeOK', NEW p \in Proc, BeginRead(p), UNCHANGED <<entry, key>>
  PROVE  HitInv'
<1>1. /\ pc'[p] = "read" /\ seen'[p] = Whole(key[p]) /\ got'[p] = NoEntry
      /\ key'[p] = key[p]
  BY DEF BeginRead, Goto, HitInv, CacheTypeOK
<1>2. \A q \in Proc \ {p} : /\ pc'[q] = pc[q] /\ key'[q] = key[q] /\ got'[q] = got[q]
                             /\ cargo'[q] = cargo[q] /\ why'[q] = why[q] /\ seen'[q] = seen[q]
  BY DEF BeginRead, Goto, HitInv, CacheTypeOK
<1>3. \A r \in Result : r \in seen'[p] \/ Undecided(p, r)'
  BY <1>1 DEF Whole, Undecided, Entry, NoEntry
<1>4. QED
  BY <1>1, <1>2, <1>3, HitElsewhere

\* Neither reading nor about to restore what was read.
LEMMA AwayHit ==
  ASSUME HitInv, CacheTypeOK', NEW p \in Proc, NEW step \in Steps \ {"read"}, Goto(p, step),
         UNCHANGED <<entry, key>>, step = "restore" => why'[p] # "store",
         \A q \in Proc \ {p} : /\ got'[q] = got[q] /\ cargo'[q] = cargo[q]
                               /\ why'[q] = why[q] /\ seen'[q] = seen[q]
  PROVE  HitInv'
<1>1. pc'[p] = step /\ \A q \in Proc \ {p} : pc'[q] = pc[q] /\ key'[q] = key[q]
  BY DEF Goto, HitInv, CacheTypeOK
<1>2. QED
  BY <1>1, HitElsewhere DEF Reading

LEMMA LookupHit ==
  ASSUME HitInv, CacheTypeOK', NEW p \in Proc, Lookup(p)
  PROVE  HitInv'
<1> USE DEF checkout, stores, history, bounds, memory
<1>1. CASE StartRun(p)
  <2>1. /\ pc'[p] = "remote" /\ UNCHANGED <<entry, got, cargo, why, seen>>
        /\ \A q \in Proc \ {p} : pc'[q] = pc[q] /\ key'[q] = key[q]
    BY <1>1 DEF StartRun, Goto, HitInv, CacheTypeOK
  <2>2. QED
    BY <2>1, HitElsewhere DEF Reading
<1>2. CASE RemoteHit(p)
  BY <1>2, AwayHit DEF RemoteHit, Steps, HitInv, CacheTypeOK
<1>3. CASE RemoteMiss(p)
  BY <1>3, BeginReadHit DEF RemoteMiss
<1>4. CASE ReadPart(p)
  <2>1. /\ Reading(p) /\ NextPart(p) \in Part /\ NextPart(p) # Artifact
        /\ got[p][NextPart(p)] = Nothing /\ Entry(p)[NextPart(p)] # Nothing
    BY <1>4, NextPartIsFirst DEF ReadPart, HitInv
  <2>2. /\ UNCHANGED <<entry, pc, key, cargo, why, seen>>
        /\ \A q \in Proc \ {p} : got'[q] = got[q]
        /\ got'[p] = [got[p] EXCEPT ![NextPart(p)] = Entry(p)[NextPart(p)]]
    BY <1>4 DEF ReadPart, HitInv, CacheTypeOK
  <2>3. ASSUME NEW r \in Result, ReadSoFar(p, r)'
        PROVE  r \in seen'[p] \/ Undecided(p, r)'
    <3>1. /\ got'[p][NextPart(p)] = Entry(p)[NextPart(p)]
          /\ \A part \in Part \ {NextPart(p)} : got'[p][part] = got[p][part]
      BY <2>1, <2>2 DEF HitInv, CacheTypeOK
    <3>2. ReadSoFar(p, r) /\ Entry(p)[NextPart(p)] = r
      BY <2>1, <2>3, <3>1 DEF ReadSoFar
    <3>3. r \in seen[p] \/ Undecided(p, r)
      BY <2>1, <3>2 DEF HitInv, ReadingInv
    <3>4. QED
      BY <2>2, <3>1, <3>2, <3>3 DEF Undecided, Entry
  <2>4. pc'[p] = "read"
    BY <2>1, <2>2 DEF Reading
  <2>5. QED
    BY <2>2, <2>3, <2>4, HitElsewhere
<1>5. CASE ReadHit(p)
  <2>1. /\ Reading(p) /\ Verified(Parts(p)) /\ Entry(p)[Artifact] # Nothing
        /\ \A part \in Part \ {Artifact} : got[p][part] # Nothing
    BY <1>5, NextPartIsFirst DEF ReadHit, AllRead, HitInv, Part, Artifact
  <2> DEFINE r == Parts(p)[Record]
  <2>2. \A part \in Part : Parts(p)[part] = r
    BY <2>1 DEF Verified
  <2>3. /\ Parts(p)[Artifact] = Entry(p)[Artifact]
        /\ \A part \in Part \ {Artifact} : Parts(p)[part] = got[p][part]
    BY DEF Parts, HitInv, CacheTypeOK, Part, Artifact
  <2>4. r \in Result /\ ReadSoFar(p, r) /\ ~Undecided(p, r)
    BY <2>1, <2>2, <2>3 DEF HitInv, CacheTypeOK, ReadSoFar, Undecided, Entry, Part, Artifact, Record
  <2>5. r \in seen[p]
    BY <2>1, <2>4 DEF HitInv, ReadingInv
  <2>6. /\ UNCHANGED <<entry, key, why, seen>> /\ pc'[p] = "restore"
        /\ cargo'[p] = [logs |-> r, files |-> Parts(p)[Artifact]]
        /\ \A q \in Proc \ {p} : pc'[q] = pc[q] /\ got'[q] = got[q] /\ cargo'[q] = cargo[q]
    BY <1>5 DEF ReadHit, Goto, HitInv, CacheTypeOK
  <2>7. cargo'[p] = [logs |-> r, files |-> r] /\ r \in seen'[p]
    BY <2>2, <2>5, <2>6 DEF Part, Artifact
  <2>8. QED
    BY <2>6, <2>7, HitElsewhere DEF Reading
<1>6. CASE ReadTorn(p)
  BY <1>6, AwayHit DEF ReadTorn, Misses, Steps, HitInv, CacheTypeOK
<1>7. CASE ReadMiss(p)
  BY <1>7, AwayHit DEF ReadMiss, Misses, Steps, HitInv, CacheTypeOK
<1>8. CASE Restore(p)
  BY <1>8, ExitHit DEF Restore
<1>9. CASE RestoreFails(p)
  BY <1>9, AwayHit DEF RestoreFails, Misses, Steps, HitInv, CacheTypeOK
<1>10. QED
  BY <1>1, <1>2, <1>3, <1>4, <1>5, <1>6, <1>7, <1>8, <1>9 DEF Lookup

LEMMA BuildHit ==
  ASSUME HitInv, CacheTypeOK', NEW p \in Proc, Build(p)
  PROVE  HitInv'
<1> USE DEF checkout, stores, history, bounds, memory
<1>1. CASE BuildStarts(p)
  BY <1>1, AwayHit DEF BuildStarts, Steps, HitInv, CacheTypeOK
<1>2. CASE BuildSucceeds(p)
  BY <1>2, AwayHit DEF BuildSucceeds, Steps, HitInv, CacheTypeOK
<1>3. CASE BuildFails(p)
  BY <1>3, ExitHit DEF BuildFails
<1>4. CASE Capture(p)
  BY <1>4, AwayHit DEF Capture, Steps, HitInv, CacheTypeOK
<1>5. QED
  BY <1>1, <1>2, <1>3, <1>4 DEF Build

\* A part is removed, by whom it may be.
LEMMA RemovalHit ==
  ASSUME HitInv, CacheTypeOK', NEW k \in Version, NEW part \in Part,
         entry' = [entry EXCEPT ![k][part] = Nothing], UNCHANGED <<pc, memory>>
  PROVE  HitInv'
<1>1. ReadingInv'
  <2>1. SUFFICES ASSUME NEW q \in Proc, NEW r \in Result, Reading(q), ReadSoFar(q, r)
                 PROVE  r \in seen[q] \/ Undecided(q, r)'
    BY DEF ReadingInv, Reading, ReadSoFar, memory
  <2>2. r \in seen[q] \/ Undecided(q, r)
    BY <2>1 DEF HitInv, ReadingInv
  <2>3. \A other \in Part : Entry(q)'[other] \in {Entry(q)[other], Nothing}
    BY DEF Entry, HitInv, CacheTypeOK, memory
  <2>4. QED
    BY <2>2, <2>3, NothingIsNoResult DEF Undecided, memory
<1>2. QED
  BY <1>1 DEF HitInv, HitWasWhole, memory

LEMMA GivesUpHit ==
  ASSUME HitInv, CacheTypeOK', NEW p \in Proc, GivesUp(p), UNCHANGED entry
  PROVE  HitInv'
BY BeginReadHit, ExitHit DEF GivesUp

LEMMA PutHit ==
  ASSUME HitInv, CacheTypeOK', NEW p \in Proc, Put(p)
  PROVE  HitInv'
<1> USE DEF checkout, stores, history, bounds
<1>1. CASE RemovePart(p)
  BY <1>1, RemovalHit DEF RemovePart, HitInv, CacheTypeOK
<1>2. CASE Cleared(p)
  BY <1>2, AwayHit DEF Cleared, Steps, memory, HitInv, CacheTypeOK
<1>3. CASE Move(p)
  <2> DEFINE r == cargo[p].files
  <2>1. /\ UNCHANGED <<key, got, cargo, why>>
        /\ pc'[p] = AfterPut(p) /\ \A q \in Proc \ {p} : pc'[q] = pc[q]
        /\ \A part \in Part : entry'[key[p]][part] = r
        /\ \A k \in Version \ {key[p]} : entry'[k] = entry[k]
        /\ pc[p] = "move" /\ r \in Result
    BY <1>3 DEF Move, Goto, HitInv, CacheTypeOK
  <2>2. \A q \in Proc : /\ seen[q] \subseteq seen'[q]
                        /\ Reading(q) /\ key[q] = key[p] => r \in seen'[q]
    BY <1>3 DEF Move
  <2>3. AfterPut(p) # "read" /\ (AfterPut(p) = "restore" => why[p] # "store")
    BY DEF AfterPut
  <2>4. ReadingInv'
    <3>1. SUFFICES ASSUME NEW q \in Proc, NEW s \in Result, Reading(q), ReadSoFar(q, s), q # p
                   PROVE  s \in seen'[q] \/ Undecided(q, s)'
      BY <2>1, <2>3 DEF ReadingInv, Reading, ReadSoFar
    <3>2. CASE key[q] = key[p] /\ s # r
      <4>1. got'[q][Artifact] = Nothing /\ Entry(q)'[Artifact] # s
        BY <2>1, <3>1, <3>2 DEF HitInv, CacheTypeOK, Entry, Part, Artifact
      <4>2. QED
        BY <4>1 DEF Undecided, Part, Artifact
    <3>3. CASE key[q] = key[p] /\ s = r
      BY <2>2, <3>1, <3>3
    <3>4. CASE key[q] # key[p]
      <4>1. UNCHANGED Entry(q)
        BY <2>1, <3>4 DEF Entry, HitInv, CacheTypeOK
      <4>2. s \in seen[q] \/ Undecided(q, s)
        BY <3>1 DEF HitInv, ReadingInv
      <4>3. QED
        BY <2>1, <2>2, <4>1, <4>2 DEF Undecided
    <3>5. QED
      BY <3>2, <3>3, <3>4
  <2>5. HitWasWhole'
    BY <2>1, <2>2, <2>3 DEF HitInv, HitWasWhole
  <2>6. QED
    BY <2>4, <2>5 DEF HitInv
<1>4. CASE MoveTaken(p)
  BY <1>4, GivesUpHit DEF MoveTaken
<1>5. CASE PutFails(p)
  BY <1>5, GivesUpHit DEF PutFails
<1>6. CASE Push(p)
  BY <1>6, ExitHit DEF Push
<1>7. QED
  BY <1>1, <1>2, <1>3, <1>4, <1>5, <1>6 DEF Put

LEMMA NextHit == HitInv /\ [CacheNext]_vars => HitInv'
<1>1. SUFFICES ASSUME HitInv, [CacheNext]_vars PROVE HitInv'
  OBVIOUS
<1>2. CacheTypeOK'
  BY <1>1, NextTypes DEF HitInv
<1> USE DEF checkout, stores, history, bounds
<1>3. ASSUME NEW p \in Proc, Crash(p) PROVE HitInv'
  BY <1>1, <1>2, <1>3, ExitHit DEF Crash
<1>4. ASSUME NEW p \in Proc, Edit(p) PROVE HitInv'
  BY <1>1, <1>2, <1>4 DEF Edit, memory, HitInv, ReadingInv, HitWasWhole, Reading, ReadSoFar,
                          Undecided, Entry
<1>5. CASE CleanCache
  BY <1>1, <1>2, <1>5, RemovalHit DEF CleanCache
<1>6. CASE UNCHANGED vars
  BY <1>1, <1>2, <1>6 DEF vars, HitInv, ReadingInv, HitWasWhole, Reading, ReadSoFar, Undecided,
                          Entry
<1>7. QED
  BY <1>1, <1>2, <1>3, <1>4, <1>5, <1>6, LookupHit, BuildHit, PutHit DEF CacheNext

\* What a lookup takes for a hit was the whole entry at one moment of the
\* lookup, however many processes replace and clean it meanwhile.
THEOREM HitIsAtomic == CacheSpec => []HitWasWhole
<1>1. HitInv => HitWasWhole
  BY DEF HitInv
<1>2. QED
  BY <1>1, InitHit, NextHit, PTL DEF CacheSpec

----------------------------------------------------------------------------
\* Entries are torn by faults only.

\* Without a fault an entry that is not whole is being removed.
BeingCleared(k) == \E p \in Proc : pc[p] = "clear" /\ key[p] = k
WholeOrNone ==
  ~faults => \A k \in Version : entry[k] = NoEntry \/ Whole(k) # {} \/ BeingCleared(k)
TornInv == CacheTypeOK /\ WholeOrNone

\* The steps that touch neither an entry nor a process that clears one.
LEMMA TornElsewhere ==
  ASSUME TornInv, CacheTypeOK', NEW p \in Proc, pc[p] # "clear", faults' = faults,
         UNCHANGED entry, \A q \in Proc \ {p} : pc'[q] = pc[q] /\ key'[q] = key[q]
  PROVE  TornInv'
<1>1. ASSUME NEW k \in Version, BeingCleared(k) PROVE BeingCleared(k)'
  BY <1>1 DEF BeingCleared
<1>2. \A k \in Version : Whole(k)' = Whole(k)
  BY DEF Whole
<1>3. QED
  BY <1>1, <1>2 DEF TornInv, WholeOrNone

LEMMA OthersStay ==
  ASSUME CacheTypeOK, NEW p \in Proc, Exits(p) \/ \E step \in Steps : Goto(p, step) /\ UNCHANGED key
  PROVE  \A q \in Proc \ {p} : pc'[q] = pc[q] /\ key'[q] = key[q]
BY DEF CacheTypeOK, Exits, Goto

LEMMA NextTorn == TornInv /\ [CacheNext]_vars => TornInv'
<1>1. SUFFICES ASSUME TornInv, [CacheNext]_vars PROVE TornInv'
  OBVIOUS
<1>2. CacheTypeOK /\ CacheTypeOK'
  BY <1>1, NextTypes DEF TornInv
<1>3. ASSUME faults' PROVE TornInv'
  BY <1>2, <1>3 DEF TornInv, WholeOrNone
<1> USE DEF checkout, stores, history, bounds, memory
<1>4. ASSUME NEW p \in Proc, Lookup(p) PROVE TornInv'
  <2>1. /\ pc[p] # "clear" /\ UNCHANGED <<entry, faults>>
        /\ \A q \in Proc \ {p} : pc'[q] = pc[q] /\ key'[q] = key[q]
    <3>1. CASE StartRun(p)
      BY <1>2, <3>1 DEF StartRun, Goto, CacheTypeOK
    <3>2. CASE Restore(p)
      BY <1>2, <3>2, OthersStay DEF Restore
    <3>3. CASE RemoteHit(p) \/ RemoteMiss(p) \/ ReadHit(p) \/ ReadTorn(p) \/ ReadMiss(p)
               \/ RestoreFails(p)
      BY <1>2, <3>3, OthersStay DEF RemoteHit, RemoteMiss, BeginRead, ReadHit, AllRead, ReadTorn,
         ReadMiss, Misses, RestoreFails, Reading, Steps
    <3>4. CASE ReadPart(p)
      BY <3>4 DEF ReadPart, Reading
    <3>5. QED
      BY <1>4, <3>1, <3>2, <3>3, <3>4 DEF Lookup
  <2>2. QED
    BY <1>1, <1>2, <2>1, TornElsewhere
<1>5. ASSUME NEW p \in Proc, Build(p) PROVE TornInv'
  <2>1. /\ pc[p] # "clear" /\ UNCHANGED <<entry, faults>>
        /\ \A q \in Proc \ {p} : pc'[q] = pc[q] /\ key'[q] = key[q]
    BY <1>2, <1>5, OthersStay
       DEF Build, BuildStarts, BuildSucceeds, BuildFails, Capture, Steps
  <2>2. QED
    BY <1>1, <1>2, <2>1, TornElsewhere
<1>6. ASSUME NEW p \in Proc, Put(p) PROVE TornInv'
  <2>1. CASE RemovePart(p)
    <3>1. /\ pc[p] = "clear" /\ UNCHANGED <<pc, key, faults>>
          /\ \A k \in Version \ {key[p]} : entry'[k] = entry[k]
      BY <1>2, <2>1 DEF RemovePart, CacheTypeOK
    <3>2. BeingCleared(key[p])' /\ \A k \in Version : BeingCleared(k)' <=> BeingCleared(k)
      BY <3>1 DEF BeingCleared
    <3>3. \A k \in Version \ {key[p]} : Whole(k)' = Whole(k)
      BY <3>1 DEF Whole
    <3>4. QED
      BY <1>1, <1>2, <3>1, <3>2, <3>3 DEF TornInv, WholeOrNone
  <2>2. CASE Cleared(p)
    <3>1. /\ entry[key[p]] = NoEntry /\ UNCHANGED <<entry, key, faults>>
          /\ \A q \in Proc \ {p} : pc'[q] = pc[q]
      BY <1>2, <2>2 DEF Cleared, Entry, Goto, CacheTypeOK
    <3>2. ASSUME NEW k \in Version \ {key[p]}, BeingCleared(k) PROVE BeingCleared(k)'
      BY <3>1, <3>2 DEF BeingCleared
    <3>3. \A k \in Version : Whole(k)' = Whole(k)
      BY <3>1 DEF Whole
    <3>4. QED
      BY <1>1, <1>2, <3>1, <3>2, <3>3 DEF TornInv, WholeOrNone
  <2>3. CASE Move(p)
    <3>1. /\ pc[p] = "move" /\ cargo[p].files \in Result /\ UNCHANGED <<key, faults>>
          /\ \A k \in Version \ {key[p]} : entry'[k] = entry[k]
          /\ \A part \in Part : entry'[key[p]][part] = cargo[p].files
          /\ \A q \in Proc \ {p} : pc'[q] = pc[q]
      BY <1>2, <2>3 DEF Move, Goto, CacheTypeOK
    <3>2. cargo[p].files \in Whole(key[p])'
      BY <3>1 DEF Whole
    <3>3. \A k \in Version \ {key[p]} : Whole(k)' = Whole(k)
      BY <3>1 DEF Whole
    <3>4. ASSUME NEW k \in Version, BeingCleared(k) PROVE BeingCleared(k)'
      BY <3>1, <3>4 DEF BeingCleared
    <3>5. QED
      BY <1>1, <1>2, <3>1, <3>2, <3>3, <3>4 DEF TornInv, WholeOrNone
  <2>4. CASE MoveTaken(p)
    <3>1. \A q \in Proc \ {p} : pc'[q] = pc[q] /\ key'[q] = key[q]
      BY <1>2, <2>4, OthersStay DEF MoveTaken, GivesUp, BeginRead, Steps
    <3>2. QED
      BY <1>1, <1>2, <2>4, <3>1, TornElsewhere DEF MoveTaken
  <2>5. CASE PutFails(p)
    BY <1>3, <2>5 DEF PutFails
  <2>6. CASE Push(p)
    BY <1>1, <1>2, <2>6, OthersStay, TornElsewhere DEF Push
  <2>7. QED
    BY <1>6, <2>1, <2>2, <2>3, <2>4, <2>5, <2>6 DEF Put
<1>7. ASSUME NEW p \in Proc, Crash(p) PROVE TornInv'
  <2>1. CASE pc[p] \in {"clear", "move"}
    BY <1>3, <1>7, <2>1 DEF Crash
  <2>2. CASE pc[p] \notin {"clear", "move"}
    <3>1. faults' = faults
      BY <1>2, <1>7, <2>2 DEF Crash, CacheTypeOK
    <3>2. QED
      BY <1>1, <1>2, <1>7, <2>2, <3>1, OthersStay, TornElsewhere DEF Crash
  <2>3. QED
    BY <2>1, <2>2
<1>8. ASSUME NEW p \in Proc, Edit(p) PROVE TornInv'
  BY <1>1, <1>2, <1>8 DEF Edit, TornInv, WholeOrNone, BeingCleared, Whole
<1>9. CASE CleanCache
  BY <1>3, <1>9 DEF CleanCache
<1>10. CASE UNCHANGED vars
  BY <1>1, <1>2, <1>10 DEF vars, TornInv, WholeOrNone, BeingCleared, Whole
<1>11. QED
  BY <1>1, <1>4, <1>5, <1>6, <1>7, <1>8, <1>9, <1>10 DEF CacheNext

\* Unless a put was cut short or the cache cleaned, an entry is whole or not
\* there when nobody is clearing it.
THEOREM TornOnlyByFaults == CacheSpec => []TornByFaultsOnly
<1>1. CacheInit => TornInv
  BY InitTypes DEF CacheInit, TornInv, WholeOrNone
<1>2. TornInv => TornByFaultsOnly
  BY DEF TornInv, WholeOrNone, BeingCleared, TornByFaultsOnly
<1>3. QED
  BY <1>1, <1>2, NextTorn, PTL DEF CacheSpec

----------------------------------------------------------------------------
\* What is restored is what the sources make.

\* As long as nobody has edited sources during a run: all results in the caches
\* and on their way are of their keys, and a run that is under way has the key of
\* its sources.
StoresFit ==
  /\ \A k \in Version, part \in Part : entry[k][part] # Nothing => entry[k][part].of = k
  /\ \A k \in Version : remote[k] # Nothing => remote[k].of = k
ProcFits(p) ==
  /\ UnderWay(p) => key[p] = source[p]
  /\ Reading(p) => \A part \in Part : got[p][part] # Nothing => got[p][part].of = key[p]
  /\ pc[p] \in {"building", "restore", "clear", "move", "push"} => cargo[p].files.of = key[p]
  /\ pc[p] = "capture" => dist[p].of = key[p]
  /\ current[p] => dist[p].of = source[p]
FreshInv == CacheTypeOK /\ (~overlap => StoresFit /\ \A p \in Proc : ProcFits(p))

\* A step of p that leaves what others have, if it keeps p and the stores.
LEMMA FreshStep ==
  ASSUME FreshInv, CacheTypeOK', NEW p \in Proc, overlap' = overlap,
         \A q \in Proc \ {p} : /\ pc'[q] = pc[q] /\ key'[q] = key[q] /\ got'[q] = got[q]
                               /\ cargo'[q] = cargo[q] /\ why'[q] = why[q]
                               /\ source'[q] = source[q] /\ dist'[q] = dist[q]
                               /\ current'[q] = current[q],
         StoresFit /\ ProcFits(p) => StoresFit' /\ ProcFits(p)'
  PROVE  FreshInv'
<1>1. ASSUME NEW q \in Proc \ {p}, ProcFits(q) PROVE ProcFits(q)'
  BY <1>1 DEF ProcFits, UnderWay, Reading
<1>2. QED
  BY <1>1 DEF FreshInv

\* The process ends: its checkout is as it was, or its outputs are gone.
LEMMA FreshExit ==
  ASSUME FreshInv, CacheTypeOK', NEW p \in Proc, Exits(p), overlap' = overlap,
         UNCHANGED source,
         \A q \in Proc \ {p} : dist'[q] = dist[q] /\ current'[q] = current[q],
         StoresFit /\ ProcFits(p) => StoresFit' /\ (current'[p] => dist'[p].of = source[p])
  PROVE  FreshInv'
<1>1. /\ pc'[p] = "idle"
      /\ \A q \in Proc \ {p} : /\ pc'[q] = pc[q] /\ key'[q] = key[q] /\ got'[q] = got[q]
                               /\ cargo'[q] = cargo[q] /\ why'[q] = why[q]
  BY DEF Exits, Goto, FreshInv, CacheTypeOK
<1>2. StoresFit /\ ProcFits(p) => StoresFit' /\ ProcFits(p)'
  BY <1>1 DEF ProcFits, UnderWay, Reading, Steps
<1>3. QED
  BY <1>1, <1>2, FreshStep

LEMMA InitFresh == CacheInit => FreshInv
<1>1. SUFFICES ASSUME CacheInit PROVE FreshInv
  OBVIOUS
<1>2. StoresFit
  BY <1>1 DEF CacheInit, StoresFit, NoEntry
<1>3. \A p \in Proc : ProcFits(p)
  BY <1>1 DEF CacheInit, ProcFits, UnderWay, Reading, Steps
<1>4. QED
  BY <1>1, <1>2, <1>3, InitTypes DEF FreshInv

LEMMA LookupFresh ==
  ASSUME FreshInv, CacheTypeOK', NEW p \in Proc, Lookup(p)
  PROVE  FreshInv'
<1> USE DEF checkout, stores, history, bounds, memory
<1>1. CASE StartRun(p)
  <2>1. /\ pc'[p] = "remote" /\ key'[p] = source[p]
        /\ UNCHANGED <<source, dist, entry, remote, got, cargo, why, current, overlap>>
        /\ \A q \in Proc \ {p} : pc'[q] = pc[q] /\ key'[q] = key[q]
    BY <1>1 DEF StartRun, Goto, FreshInv, CacheTypeOK
  <2>2. StoresFit /\ ProcFits(p) => StoresFit' /\ ProcFits(p)'
    BY <2>1 DEF ProcFits, StoresFit, Reading, UnderWay, Steps
  <2>3. QED
    BY <2>1, <2>2, FreshStep
<1>2. CASE RemoteHit(p)
  <2>1. /\ pc[p] = "remote" /\ pc'[p] = "clear" /\ why'[p] = "hydrate"
        /\ remote[key[p]] # Nothing /\ cargo'[p].files = remote[key[p]]
        /\ UNCHANGED <<source, dist, entry, remote, key, got, current, overlap>>
        /\ \A q \in Proc \ {p} : pc'[q] = pc[q] /\ cargo'[q] = cargo[q] /\ why'[q] = why[q]
    BY <1>2 DEF RemoteHit, Goto, FreshInv, CacheTypeOK
  <2>2. StoresFit => remote[key[p]].of = key[p]
    BY <2>1 DEF StoresFit, FreshInv, CacheTypeOK
  <2>3. StoresFit /\ ProcFits(p) => StoresFit' /\ ProcFits(p)'
    BY <2>1, <2>2 DEF ProcFits, StoresFit, Reading, UnderWay, Steps
  <2>4. QED
    BY <2>1, <2>3, FreshStep
<1>3. CASE RemoteMiss(p)
  <2>1. /\ pc[p] = "remote" /\ pc'[p] = "read" /\ got'[p] = NoEntry
        /\ UNCHANGED <<source, dist, entry, remote, key, current, overlap>>
        /\ \A q \in Proc \ {p} : pc'[q] = pc[q] /\ got'[q] = got[q] /\ cargo'[q] = cargo[q]
                                 /\ why'[q] = why[q]
    BY <1>3 DEF RemoteMiss, BeginRead, Goto, FreshInv, CacheTypeOK
  <2>2. StoresFit /\ ProcFits(p) => StoresFit' /\ ProcFits(p)'
    BY <2>1 DEF ProcFits, StoresFit, Reading, UnderWay, Steps, NoEntry
  <2>3. QED
    BY <2>1, <2>2, FreshStep
<1>4. CASE ReadPart(p)
  <2>1. /\ Reading(p) /\ NextPart(p) \in Part /\ Entry(p)[NextPart(p)] # Nothing
        /\ UNCHANGED <<source, dist, entry, remote, pc, key, cargo, why, current, overlap>>
        /\ \A q \in Proc \ {p} : got'[q] = got[q]
        /\ got'[p] = [got[p] EXCEPT ![NextPart(p)] = Entry(p)[NextPart(p)]]
    BY <1>4, NextPartIsFirst DEF ReadPart, FreshInv, CacheTypeOK
  <2>2. StoresFit => Entry(p)[NextPart(p)].of = key[p]
    BY <2>1 DEF StoresFit, Entry, FreshInv, CacheTypeOK
  <2>3. /\ got'[p][NextPart(p)] = Entry(p)[NextPart(p)]
        /\ \A part \in Part \ {NextPart(p)} : got'[p][part] = got[p][part]
    BY <2>1 DEF FreshInv, CacheTypeOK
  <2>4. StoresFit /\ ProcFits(p) => StoresFit' /\ ProcFits(p)'
    BY <2>1, <2>2, <2>3 DEF ProcFits, StoresFit, Reading, UnderWay
  <2>5. QED
    BY <2>1, <2>4, FreshStep
<1>5. CASE ReadHit(p)
  <2>1. Parts(p)[Artifact] = Entry(p)[Artifact] /\ Entry(p)[Artifact] # Nothing /\ Reading(p)
    BY <1>5 DEF ReadHit, AllRead, Parts, FreshInv, CacheTypeOK, Part, Artifact
  <2>2. StoresFit => Parts(p)[Artifact].of = key[p]
    BY <2>1 DEF StoresFit, Entry, FreshInv, CacheTypeOK, Part, Artifact
  <2>3. /\ UNCHANGED <<source, dist, entry, remote, key, why, current, overlap>>
        /\ pc'[p] = "restore" /\ cargo'[p].files = Parts(p)[Artifact]
        /\ \A q \in Proc \ {p} : pc'[q] = pc[q] /\ got'[q] = got[q] /\ cargo'[q] = cargo[q]
    BY <1>5 DEF ReadHit, Goto, FreshInv, CacheTypeOK
  <2>4. StoresFit /\ ProcFits(p) => StoresFit' /\ ProcFits(p)'
    BY <2>1, <2>2, <2>3 DEF ProcFits, StoresFit, Reading, UnderWay, Steps
  <2>5. QED
    BY <2>3, <2>4, FreshStep
<1>6. CASE ReadTorn(p) \/ ReadMiss(p)
  <2>1. /\ Reading(p) /\ Misses(p)
        /\ UNCHANGED <<source, dist, entry, remote, key, cargo, why, current, overlap>>
    BY <1>6 DEF ReadTorn, AllRead, ReadMiss
  <2>2. pc'[p] = "build" /\ \A q \in Proc \ {p} : pc'[q] = pc[q] /\ got'[q] = got[q]
    BY <2>1 DEF Misses, Goto, FreshInv, CacheTypeOK
  <2>3. StoresFit /\ ProcFits(p) => StoresFit' /\ ProcFits(p)'
    BY <2>1, <2>2 DEF ProcFits, StoresFit, Reading, UnderWay, Steps
  <2>4. QED
    BY <2>1, <2>2, <2>3, FreshStep
<1>7. CASE Restore(p)
  <2>1. /\ pc[p] = "restore" /\ Exits(p) /\ dist'[p] = cargo[p].files
        /\ UNCHANGED <<source, entry, remote, overlap>>
        /\ \A q \in Proc \ {p} : dist'[q] = dist[q] /\ current'[q] = current[q]
    BY <1>7 DEF Restore, FreshInv, CacheTypeOK
  <2>2. StoresFit /\ ProcFits(p) => StoresFit' /\ (current'[p] => dist'[p].of = source[p])
    BY <2>1 DEF StoresFit, ProcFits, UnderWay, Steps
  <2>3. QED
    BY <2>1, <2>2, FreshExit
<1>8. CASE RestoreFails(p)
  <2>1. /\ pc[p] = "restore" /\ pc'[p] = "build" /\ ~current'[p]
        /\ UNCHANGED <<source, entry, remote, key, cargo, why, overlap>>
        /\ \A q \in Proc \ {p} : pc'[q] = pc[q] /\ got'[q] = got[q] /\ dist'[q] = dist[q]
                                 /\ current'[q] = current[q]
    BY <1>8 DEF RestoreFails, Misses, Goto, FreshInv, CacheTypeOK
  <2>2. StoresFit /\ ProcFits(p) => StoresFit' /\ ProcFits(p)'
    BY <2>1 DEF ProcFits, StoresFit, Reading, UnderWay, Steps
  <2>3. QED
    BY <2>1, <2>2, FreshStep
<1>9. QED
  BY <1>1, <1>2, <1>3, <1>4, <1>5, <1>6, <1>7, <1>8 DEF Lookup

LEMMA BuildFresh ==
  ASSUME FreshInv, CacheTypeOK', NEW p \in Proc, Build(p)
  PROVE  FreshInv'
<1> USE DEF checkout, stores, history, bounds, memory
<1>1. CASE BuildStarts(p)
  <2>1. /\ pc[p] = "build" /\ pc'[p] = "building" /\ cargo'[p].files.of = source[p]
        /\ UNCHANGED <<source, dist, entry, remote, key, got, why, current, overlap>>
        /\ \A q \in Proc \ {p} : pc'[q] = pc[q] /\ cargo'[q] = cargo[q]
    BY <1>1 DEF BuildStarts, Goto, FreshInv, CacheTypeOK
  <2>2. StoresFit /\ ProcFits(p) => StoresFit' /\ ProcFits(p)'
    BY <2>1 DEF ProcFits, StoresFit, Reading, UnderWay, Steps
  <2>3. QED
    BY <2>1, <2>2, FreshStep
<1>2. CASE BuildSucceeds(p)
  <2>1. /\ pc[p] = "building" /\ pc'[p] = "capture" /\ dist'[p] = cargo[p].files
        /\ UNCHANGED <<source, entry, remote, key, got, cargo, why, current, overlap>>
        /\ \A q \in Proc \ {p} : pc'[q] = pc[q] /\ dist'[q] = dist[q]
    BY <1>2 DEF BuildSucceeds, Goto, FreshInv, CacheTypeOK
  <2>2. StoresFit /\ ProcFits(p) => StoresFit' /\ ProcFits(p)'
    BY <2>1 DEF ProcFits, StoresFit, Reading, UnderWay, Steps
  <2>3. QED
    BY <2>1, <2>2, FreshStep
<1>3. CASE BuildFails(p)
  BY <1>3, FreshExit DEF BuildFails, StoresFit, FreshInv, CacheTypeOK
<1>4. CASE Capture(p)
  <2>1. /\ pc[p] = "capture" /\ pc'[p] = "clear" /\ cargo'[p].files = dist[p] /\ why'[p] = "store"
        /\ UNCHANGED <<source, dist, entry, remote, key, got, overlap>>
        /\ current'[p] = (current[p] \/ key[p] = source[p])
        /\ \A q \in Proc \ {p} : pc'[q] = pc[q] /\ cargo'[q] = cargo[q] /\ why'[q] = why[q]
                                 /\ current'[q] = current[q]
    BY <1>4 DEF Capture, Goto, FreshInv, CacheTypeOK
  <2>2. StoresFit /\ ProcFits(p) => StoresFit' /\ ProcFits(p)'
    BY <2>1 DEF ProcFits, StoresFit, Reading, UnderWay, Steps
  <2>3. QED
    BY <2>1, <2>2, FreshStep
<1>5. QED
  BY <1>1, <1>2, <1>3, <1>4 DEF Build

LEMMA GivesUpFresh ==
  ASSUME FreshInv, CacheTypeOK', NEW p \in Proc, pc[p] \in {"clear", "move"}, GivesUp(p),
         UNCHANGED <<source, dist, entry, remote, current, overlap>>
  PROVE  FreshInv'
<1>1. CASE why[p] = "hydrate"
  <2>1. /\ pc'[p] = "read" /\ got'[p] = NoEntry /\ UNCHANGED key
        /\ \A q \in Proc \ {p} : pc'[q] = pc[q] /\ got'[q] = got[q] /\ cargo'[q] = cargo[q]
                                 /\ why'[q] = why[q]
    BY <1>1 DEF GivesUp, BeginRead, Goto, FreshInv, CacheTypeOK
  <2>2. StoresFit /\ ProcFits(p) => StoresFit' /\ ProcFits(p)'
    BY <1>1, <2>1 DEF ProcFits, StoresFit, Reading, UnderWay, Steps, NoEntry
  <2>3. QED
    BY <2>1, <2>2, FreshStep
<1>2. CASE why[p] # "hydrate"
  <2>1. StoresFit /\ ProcFits(p) => StoresFit' /\ (current'[p] => dist'[p].of = source[p])
    BY DEF StoresFit, ProcFits
  <2>2. QED
    BY <1>2, <2>1, FreshExit DEF GivesUp
<1>3. QED
  BY <1>1, <1>2

LEMMA PutFresh ==
  ASSUME FreshInv, CacheTypeOK', NEW p \in Proc, Put(p)
  PROVE  FreshInv'
<1> USE DEF checkout, stores, history, bounds, memory
<1>1. CASE RemovePart(p)
  <2>1. \A k \in Version, part \in Part : entry'[k][part] \in {entry[k][part], Nothing}
    BY <1>1 DEF RemovePart, FreshInv, CacheTypeOK
  <2>2. UNCHANGED <<source, dist, remote, pc, key, got, cargo, why, current, overlap>>
    BY <1>1 DEF RemovePart
  <2>3. StoresFit /\ ProcFits(p) => StoresFit' /\ ProcFits(p)'
    BY <2>1, <2>2 DEF ProcFits, StoresFit, Reading, UnderWay
  <2>4. QED
    BY <2>2, <2>3, FreshStep
<1>2. CASE Cleared(p)
  <2>1. /\ pc[p] = "clear" /\ pc'[p] = "move"
        /\ UNCHANGED <<source, dist, entry, remote, key, got, cargo, why, current, overlap>>
        /\ \A q \in Proc \ {p} : pc'[q] = pc[q]
    BY <1>2 DEF Cleared, Goto, FreshInv, CacheTypeOK
  <2>2. StoresFit /\ ProcFits(p) => StoresFit' /\ ProcFits(p)'
    BY <2>1 DEF ProcFits, StoresFit, Reading, UnderWay, Steps
  <2>3. QED
    BY <2>1, <2>2, FreshStep
<1>3. CASE Move(p)
  <2>1. /\ pc[p] = "move" /\ pc'[p] = AfterPut(p)
        /\ UNCHANGED <<source, dist, remote, key, got, cargo, why, current, overlap>>
        /\ \A q \in Proc \ {p} : pc'[q] = pc[q]
        /\ \A part \in Part : entry'[key[p]][part] = cargo[p].files
        /\ \A k \in Version \ {key[p]} : entry'[k] = entry[k]
    BY <1>3 DEF Move, Goto, FreshInv, CacheTypeOK
  <2>2. StoresFit /\ ProcFits(p) => StoresFit'
    BY <2>1 DEF StoresFit, ProcFits
  <2>3. ProcFits(p) => ProcFits(p)'
    BY <2>1 DEF ProcFits, AfterPut, Reading, UnderWay, Steps
  <2>4. QED
    BY <2>1, <2>2, <2>3, FreshStep
<1>4. CASE MoveTaken(p)
  BY <1>4, GivesUpFresh DEF MoveTaken
<1>5. CASE PutFails(p)
  BY <1>5, GivesUpFresh DEF PutFails
<1>6. CASE Push(p)
  <2>1. cargo[p].files.of = key[p] => (StoresFit => StoresFit')
    BY <1>6 DEF Push, StoresFit, FreshInv, CacheTypeOK
  <2>2. StoresFit /\ ProcFits(p) => StoresFit' /\ (current'[p] => dist'[p].of = source[p])
    BY <1>6, <2>1 DEF Push, ProcFits
  <2>3. QED
    BY <1>6, <2>2, FreshExit DEF Push
<1>7. QED
  BY <1>1, <1>2, <1>3, <1>4, <1>5, <1>6 DEF Put

LEMMA NextFresh == FreshInv /\ [CacheNext]_vars => FreshInv'
<1>1. SUFFICES ASSUME FreshInv, [CacheNext]_vars PROVE FreshInv'
  OBVIOUS
<1>2. CacheTypeOK'
  BY <1>1, NextTypes DEF FreshInv
<1> USE DEF checkout, stores, history, bounds, memory
<1>3. ASSUME NEW p \in Proc, Crash(p) PROVE FreshInv'
  <2>1. /\ Exits(p) /\ UNCHANGED <<source, entry, remote, overlap>>
        /\ \A q \in Proc \ {p} : dist'[q] = dist[q] /\ current'[q] = current[q]
        /\ ~current'[p] \/ (current'[p] = current[p] /\ dist'[p] = dist[p])
    BY <1>1, <1>3 DEF Crash, FreshInv, CacheTypeOK
  <2>2. StoresFit /\ ProcFits(p) => StoresFit' /\ (current'[p] => dist'[p].of = source[p])
    BY <2>1 DEF StoresFit, ProcFits
  <2>3. QED
    BY <1>1, <1>2, <2>1, <2>2, FreshExit
<1>4. ASSUME NEW p \in Proc, Edit(p) PROVE FreshInv'
  <2>1. /\ UNCHANGED <<dist, entry, remote, pc, key, got, cargo, why>>
        /\ ~current'[p] /\ overlap' = (overlap \/ UnderWay(p))
        /\ \A q \in Proc \ {p} : source'[q] = source[q] /\ current'[q] = current[q]
    BY <1>1, <1>4 DEF Edit, FreshInv, CacheTypeOK
  <2>2. SUFFICES ASSUME ~overlap' PROVE StoresFit' /\ \A q \in Proc : ProcFits(q)'
    BY <1>2 DEF FreshInv
  <2>3. ~overlap /\ ~UnderWay(p)
    BY <2>1, <2>2
  <2>4. StoresFit /\ \A q \in Proc : ProcFits(q)
    BY <1>1, <2>3 DEF FreshInv
  <2>5. StoresFit'
    BY <2>1, <2>4 DEF StoresFit
  <2>6. ProcFits(p)'
    BY <2>1, <2>3, <2>4 DEF ProcFits, UnderWay, Reading
  <2>7. \A q \in Proc \ {p} : ProcFits(q)'
    BY <2>1, <2>4 DEF ProcFits, UnderWay, Reading
  <2>8. QED
    BY <2>5, <2>6, <2>7
<1>5. CASE CleanCache
  <2>1. /\ \A k \in Version, part \in Part : entry'[k][part] \in {entry[k][part], Nothing}
        /\ UNCHANGED <<source, dist, remote, pc, key, got, cargo, why, current, overlap>>
    BY <1>1, <1>5 DEF CleanCache, FreshInv, CacheTypeOK
  <2>2. StoresFit => StoresFit'
    BY <2>1 DEF StoresFit
  <2>3. \A p \in Proc : ProcFits(p) => ProcFits(p)'
    BY <2>1 DEF ProcFits, UnderWay, Reading
  <2>4. QED
    BY <1>1, <1>2, <2>1, <2>2, <2>3 DEF FreshInv
<1>6. CASE UNCHANGED vars
  BY <1>1, <1>2, <1>6 DEF vars, FreshInv, StoresFit, ProcFits, UnderWay, Reading
<1>7. QED
  BY <1>1, <1>2, <1>3, <1>4, <1>5, <1>6, LookupFresh, BuildFresh, PutFresh DEF CacheNext

\* While nobody edits sources during a run, the outputs in a checkout are those
\* of its sources after every run, wherever they come from.
THEOREM OutputsStayFresh == CacheSpec => []OutputsAreFresh
<1>1. FreshInv => OutputsAreFresh
  BY DEF FreshInv, ProcFits, OutputsAreFresh
<1>2. QED
  BY <1>1, InitFresh, NextFresh, PTL DEF CacheSpec
=============================================================================
