------------------------------ MODULE SavesProofs ------------------------------
(***************************************************************************)
(* Proofs about what the saves of a server's sandbox rest on: the          *)
(* generation that tells a save the directory outlived (StateGeneration),  *)
(* for every number of changes, starts and saves, the hook that makes the  *)
(* saves (SandboxHook), for every expiry, every number of requests, saves  *)
(* and SIGTERMs, and any work that holds files, and the toolbelt's install *)
(* that a save stops (ToolbeltInstall), for any processes and versions and *)
(* every number of commands, kills, failed operations and saves.           *)
(***************************************************************************)
EXTENDS StateGeneration, SandboxHook, ToolbeltInstall, SequenceTheorems, TLAPS

-----------------------------------------------------------------------------
(* The state generation.                                                   *)

\* The order in which generations are written is one: it takes a generation to
\* itself and to the one counted on from it, and not back.
LEMMA GenerationsAreOrdered ==
  /\ NoGeneration \in Generation
  /\ \A g \in Generation : /\ Counted(g) \in Generation
                           /\ g \preceq g /\ g \preceq Counted(g)
                           /\ ~(Counted(g) \preceq g)
                           /\ NoGeneration \preceq g
  /\ \A g, h \in Generation : g \preceq h /\ h \preceq g => g = h
  /\ \A g, h, k \in Generation : g \preceq h /\ h \preceq k => g \preceq k
<1> USE DEF Generation
<1>1. NoGeneration \in Generation /\ \A g \in Generation : Counted(g) \in Generation /\ NoGeneration \preceq g
  BY DEF NoGeneration, Counted, \preceq
<1>2. \A g \in Generation : g \preceq g /\ g \preceq Counted(g) /\ ~(Counted(g) \preceq g)
  BY DEF Counted, \preceq
<1>3. \A g, h \in Generation : g \preceq h /\ h \preceq g => g = h
  BY DEF \preceq
<1>4. \A g, h, k \in Generation : g \preceq h /\ h \preceq k => g \preceq k
  BY DEF \preceq
<1>5. QED
  BY <1>1, <1>2, <1>3, <1>4

\* What a server opens is a generation, and what it counts it on to is another.
LEMMA OpenedIsGeneration ==
  ASSUME GenerationTypeOK
  PROVE  Opened \in Generation /\ Counted(Opened) \in Generation
<1>1. CASE Readable
  BY <1>1, GenerationsAreOrdered DEF Readable, Opened
<1>2. CASE ~Readable
  BY <1>2, GenerationsAreOrdered DEF GenerationTypeOK, Opened, Generation
<1>3. QED
  BY <1>1, <1>2

\* Every variable keeps its type.
THEOREM GenerationTypeCorrect == GenerationSpec => []GenerationTypeOK
<1>1. GenerationInit => GenerationTypeOK
  <2> SUFFICES ASSUME GenerationInit PROVE GenerationTypeOK
    OBVIOUS
  <2>1. stale \in BOOLEAN /\ restored \in BOOLEAN
    BY DEF GenerationInit
  <2>2. QED
    BY <2>1, GenerationsAreOrdered DEF GenerationInit, GenerationTypeOK, Changes, Turns, ServerModes
<1>2. GenerationTypeOK /\ [GenerationNext]_generationVars => GenerationTypeOK'
  <2> SUFFICES ASSUME GenerationTypeOK, [GenerationNext]_generationVars
               PROVE  GenerationTypeOK'
    OBVIOUS
  <2> USE DEF GenerationTypeOK, Changes, Turns, ServerModes, Up
  <2>0. CASE UNCHANGED generationVars
    BY <2>0 DEF generationVars, serverVars, madeVars
  <2>1. CASE Start
    <3>1. Counted(Opened) \in Generation
      BY OpenedIsGeneration
    <3>2. stale' \in BOOLEAN /\ restored' \in BOOLEAN
      BY <2>1 DEF Start
    <3>3. QED
      BY <2>1, <3>1, <3>2, GenerationsAreOrdered DEF Start
  <2>2. CASE StartFails
    BY <2>2, OpenedIsGeneration DEF StartFails, serverVars
  <2>3. CASE Change
    BY <2>3 DEF Change
  <2>4. CASE AssertCurrent
    BY <2>4 DEF AssertCurrent, madeVars
  <2>5. CASE Write
    BY <2>5, GenerationsAreOrdered DEF Write
  <2>6. CASE WriteFails
    BY <2>6, GenerationsAreOrdered DEF WriteFails
  <2>7. CASE Persist
    BY <2>7 DEF Persist, madeVars
  <2>8. CASE Tell
    BY <2>8 DEF Tell, madeVars
  <2>9. CASE Save
    BY <2>9 DEF Save, madeVars
  <2>10. CASE SaveFails
    BY <2>10 DEF SaveFails, madeVars
  <2>11. CASE Restore
    BY <2>11 DEF Restore, madeVars
  <2>12. CASE Resume
    BY <2>12 DEF Resume, madeVars
  <2>13. CASE Freeze
    <3>1. Process \in Image
      BY DEF Process, Image
    <3>2. QED
      BY <2>13, <3>1 DEF Freeze, serverVars, madeVars
  <2>14. CASE Kill
    BY <2>14, GenerationsAreOrdered DEF Kill, madeVars
  <2>15. CASE Thaw
    BY <2>15 DEF Thaw, Image, madeVars
  <2>16. CASE Corrupt
    BY <2>16 DEF Corrupt, serverVars, madeVars
  <2>17. QED
    BY <2>0, <2>1, <2>2, <2>3, <2>4, <2>5, <2>6, <2>7, <2>8, <2>9, <2>10, <2>11,
       <2>12, <2>13, <2>14, <2>15, <2>16 DEF GenerationNext
<1>3. QED
  BY <1>1, <1>2, PTL DEF GenerationSpec

-----------------------------------------------------------------------------
\* No generation was written after the one a server opens, and what it counts it
\* on to is written after all.
LEMMA OpenedIsLast ==
  ASSUME GenerationTypeOK, DiskIsLast
  PROVE  /\ Opened \in Generation /\ Counted(Opened) \in Generation
         /\ last \preceq Opened /\ last \preceq Counted(Opened)
         /\ ~(Counted(Opened) \preceq last)
         /\ Opened = last \/ ~(Opened \preceq last)
<1>1. /\ Opened \in Generation /\ Counted(Opened) \in Generation
      /\ last \preceq Opened /\ (Opened = last \/ ~(Opened \preceq last))
  <2>1. CASE Readable \/ disk = Missing
    BY <2>1, GenerationsAreOrdered, SentinelAssumption
       DEF GenerationTypeOK, DiskIsLast, Opened, Readable
  <2>2. CASE ~Readable /\ disk # Missing
    <3>1. last.draw \in Nat /\ last \in Generation
      BY DEF GenerationTypeOK, Generation
    <3>2. Opened = [draw |-> last.draw + 1, count |-> 0]
      BY <2>2 DEF Opened
    <3>3. Opened.draw = last.draw + 1
      BY <3>2
    <3>4. last \preceq Opened /\ ~(Opened \preceq last)
      BY <3>1, <3>3 DEF \preceq
    <3>5. QED
      BY <3>4, OpenedIsGeneration
  <2>3. QED
    BY <2>1, <2>2, OpenedIsGeneration
<1>2. QED
  BY <1>1, GenerationsAreOrdered DEF GenerationTypeOK

LEMMA FenceInit == GenerationInit /\ GenerationTypeOK => FenceInv
<1> SUFFICES ASSUME GenerationInit, GenerationTypeOK PROVE FenceInv
  OBVIOUS
<1>2. DiskIsLast /\ ServerCounts /\ ServerIsWhole /\ SavesCount /\ SavesAreWhole
  BY SentinelAssumption, GenerationsAreOrdered
     DEF GenerationInit, DiskIsLast, Readable, ServerCounts, ServerIsWhole, SavesCount, SavesAreWhole, Up
<1>3. QED
  BY <1>2 DEF FenceInv

\* Every step keeps the fence: the heart is Write, which takes the count past
\* every save's, and Thaw, whose saves either match the directory or check it.
LEMMA FenceStep == FenceInv /\ GenerationTypeOK' /\ [GenerationNext]_generationVars => FenceInv'
<1> SUFFICES ASSUME FenceInv, GenerationTypeOK', [GenerationNext]_generationVars
             PROVE  FenceInv'
  OBVIOUS
<1> DEFINE Parts == DiskIsLast /\ ServerCounts /\ ServerIsWhole /\ SavesCount
                    /\ SavesAreWhole
<1> SUFFICES Parts'
  BY DEF FenceInv
<1> USE DEF Parts, FenceInv, GenerationTypeOK, DiskIsLast, ServerCounts, ServerIsWhole, SavesCount,
            SavesAreWhole, Up, Readable, seen, Changes, Image
<1>0. CASE UNCHANGED generationVars
  BY <1>0 DEF generationVars, serverVars, madeVars
<1>1. CASE Start
  <2>1. /\ Counted(Opened) \in Generation
        /\ last \preceq Counted(Opened) /\ ~(Counted(Opened) \preceq last)
    BY OpenedIsLast
  <2>2. QED
    BY <1>1, <2>1, GenerationsAreOrdered, SentinelAssumption DEF Start
<1>2. CASE StartFails
  <2>1. /\ last \preceq last' /\ (last' = last \/ ~(last' \preceq last))
        /\ (disk' \in Generation => disk' = last') /\ (disk' = Missing => last' = NoGeneration)
    BY <1>2, OpenedIsLast, GenerationsAreOrdered, SentinelAssumption DEF StartFails
  <2>2. QED
    BY <1>2, <2>1, GenerationsAreOrdered DEF StartFails, serverVars
<1>3. CASE Change
  BY <1>3, GenerationsAreOrdered DEF Change
<1>4. CASE AssertCurrent
  BY <1>4, GenerationsAreOrdered DEF AssertCurrent, madeVars
<1>5. CASE Write
  BY <1>5, GenerationsAreOrdered, SentinelAssumption DEF Write
<1>6. CASE WriteFails
  BY <1>6, GenerationsAreOrdered, SentinelAssumption DEF WriteFails
<1>7. CASE Persist
  BY <1>7, GenerationsAreOrdered DEF Persist, madeVars
<1>8. CASE Tell
  BY <1>8, GenerationsAreOrdered DEF Tell, madeVars
<1>9. CASE Save
  BY <1>9, GenerationsAreOrdered DEF Save, madeVars
<1>10. CASE SaveFails
  BY <1>10, GenerationsAreOrdered DEF SaveFails, madeVars
<1>11. CASE Restore
  BY <1>11, GenerationsAreOrdered DEF Restore, madeVars
<1>12. CASE Resume
  BY <1>12, GenerationsAreOrdered DEF Resume, madeVars
<1>13. CASE Freeze
  BY <1>13, GenerationsAreOrdered DEF Freeze, Process, serverVars, madeVars
<1>14. CASE Kill
  BY <1>14, GenerationsAreOrdered DEF Kill, madeVars
<1>15. CASE Thaw
  BY <1>15, GenerationsAreOrdered DEF Thaw, madeVars
<1>16. CASE Corrupt
  BY <1>16, GenerationsAreOrdered, SentinelAssumption DEF Corrupt, serverVars, madeVars
<1>17. QED
  BY <1>0, <1>1, <1>2, <1>3, <1>4, <1>5, <1>6, <1>7, <1>8, <1>9, <1>10, <1>11,
     <1>12, <1>13, <1>14, <1>15, <1>16 DEF GenerationNext

\* The fence: the inductive invariant holds in every reachable state.
THEOREM Fence == GenerationSpec => []FenceInv
BY FenceInit, FenceStep, GenerationTypeCorrect, PTL DEF GenerationSpec

-----------------------------------------------------------------------------
\* A save whose generation is still the directory's holds every change that was
\* persisted or told.
THEOREM SavesRestorable == GenerationSpec => []RestorableSavesAreWhole
<1>1. FenceInv => RestorableSavesAreWhole
  BY DEF FenceInv, GenerationTypeOK, DiskIsLast, Readable, SavesAreWhole, RestorableSavesAreWhole, Image
<1>2. QED
  BY <1>1, Fence, PTL

\* No save from before a fresh start has the directory's generation.
THEOREM SavesOutlived == GenerationSpec => []FreshStartOutlivesSaves
<1>1. FenceInv => FreshStartOutlivesSaves
  BY DEF FenceInv, GenerationTypeOK, DiskIsLast, Readable, SavesAreWhole, FreshStartOutlivesSaves, Image
<1>2. QED
  BY <1>1, Fence, PTL

\* No server, restored, stale or resumed, persists a state that lacks what is
\* persisted or told.
THEOREM NothingOverwritten == GenerationSpec => NothingNewerOverwritten
<1>1. FenceInv /\ [GenerationNext]_generationVars
        => (stored' # stored => seen \subseteq stored') \/ UNCHANGED generationVars
  <2> SUFFICES ASSUME FenceInv, GenerationNext, stored' # stored
               PROVE  seen \subseteq stored'
    OBVIOUS
  <2>1. Persist
    BY DEF GenerationNext, Start, StartFails, Change, AssertCurrent, Write, WriteFails, Tell, Save,
           SaveFails, Restore, Resume, Freeze, Kill, Thaw, Corrupt
  <2>2. QED
    BY <2>1 DEF Persist, FenceInv, ServerCounts, ServerIsWhole
<1>2. QED
  BY <1>1, Fence, PTL DEF GenerationSpec, NothingNewerOverwritten

\* No server tells its clients a state that lacks what they were told before, or
\* what the directory holds.
THEOREM NothingToldBack == GenerationSpec => NothingToldGoesBack
<1>1. FenceInv /\ [GenerationNext]_generationVars
        => (told' # told /\ Up => seen \subseteq told') \/ UNCHANGED generationVars
  <2> SUFFICES ASSUME FenceInv, GenerationNext, told' # told, Up
               PROVE  seen \subseteq told'
    OBVIOUS
  <2>1. Tell
    BY DEF GenerationNext, Start, StartFails, Change, AssertCurrent, Write, WriteFails, Persist,
           Save, SaveFails, Restore, Resume, Freeze, Kill, Thaw, Corrupt
  <2>2. QED
    BY <2>1 DEF Tell, FenceInv, ServerCounts, ServerIsWhole
<1>2. QED
  BY <1>1, Fence, PTL DEF GenerationSpec, NothingToldGoesBack

\* What a save writes into last-save.json is the generation written last of all,
\* whatever starts, draws and damage came before it.
THEOREM LastSaveLatest == GenerationSpec => LastSaveIsLatest
<1>1. FenceInv /\ [GenerationNext]_generationVars
        => (lastSave' # lastSave => lastSave' = last') \/ UNCHANGED generationVars
  <2> SUFFICES ASSUME FenceInv, GenerationNext, lastSave' # lastSave
               PROVE  lastSave' = last'
    OBVIOUS
  <2>1. Save \/ SaveFails
    BY DEF GenerationNext, Start, StartFails, Change, AssertCurrent, Write, WriteFails, Persist,
           Tell, Restore, Resume, Freeze, Kill, Thaw, Corrupt
  <2>2. disk = value /\ lastSave' = value /\ last' = last
    BY <2>1 DEF Save, SaveFails, madeVars
  <2>3. QED
    BY <2>2 DEF FenceInv, GenerationTypeOK, DiskIsLast, Readable
<1>2. QED
  BY <1>1, Fence, PTL DEF GenerationSpec, LastSaveIsLatest

-----------------------------------------------------------------------------
(* The sandbox hook.                                                       *)

\* What is left of a queue once its head is handled, and what it is with one more.
LEMMA QueueTail ==
  ASSUME NEW S, NEW q \in Seq(S), q # <<>>
  PROVE  /\ Tail(q) \in Seq(S) /\ Head(q) \in S /\ Head(q) = q[1]
         /\ Len(Tail(q)) = Len(q) - 1 /\ Len(q) >= 1
         /\ \A i \in 1..Len(Tail(q)) : Tail(q)[i] = q[i + 1]
OBVIOUS

LEMMA QueueAppend ==
  ASSUME NEW S, NEW q \in Seq(S), NEW r \in S
  PROVE  /\ Append(q, r) \in Seq(S) /\ Append(q, r) # <<>>
         /\ Len(Append(q, r)) = Len(q) + 1
         /\ \A i \in 1..Len(q) : Append(q, r)[i] = q[i]
         /\ Append(q, r)[Len(q) + 1] = r
         /\ q # <<>> => Head(Append(q, r)) = Head(q)
BY AppendProperties, HeadTailAppend

\* The invariant holds at first.
LEMMA HookInit == Init => HookInv
<1> SUFFICES ASSUME Init PROVE HookInv
  OBVIOUS
<1>1. /\ saved \in BOOLEAN /\ savedAt \in BOOLEAN /\ outlived \in BOOLEAN
      /\ stopAsked \in BOOLEAN /\ held \in BOOLEAN /\ timer \in BOOLEAN
      /\ armed \in BOOLEAN /\ refusing \in BOOLEAN /\ stopping \in BOOLEAN
      /\ current \in BOOLEAN /\ termed \in BOOLEAN /\ waits \in BOOLEAN
  BY DEF Init
<1>2. TypeOK
  BY <1>1, BoundAssumption DEF Init, TypeOK, Phases, NoAges
<1>3. SaveIsAtHead /\ FilesStayClosed /\ HeldIsThisPods /\ RefusesForAStop
  BY DEF Init, SaveIsAtHead, FilesStayClosed, HeldIsThisPods, RefusesForAStop
<1>4. ExpiriesAreTheirs
  BY DEF Init, ExpiriesAreTheirs, NoAges
<1>5. QED
  BY <1>2, <1>3, <1>4 DEF HookInv

\* Every step keeps it.
LEMMA HookStepKeeps == HookInv /\ [Next]_vars => HookInv'
<1> SUFFICES ASSUME HookInv, [Next]_vars
             PROVE  HookInv'
  OBVIOUS
<1>t. queue # <<>> => /\ Tail(queue) \in Seq(Request) /\ Head(queue) \in Request
                      /\ Head(queue) = queue[1]
                      /\ Len(Tail(queue)) = Len(queue) - 1 /\ Len(queue) >= 1
                      /\ \A i \in 1..Len(Tail(queue)) : Tail(queue)[i] = queue[i + 1]
  BY QueueTail DEF HookInv, TypeOK
<1> USE BoundAssumption
    DEF HookInv, TypeOK, SaveIsAtHead, FilesStayClosed, HeldIsThisPods, RefusesForAStop,
        ExpiriesAreTheirs, Phases, sandboxVars, hookVars, stopVars, historyVars
<1>0. CASE UNCHANGED vars
  BY <1>0 DEF vars
<1>1. CASE WorkStarts
  BY <1>1, <1>t DEF WorkStarts
<1>2. CASE WorkEnds
  BY <1>2, <1>t DEF WorkEnds
<1>3. CASE Sigterm
  <2>1. /\ held' \in BOOLEAN /\ timer' \in BOOLEAN /\ armed' \in BOOLEAN
        /\ refusing' \in BOOLEAN /\ stopping' \in BOOLEAN /\ termed' \in BOOLEAN
    BY <1>3 DEF Sigterm
  <2>2. termed' /\ (held' => timer' \/ saved)
    BY <1>3 DEF Sigterm
  <2>3. refusing' => held' \/ stopping'
    <3>1. CASE held
      BY <1>3, <3>1 DEF Sigterm
    <3>2. CASE ~held /\ stopping' = TRUE
      BY <3>2
    <3>3. CASE ~held /\ held' = TRUE
      BY <3>3
    <3>4. QED
      BY <1>3, <3>1, <3>2, <3>3 DEF Sigterm
  <2>4. /\ sigterms' \in Nat
        /\ UNCHANGED <<waits, sandboxVars, hookVars, current, asked, age>>
    BY <1>3 DEF Sigterm
  <2>5. QED
    BY <2>1, <2>2, <2>3, <2>4
<1>4. CASE WaitEnds
  <2>1. timer' \in BOOLEAN /\ held' \in BOOLEAN /\ stopping' \in BOOLEAN
    BY <1>4, Zenon DEF WaitEnds
  <2>2. (held' => held /\ saved) /\ (refusing => held' \/ stopping')
    BY <1>4 DEF WaitEnds
  <2>3. UNCHANGED <<waits, armed, refusing, sandboxVars, hookVars, current, historyVars>>
    BY <1>4 DEF WaitEnds
  <2>4. QED
    BY <2>1, <2>2, <2>3
<1>5. CASE ArmedLapses
  <2>1. armed' \in BOOLEAN
    BY <1>5 DEF ArmedLapses
  <2>2. QED
    BY <1>5, <2>1 DEF ArmedLapses
<1>6. CASE SaveBegins
  BY <1>6, <1>t DEF SaveBegins, Handles
<1>7. CASE FilesClosed
  BY <1>7, <1>t DEF FilesClosed
<1>8. CASE Saved
  <2>1. savedAt' \in BOOLEAN /\ saved /\ holding = 0
    BY <1>8 DEF Saved
  <2>2. /\ queue' = Tail(queue) /\ phase' = "none" /\ saves' = saves + 1 /\ age' = 0
        /\ DOMAIN ages' = DOMAIN ages \cup {saves'}
        /\ ages'[saves'] = 0
        /\ \A n \in DOMAIN ages : n # saves' => ages'[n] = ages[n]
    BY <1>8 DEF Saved
  <2>3. UNCHANGED <<outlived, stopAsked, sandboxVars, stopVars, current, asked, sigterms, termed>>
    BY <1>8 DEF Saved
  <2>4. queue # <<>>
    BY <1>8 DEF Saved
  <2>5. ExpiriesAreTheirs'
    <3>1. \A n \in DOMAIN ages' : n <= saves'
      BY <2>2
    <3>2. saves' \in DOMAIN ages' => ages'[saves'] = age'
      BY <2>2
    <3>3. ASSUME NEW i \in 1..Len(queue'), queue'[i].mode = "expire"
          PROVE  queue'[i].save <= saves' /\ queue'[i].save # saves'
      <4>1. i + 1 \in 1..Len(queue) /\ queue'[i] = queue[i + 1]
        BY <1>t, <2>2, <2>4, <3>3
      <4>2. queue[i + 1].save <= saves /\ queue[i + 1].save \in Nat
        BY <4>1, <3>3 DEF Request, Modes
      <4>3. QED
        BY <4>1, <4>2, <2>2
    <3>4. QED
      BY <3>1, <3>2, <3>3, <2>2
  <2>6. DOMAIN ages' \subseteq Nat /\ \A n \in DOMAIN ages' : ages'[n] \in 0..Expiry
    BY <2>2
  <2>7. QED
    BY <1>t, <2>1, <2>2, <2>3, <2>4, <2>5, <2>6
<1>9. CASE SaveFailed
  <2>1. /\ saved' \in BOOLEAN /\ savedAt' \in BOOLEAN /\ held' \in BOOLEAN
        /\ stopAsked' \in BOOLEAN
    BY <1>9 DEF SaveFailed, RunOn, Resumes, StopResumed, NoAges
  <2>2. timer' \in BOOLEAN /\ stopping' \in BOOLEAN /\ armed' \in BOOLEAN
    BY <1>9, Zenon DEF SaveFailed, RunOn, Resumes, StopResumed, NoAges
  <2>3. ~savedAt' /\ ~held' /\ (refusing => stopping')
    BY <1>9 DEF SaveFailed, RunOn, Resumes, StopResumed, NoAges
  <2>4. ages' = [n \in {} |-> 0] /\ DOMAIN ages' = {}
    BY <1>9 DEF SaveFailed, RunOn, Resumes, StopResumed, NoAges
  <2>5. queue # <<>> /\ queue' = Tail(queue) /\ phase' = "none"
    BY <1>9 DEF SaveFailed, RunOn, Resumes, StopResumed, NoAges
  <2>6. UNCHANGED <<holding, saves, outlived, refusing, waits, current, historyVars>>
    BY <1>9 DEF SaveFailed, RunOn, Resumes, StopResumed, NoAges
  <2>7. ExpiriesAreTheirs'
    BY <1>t, <2>4, <2>5, <2>6
  <2>8. QED
    BY <1>t, <2>1, <2>2, <2>3, <2>4, <2>5, <2>6, <2>7
<1>10. CASE RestoreRefused
  BY <1>10, <1>t DEF RestoreRefused, Handles
<1>11. CASE RestoreOutlived
  BY <1>11, <1>t DEF RestoreOutlived, Handles
<1>12. CASE Restored
  <2>1. /\ saved' \in BOOLEAN /\ savedAt' \in BOOLEAN /\ held' \in BOOLEAN
        /\ stopAsked' \in BOOLEAN /\ armed' \in BOOLEAN /\ termed' \in BOOLEAN
    BY <1>12 DEF Restored, Resumes, StopRestored
  <2>2. timer' \in BOOLEAN /\ refusing' \in BOOLEAN
    BY <1>12, Zenon DEF Restored, StopRestored
  <2>3. ~savedAt' /\ ~held' /\ (refusing' => stopping)
    BY <1>12 DEF Restored, Resumes, StopRestored
  <2>4. ages' = [n \in {} |-> 0] /\ DOMAIN ages' = {}
    BY <1>12 DEF Restored, Resumes, NoAges
  <2>5. queue # <<>> /\ queue' = Tail(queue) /\ phase = "none"
    BY <1>12, <1>t DEF Restored, Handles
  <2>6. UNCHANGED <<phase, saves, outlived, holding, waits, current, asked, sigterms, age,
                    stopping>>
    BY <1>12 DEF Restored, StopRestored
  <2>7. ExpiriesAreTheirs'
    BY <1>t, <2>4, <2>5, <2>6
  <2>8. QED
    BY <1>t, <2>1, <2>2, <2>3, <2>4, <2>5, <2>6, <2>7
<1>13. CASE Resumed
  <2>1. /\ saved' \in BOOLEAN /\ savedAt' \in BOOLEAN /\ held' \in BOOLEAN
        /\ stopAsked' \in BOOLEAN
    BY <1>13 DEF Resumed, Handles, RunOn, Resumes, StopResumed, NoAges
  <2>2. timer' \in BOOLEAN /\ stopping' \in BOOLEAN /\ armed' \in BOOLEAN
    BY <1>13, Zenon DEF Resumed, Handles, RunOn, Resumes, StopResumed, NoAges
  <2>3. ~savedAt' /\ ~held' /\ (refusing => stopping')
    BY <1>13 DEF Resumed, Handles, RunOn, Resumes, StopResumed, NoAges
  <2>4. ages' = [n \in {} |-> 0] /\ DOMAIN ages' = {}
    BY <1>13 DEF Resumed, Handles, RunOn, Resumes, StopResumed, NoAges
  <2>5. queue # <<>> /\ queue' = Tail(queue) /\ phase' = "none"
    BY <1>13 DEF Resumed, Handles, RunOn, Resumes, StopResumed, NoAges
  <2>6. UNCHANGED <<holding, saves, outlived, refusing, waits, current, historyVars>>
    BY <1>13 DEF Resumed, Handles, RunOn, Resumes, StopResumed, NoAges
  <2>7. ExpiriesAreTheirs'
    BY <1>t, <2>4, <2>5, <2>6
  <2>8. QED
    BY <1>t, <2>1, <2>2, <2>3, <2>4, <2>5, <2>6, <2>7
<1>14. CASE Stop
  <2>1. /\ stopAsked' \in BOOLEAN /\ held' \in BOOLEAN /\ timer' \in BOOLEAN
        /\ armed' \in BOOLEAN /\ stopping' \in BOOLEAN
    BY <1>14 DEF Stop, GoOn
  <2>2. /\ held' => held /\ timer' = timer
        /\ refusing => held' \/ stopping'
    BY <1>14 DEF Stop, GoOn
  <2>3. queue # <<>> /\ queue' = Tail(queue) /\ Head(queue).mode = "stop"
    BY <1>14 DEF Stop, Handles
  <2>4. UNCHANGED <<phase, savedAt, saves, ages, outlived, waits, refusing, sandboxVars,
                    current, historyVars>>
    BY <1>14 DEF Stop, GoOn
  <2>5. QED
    BY <1>t, <2>1, <2>2, <2>3, <2>4
<1>15. CASE Expired
  <2>1. queue # <<>> /\ queue' = Tail(queue) /\ phase = "none"
    BY <1>15, <1>t DEF Expired, Handles
  <2>2. UNCHANGED <<phase, saves, outlived, holding, waits, refusing, current, historyVars>>
    BY <1>15 DEF Expired, RunOn, StopResumed
  <2>3. CASE UNCHANGED <<saved, savedAt, ages, stopAsked, held, timer, armed, refusing, stopping>>
    BY <1>t, <2>1, <2>2, <2>3
  <2>4. CASE RunOn
    <3>1. /\ saved' \in BOOLEAN /\ savedAt' \in BOOLEAN /\ held' \in BOOLEAN
          /\ stopAsked' \in BOOLEAN
      BY <2>4 DEF RunOn, Resumes, StopResumed
    <3>2. timer' \in BOOLEAN /\ stopping' \in BOOLEAN /\ armed' \in BOOLEAN
      BY <2>4, Zenon DEF RunOn, StopResumed
    <3>3. ~savedAt' /\ ~held' /\ (refusing => stopping')
      BY <2>4 DEF RunOn, Resumes, StopResumed
    <3>4. ages' = [n \in {} |-> 0] /\ DOMAIN ages' = {}
      BY <2>4 DEF RunOn, Resumes, NoAges
    <3>5. ExpiriesAreTheirs'
      BY <1>t, <2>1, <2>2, <3>4
    <3>6. QED
      BY <1>t, <2>1, <2>2, <3>1, <3>2, <3>3, <3>4, <3>5
  <2>5. QED
    BY <1>15, <2>3, <2>4 DEF Expired
<1>16. CASE Tick
  BY <1>16, <1>t DEF Tick
<1>17. CASE DirectoryMovesOn
  <2>1. current' = FALSE /\ UNCHANGED <<sandboxVars, hookVars, stopVars, historyVars>>
    BY <1>17, Zenon DEF DirectoryMovesOn
  <2>2. UNCHANGED <<saved, holding, queue, phase, savedAt, saves, ages, stopAsked>>
    BY <2>1
  <2>3. UNCHANGED <<held, timer, refusing, stopping, waits, armed, outlived, asked,
                    sigterms, termed, age>>
    BY <2>1
  <2>4. TypeOK'
    BY <1>t, <2>1, <2>2, <2>3, ZenonT(40)
  <2>5. SaveIsAtHead' /\ FilesStayClosed' /\ HeldIsThisPods' /\ RefusesForAStop'
    BY <1>t, <2>2, <2>3
  <2>6. ExpiriesAreTheirs'
    BY <1>t, <2>2, <2>3
  <2>7. QED
    BY <2>4, <2>5, <2>6
<1>18. ASSUME NEW m \in Modes, Ask(m) PROVE HookInv'
  <2>1. [mode |-> m] \in Request
    BY DEF Request
  <2>2. /\ queue' \in Seq(Request) /\ queue' # <<>>
        /\ Len(queue') = Len(queue) + 1
        /\ \A i \in 1..Len(queue) : queue'[i] = queue[i]
        /\ queue'[Len(queue) + 1] = [mode |-> m]
        /\ queue # <<>> => Head(queue') = Head(queue)
    BY <1>18, <2>1, QueueAppend DEF Ask
  <2>3. [mode |-> m].mode # "expire"
    BY DEF Modes
  <2>4. QED
    BY <1>18, <2>2, <2>3 DEF Ask
<1>19. ASSUME NEW n \in 1..MaxSaves, ExpiryQueued(n) PROVE HookInv'
  <2>1. [mode |-> "expire", save |-> n] \in Request
    BY DEF Request
  <2>2. /\ queue' \in Seq(Request) /\ queue' # <<>>
        /\ Len(queue') = Len(queue) + 1
        /\ \A i \in 1..Len(queue) : queue'[i] = queue[i]
        /\ queue'[Len(queue) + 1] = [mode |-> "expire", save |-> n]
        /\ queue # <<>> => Head(queue') = Head(queue)
    BY <1>19, <2>1, QueueAppend DEF ExpiryQueued
  <2>3. DOMAIN ages' = DOMAIN ages \ {n} /\ \A m \in DOMAIN ages' : ages'[m] = ages[m]
    BY <1>19 DEF ExpiryQueued
  <2>4. n \in DOMAIN ages /\ ages[n] = Expiry
    BY <1>19 DEF ExpiryQueued
  <2>5. ExpiriesAreTheirs'
    BY <1>19, <2>2, <2>3, <2>4 DEF ExpiryQueued
  <2>6. QED
    BY <1>19, <2>2, <2>3, <2>5 DEF ExpiryQueued
<1>20. QED
  BY <1>0, <1>1, <1>2, <1>3, <1>4, <1>5, <1>6, <1>7, <1>8, <1>9, <1>10, <1>11, <1>12,
     <1>13, <1>14, <1>15, <1>16, <1>17, <1>18, <1>19
     DEF Next, HookStep

\* The inductive invariant of the hook and the held stop.
THEOREM HookIsSound == Spec => []HookInv
BY HookInit, HookStepKeeps, PTL DEF Spec

-----------------------------------------------------------------------------
\* Every variable keeps its type.
THEOREM HookTypeCorrect == Spec => []TypeOK
<1>1. HookInv => TypeOK
  BY DEF HookInv
<1>2. QED
  BY <1>1, HookIsSound, PTL

\* No file is held open while the server is saved (sandbox.ts:46-52).
THEOREM FilesAreClosed == Spec => []NoFileOpenWhileSaved
<1>1. HookInv => NoFileOpenWhileSaved
  BY DEF HookInv, FilesStayClosed, NoFileOpenWhileSaved
<1>2. QED
  BY <1>1, HookIsSound, PTL

\* A held stop has its wait's timer, or a save that decides it (held-stop.ts:129).
THEOREM HeldIsDecided == Spec => []HeldStopIsDecided
<1>1. HookInv => HeldStopIsDecided
  BY DEF HookInv, HeldIsThisPods, HeldStopIsDecided
<1>2. QED
  BY <1>1, HookIsSound, PTL

\* The sessions refuse what is new only while a stop is held or goes on.
THEOREM RefusesOnlyForAStop == Spec => []RefusesForAStop
<1>1. HookInv => RefusesForAStop
  BY DEF HookInv
<1>2. QED
  BY <1>1, HookIsSound, PTL

\* No stop goes on but for a SIGTERM sent since the server was last restored.
THEOREM StopsAreThisPods == Spec => StopIsThisPods
<1>1. HookInv /\ [Next]_vars => [stopping' /\ ~stopping => termed']_vars
  <2> SUFFICES ASSUME HookInv, [Next]_vars, stopping', ~stopping
               PROVE  termed'
    OBVIOUS
  <2>1. held => termed
    BY DEF HookInv, HeldIsThisPods
  <2>2. Sigterm \/ WaitEnds \/ SaveFailed \/ Resumed \/ Stop \/ Expired
    BY DEF Next, HookStep, vars, WorkStarts, WorkEnds, ArmedLapses, Ask, SaveBegins,
       FilesClosed, Saved, RestoreRefused, RestoreOutlived, Restored, Tick, ExpiryQueued,
       DirectoryMovesOn, StopRestored, stopVars
  <2>3. Sigterm \/ (held /\ termed' = termed)
    BY <2>2 DEF WaitEnds, SaveFailed, Resumed, Stop, Expired, RunOn, StopResumed, GoOn,
       historyVars
  <2>4. QED
    BY <2>1, <2>3 DEF Sigterm
<1>2. QED
  BY <1>1, HookIsSound, PTL DEF Spec, StopIsThisPods

\* No save is given up on before its own running time passed.
THEOREM SavesAreWaitedFor == Spec => EachSaveItsWholeWait
<1>1. HookInv /\ [Next]_vars =>
        [(phase = "none" /\ Handles("expire") /\ queue' = Tail(queue) /\ savedAt
            /\ ~savedAt') => age = Expiry]_vars
  <2> SUFFICES ASSUME HookInv, [Next]_vars, phase = "none", Handles("expire"),
                      queue' = Tail(queue), savedAt, ~savedAt'
               PROVE  age = Expiry
    OBVIOUS
  <2>1. /\ Head(queue) = queue[1] /\ 1 \in 1..Len(queue)
        /\ queue[1].mode = "expire"
    BY QueueTail DEF Handles, HookInv, TypeOK
  <2>2. Expired
    BY <2>1 DEF Next, HookStep, vars, WorkStarts, WorkEnds, Sigterm, WaitEnds, ArmedLapses,
       Ask, SaveBegins, FilesClosed, Saved, SaveFailed, RestoreRefused, RestoreOutlived,
       Restored, Resumed, Stop, Tick, ExpiryQueued, DirectoryMovesOn, Handles, hookVars
  <2>3. saves = Head(queue).save
    BY <2>2 DEF Expired
  <2>4. QED
    BY <2>1, <2>3 DEF HookInv, ExpiriesAreTheirs
<1>2. QED
  BY <1>1, HookIsSound, PTL DEF Spec, EachSaveItsWholeWait

-----------------------------------------------------------------------------
(* The toolbelt's install.                                                 *)

\* One process at most has the lock, and only that one works on the disk.
Holding == {"clean", "copy", "aside", "in", "tidy"}
LockedWork ==
    /\ \A p, q \in lock : p = q
    /\ \A p \in Procs : procs[p].at \in Holding => p \in lock
    /\ \A p \in Procs : procs[p].at \in Holding \ {"clean"} => procs[p].name \in Names

\* What it has under its name is of its version, and whole once it is copied.
StagedAsFar ==
    \A p \in Procs :
       /\ procs[p].at \in {"copy", "aside", "in"} => staging[procs[p].name].version = procs[p].version
       /\ procs[p].at \in {"aside", "in"} => staging[procs[p].name].whole

\* The inductive invariant of the disk.
DiskInv == InstallTypeOK /\ LockedWork /\ StagedAsFar /\ TargetIsWhole

\* The server's install has a process exactly while it runs, and that installs the
\* server's version.
RunsItsOwn ==
    /\ server.at = "run" <=> server.proc # None
    /\ server.proc # None => /\ procs[server.proc].at # "off"
                             /\ procs[server.proc].version = Current

\* Nothing runs in what a save catches.
CaughtIsIdle == frozen => marked /\ server.at # "run"

\* What has happened is among the causes.
CausesAreTold ==
    /\ stopped => "stopped" \in causes
    /\ Installed(Current) => "installed" \in causes
    /\ \A p \in Procs : server.proc = p /\ procs[p].at = "tidy" /\ procs[p].how = "ok"
                          => "installed" \in causes

\* The inductive invariant of the server's loop, given DiskInv.
ServerInv == RunsItsOwn /\ CaughtIsIdle /\ CausesAreTold /\ EndsForCause

-----------------------------------------------------------------------------
(* What a name beside the toolbelt path, the path, and a process may hold. *)

LEMMA ContentsFacts ==
    /\ Nothing \in Contents /\ ~Nothing.whole
    /\ \A v \in Versions : /\ Half(v) \in Contents /\ Half(v).version = v
                           /\ Whole(v) \in Contents /\ Whole(v).whole
    /\ \A c \in Contents, w \in BOOLEAN : LET d == [c EXCEPT !.whole = w]
                                          IN  d \in Contents /\ d.version = c.version /\ d.whole = w
BY DEF Contents, Nothing, Half, Whole

LEMMA NamesFacts ==
  ASSUME NEW s \in [Names -> Contents], NEW n \in Names
  PROVE  /\ \A w \in BOOLEAN :
               LET t == [s EXCEPT ![n].whole = w]
               IN  /\ t \in [Names -> Contents] /\ t[n].version = s[n].version /\ t[n].whole = w
                   /\ \A m \in Names \ {n} : t[m] = s[m]
         /\ \A c \in Contents :
               LET t == [s EXCEPT ![n] = c]
               IN  t \in [Names -> Contents] /\ t[n] = c /\ \A m \in Names \ {n} : t[m] = s[m]
BY DEF Contents

LEMMA IdleFacts ==
    /\ Idle \in Entry /\ Idle.at = "off"
    /\ \A v \in Versions : LET e == [Idle EXCEPT !.at = "start", !.version = v]
                           IN  e \in Entry /\ e.at = "start" /\ e.version = v
BY InstallBounds DEF Idle, Places, Entry

\* A process's entry is changed, and no other's.
LEMMA SetsFacts ==
  ASSUME InstallTypeOK, NEW p \in Procs, NEW e \in Entry, Sets(p, e)
  PROVE  /\ procs' \in [Procs -> Entry] /\ procs'[p] = e
         /\ \A q \in Procs \ {p} : procs'[q] = procs[q]
BY DEF InstallTypeOK, Sets

\* The entry of one process changes to one whose work its lock and the disk allow.
LEMMA SetsKeepsWork ==
  ASSUME DiskInv, NEW p \in Procs, NEW e \in Entry, Sets(p, e),
         lock' = lock \/ (lock' = {p} /\ lock = {}),
         e.at \in Holding => p \in lock' /\ e.name \in Names \cup {0},
         e.at \in Holding \ {"clean"} => e.name \in Names,
         \A q \in Procs \ {p} : procs[q].at \in {"copy", "aside", "in"}
            => staging'[procs[q].name] = staging[procs[q].name],
         e.at \in {"copy", "aside", "in"} => staging'[e.name].version = e.version,
         e.at \in {"aside", "in"} => staging'[e.name].whole
  PROVE  procs' \in [Procs -> Entry] /\ lock' \subseteq Procs /\ LockedWork' /\ StagedAsFar'
<1>1. /\ procs' \in [Procs -> Entry] /\ procs'[p] = e
      /\ \A q \in Procs \ {p} : procs'[q] = procs[q]
  BY SetsFacts DEF DiskInv
<1>2. LockedWork'
  BY <1>1 DEF DiskInv, LockedWork, Holding
<1>3. StagedAsFar'
  BY <1>1 DEF DiskInv, StagedAsFar
<1> QED BY <1>1, <1>2, <1>3 DEF DiskInv, InstallTypeOK

\* While one works, no other does.
LEMMA WorksAlone ==
  ASSUME DiskInv, NEW p \in Procs, procs[p].at \in Holding
  PROVE  p \in lock /\ \A q \in Procs \ {p} : procs[q].at \notin Holding
BY DEF DiskInv, LockedWork

\* A process that is over is forgotten, with its lock, and the disk's invariant with it.
LEMMA OverKeepsDisk ==
  ASSUME InstallTypeOK, LockedWork, NEW p \in Procs, NEW how \in {"ok", "failed", "unstarted", "term", "killed"},
         Over(p, how)
  PROVE  /\ procs' = [procs EXCEPT ![p] = Idle] /\ procs' \in [Procs -> Entry]
         /\ lock' = lock \ {p} /\ lock' \subseteq Procs
         /\ server' \in [at : {"wait", "run", "retry", "ended"}, proc : Procs \cup {None}, saved : BOOLEAN]
         /\ causes' \subseteq {"installed", "failed", "stopped"}
         /\ UNCHANGED <<stopped, marked, frozen, commands, saveCount>>
         /\ LockedWork'
<1>1. /\ procs' = [procs EXCEPT ![p] = Idle] /\ lock' = lock \ {p}
      /\ UNCHANGED <<stopped, marked, frozen, commands, saveCount>>
  BY DEF Over
<1>2. procs' \in [Procs -> Entry] /\ lock' \subseteq Procs
  BY <1>1, IdleFacts DEF InstallTypeOK
<1>3. \A h : EndsAs(h) \in {"wait", "retry", "ended"}
  BY DEF EndsAs
<1>5. LockedWork'
  <2>1. \A q \in Procs : procs'[q].at \in Holding => q # p /\ procs'[q] = procs[q]
    BY <1>1, IdleFacts DEF InstallTypeOK, Holding
  <2> QED BY <1>1, <2>1 DEF LockedWork
<1>4. CASE server.proc = p
  <2>1. PICK h \in {"ok", "failed", "unstarted", "killed"} :
           server' = [at |-> EndsAs(h), proc |-> None, saved |-> FALSE]
    BY <1>4 DEF Over
  <2>2. server' \in [at : {"wait", "run", "retry", "ended"}, proc : Procs \cup {None}, saved : BOOLEAN]
    BY <1>3, <2>1
  <2>3. causes' = causes \cup {c \in {"failed"} : how \in {"failed", "unstarted"}}
    BY <1>4 DEF Over
  <2> QED BY <1>1, <1>2, <1>5, <2>2, <2>3 DEF InstallTypeOK
<1>6. CASE server.proc # p
  BY <1>1, <1>2, <1>5, <1>6 DEF Over, InstallTypeOK
<1> QED
  BY <1>4, <1>6

-----------------------------------------------------------------------------
\* It holds at first.
LEMMA DiskInit == InstallInit => DiskInv
<1> SUFFICES ASSUME InstallInit PROVE DiskInv
  OBVIOUS
<1>1. target \in Contents /\ TargetIsWhole
  BY ContentsFacts DEF InstallInit, TargetIsWhole
<1>2. server \in [at : {"wait", "run", "retry", "ended"}, proc : Procs \cup {None}, saved : BOOLEAN]
  BY DEF InstallInit
<1>4. InstallTypeOK
  <2>1. procs \in [Procs -> Entry] /\ staging \in [Names -> Contents] /\ replaced \in [Names -> Contents]
    BY ContentsFacts, IdleFacts DEF InstallInit
  <2>2. /\ lock \subseteq Procs /\ causes \subseteq {"installed", "failed", "stopped"}
        /\ stopped \in BOOLEAN /\ marked \in BOOLEAN /\ frozen \in BOOLEAN
    BY DEF InstallInit
  <2>3. commands \in 0..MaxCommands /\ troubles \in 0..MaxTroubles /\ saveCount \in 0..SaveBound
    BY InstallBounds DEF InstallInit
  <2> QED BY <1>1, <1>2, <2>1, <2>2, <2>3 DEF InstallTypeOK
<1>3. LockedWork /\ StagedAsFar
  BY IdleFacts DEF InstallInit, LockedWork, StagedAsFar, Holding
<1> QED BY <1>1, <1>3, <1>4 DEF DiskInv

\* Each step is of the one process that has the lock, or leaves the disk alone.
LEMMA DiskStep == DiskInv /\ [InstallNext]_installVars => DiskInv'
<1> SUFFICES ASSUME DiskInv, [InstallNext]_installVars PROVE DiskInv'
  OBVIOUS
<1> USE InstallBounds
<1>0. ASSUME UNCHANGED installVars PROVE DiskInv'
  BY <1>0 DEF installVars, diskVars, loopVars, countVars, DiskInv, InstallTypeOK, LockedWork, StagedAsFar, TargetIsWhole
\* What leaves the disk and the processes alone,
<1>q. ASSUME UNCHANGED <<diskVars, lock, procs>>, InstallTypeOK' PROVE DiskInv'
  BY <1>q DEF diskVars, DiskInv, LockedWork, StagedAsFar, TargetIsWhole
\* what ends a process,
<1>a. ASSUME NEW p \in Procs, NEW how \in {"ok", "failed", "unstarted", "term", "killed"}, Over(p, how),
             UNCHANGED diskVars, troubles' \in 0..MaxTroubles
      PROVE  DiskInv'
  <2>0. InstallTypeOK /\ LockedWork
    BY DEF DiskInv
  <2>1. InstallTypeOK' /\ LockedWork'
    BY <1>a, <2>0, OverKeepsDisk DEF InstallTypeOK, diskVars
  <2>2. StagedAsFar'
    <3>0. procs' = [procs EXCEPT ![p] = Idle]
      BY <1>a DEF Over
    <3>2. procs'[p].at = "off" /\ \A q \in Procs \ {p} : procs'[q] = procs[q]
      <4>1. Idle.at = "off"
        BY IdleFacts
      <4> QED BY <2>0, <3>0, <4>1 DEF InstallTypeOK
    <3>1. \A q \in Procs : procs'[q].at \in {"copy", "aside", "in"} => procs'[q] = procs[q]
      BY <2>0, <3>2
    <3> QED BY <1>a, <3>1 DEF StagedAsFar, DiskInv, diskVars
  <2>3. TargetIsWhole'
    BY <1>a DEF TargetIsWhole, DiskInv, diskVars
  <2> QED BY <2>1, <2>2, <2>3 DEF DiskInv
\* and what changes only a process's entry and leaves the path alone.
<1>b. ASSUME NEW p \in Procs, procs' \in [Procs -> Entry], lock' \subseteq Procs,
             LockedWork', StagedAsFar', UNCHANGED <<target, causes>>, OnlyProcs,
             staging' \in [Names -> Contents], replaced' \in [Names -> Contents],
             troubles' \in 0..MaxTroubles
      PROVE  DiskInv'
  BY <1>b DEF DiskInv, InstallTypeOK, OnlyProcs, loopVars, TargetIsWhole
<1>1. ASSUME NEW p \in Procs, Looks(p) PROVE DiskInv'
  <2>1. CASE Over(p, "ok")
    BY <1>1, <2>1, <1>a DEF Looks, DiskInv, InstallTypeOK
  <2>2. CASE ~Over(p, "ok")
    <3> DEFINE e == [procs[p] EXCEPT !.at = "lock"]
    <3>1. e \in Entry /\ e.at = "lock"
      BY DEF DiskInv, InstallTypeOK, Places, Entry
    <3>2. /\ Sets(p, e) /\ UNCHANGED <<diskVars, lock, troubles, causes>> /\ OnlyProcs
      BY <1>1, <2>2 DEF Looks
    <3> HIDE DEF e
    <3>3. procs' \in [Procs -> Entry] /\ lock' \subseteq Procs /\ LockedWork' /\ StagedAsFar'
      BY <3>1, <3>2, SetsKeepsWork DEF Holding, diskVars
    <3> QED BY <3>2, <3>3, <1>b DEF DiskInv, InstallTypeOK, diskVars
  <2> QED BY <2>1, <2>2
<1>2. ASSUME NEW p \in Procs, TakesLock(p) PROVE DiskInv'
  <2> DEFINE e == [procs[p] EXCEPT !.at = "clean", !.todo = Leftovers]
  <2>1. e \in Entry /\ e.at = "clean" /\ e.name \in Names \cup {0}
    <3>1. Leftovers \in SUBSET Names /\ procs[p] \in Entry
      BY DEF Leftovers, DiskInv, InstallTypeOK
    <3> HIDE DEF Leftovers
    <3> QED BY <3>1 DEF Places, Entry
  <2>2. Sets(p, e) /\ lock = {} /\ lock' = {p} /\ UNCHANGED <<diskVars, troubles, causes>> /\ OnlyProcs
    BY <1>2 DEF TakesLock
  <2> HIDE DEF e
  <2>3. procs' \in [Procs -> Entry] /\ lock' \subseteq Procs /\ LockedWork' /\ StagedAsFar'
    BY <2>1, <2>2, SetsKeepsWork DEF Holding, diskVars
  <2> QED BY <2>2, <2>3, <1>b DEF DiskInv, InstallTypeOK, diskVars
<1>3. ASSUME NEW p \in Procs, Removes(p) PROVE DiskInv'
  <2>1. /\ procs[p].at = "clean" /\ procs[p] \in Entry /\ procs[p].todo \subseteq Names
        /\ UNCHANGED <<target, lock, causes>> /\ OnlyProcs
    BY <1>3 DEF Removes, DiskInv, InstallTypeOK, Entry
  <2>2. \A q \in Procs : procs[q].at \notin {"copy", "aside", "in"}
    BY <2>1, WorksAlone DEF Holding
  <2>3. PICK n \in Names :
           \/ /\ staging' = [staging EXCEPT ![n].whole = FALSE]
              /\ replaced' = [replaced EXCEPT ![n].whole = FALSE]
              /\ UNCHANGED <<procs, troubles>>
           \/ /\ staging' = [staging EXCEPT ![n] = Nothing]
              /\ replaced' = [replaced EXCEPT ![n] = Nothing]
              /\ Sets(p, [procs[p] EXCEPT !.todo = @ \ {n}])
              /\ UNCHANGED troubles
           \/ /\ Trouble
              /\ Sets(p, [procs[p] EXCEPT !.todo = @ \ {n}])
              /\ UNCHANGED <<staging, replaced>>
    BY <1>3, <2>1 DEF Removes
  <2>4. /\ staging' \in [Names -> Contents] /\ replaced' \in [Names -> Contents]
        /\ troubles' \in 0..MaxTroubles
    <3>1. /\ staging \in [Names -> Contents] /\ replaced \in [Names -> Contents]
          /\ troubles \in 0..MaxTroubles
      BY DEF DiskInv, InstallTypeOK
    <3>2. CASE staging' = [staging EXCEPT ![n].whole = FALSE] /\ replaced' = [replaced EXCEPT ![n].whole = FALSE]
               /\ UNCHANGED troubles
      BY <3>1, <3>2, NamesFacts
    <3>3. CASE staging' = [staging EXCEPT ![n] = Nothing] /\ replaced' = [replaced EXCEPT ![n] = Nothing]
               /\ UNCHANGED troubles
      BY <3>1, <3>3, ContentsFacts, NamesFacts
    <3>4. CASE Trouble /\ UNCHANGED <<staging, replaced>>
      BY <3>1, <3>4 DEF Trouble
    <3> QED BY <2>3, <3>2, <3>3, <3>4
  <2>5. CASE UNCHANGED procs
    <3>1. LockedWork' /\ StagedAsFar' /\ procs' \in [Procs -> Entry] /\ lock' \subseteq Procs
      BY <2>1, <2>2, <2>5 DEF DiskInv, InstallTypeOK, LockedWork, StagedAsFar
    <3> QED BY <3>1, <2>1, <2>4, <1>b
  <2>6. CASE Sets(p, [procs[p] EXCEPT !.todo = @ \ {n}])
    <3> DEFINE e == [procs[p] EXCEPT !.todo = @ \ {n}]
    <3>1. e \in Entry /\ e.at = "clean" /\ e.name \in Names \cup {0}
      BY <2>1 DEF Entry
    <3>2. Sets(p, e)
      BY <2>6
    <3> HIDE DEF e
    <3>3. procs' \in [Procs -> Entry] /\ lock' \subseteq Procs /\ LockedWork' /\ StagedAsFar'
      BY <2>1, <2>2, <3>1, <3>2, WorksAlone, SetsKeepsWork DEF Holding
    <3> QED BY <3>3, <2>1, <2>4, <1>b
  <2> QED BY <2>3, <2>5, <2>6
<1>4. ASSUME NEW p \in Procs, IsInstalled(p) PROVE DiskInv'
  BY <1>4, <1>a DEF IsInstalled, DiskInv, InstallTypeOK
<1>5. ASSUME NEW p \in Procs, Stages(p) PROVE DiskInv'
  <2>1. PICK n \in Names : /\ Sets(p, [procs[p] EXCEPT !.at = "copy", !.name = n])
                           /\ staging' = [staging EXCEPT ![n] = Half(procs[p].version)]
    BY <1>5 DEF Stages
  <2>2. /\ procs[p].at = "clean" /\ procs[p] \in Entry /\ procs[p].version \in Versions
        /\ UNCHANGED <<target, replaced, lock, troubles, causes>> /\ OnlyProcs
    BY <1>5 DEF Stages, DiskInv, InstallTypeOK, Entry
  <2>3. p \in lock /\ \A q \in Procs \ {p} : procs[q].at \notin Holding
    BY <2>2, WorksAlone DEF Holding
  <2> DEFINE e == [procs[p] EXCEPT !.at = "copy", !.name = n]
  <2>4. e \in Entry /\ e.at = "copy" /\ e.name = n /\ e.version = procs[p].version
    BY <2>2 DEF Entry, Places
  <2>5. staging' \in [Names -> Contents] /\ staging'[n].version = procs[p].version
    BY <2>1, <2>2, ContentsFacts, NamesFacts DEF DiskInv, InstallTypeOK
  <2>6. Sets(p, e)
    BY <2>1
  <2> HIDE DEF e
  <2>7. procs' \in [Procs -> Entry] /\ lock' \subseteq Procs /\ LockedWork' /\ StagedAsFar'
    BY <2>2, <2>3, <2>4, <2>5, <2>6, SetsKeepsWork DEF Holding
  <2> QED BY <2>2, <2>5, <2>7, <1>b DEF DiskInv, InstallTypeOK
<1>6. ASSUME NEW p \in Procs, Copied(p) PROVE DiskInv'
  <2>1. /\ procs[p].at = "copy" /\ procs[p] \in Entry /\ procs[p].version \in Versions
        /\ staging' = [staging EXCEPT ![procs[p].name].whole = TRUE]
        /\ UNCHANGED <<target, replaced, lock, troubles, causes>> /\ OnlyProcs
    BY <1>6 DEF Copied, DiskInv, InstallTypeOK, Entry
  <2>2. /\ p \in lock /\ \A q \in Procs \ {p} : procs[q].at \notin Holding
        /\ procs[p].name \in Names /\ staging[procs[p].name].version = procs[p].version
    BY <2>1, WorksAlone DEF Holding, DiskInv, LockedWork, StagedAsFar
  <2> DEFINE e == [procs[p] EXCEPT !.at = "aside"]
  <2>3. e \in Entry /\ e.at = "aside" /\ e.name = procs[p].name /\ e.version = procs[p].version
    BY <2>1 DEF Entry, Places
  <2>4. Sets(p, e)
    BY <1>6 DEF Copied
  <2>6. /\ staging' \in [Names -> Contents] /\ staging'[procs[p].name].whole
        /\ staging'[procs[p].name].version = procs[p].version
    BY <2>1, <2>2, NamesFacts, ZenonT(40) DEF DiskInv, InstallTypeOK
  <2> HIDE DEF e
  <2>7. procs' \in [Procs -> Entry] /\ lock' \subseteq Procs /\ LockedWork' /\ StagedAsFar'
    BY <2>1, <2>2, <2>3, <2>4, <2>6, SetsKeepsWork DEF Holding
  <2> QED BY <2>1, <2>6, <2>7, <1>b DEF DiskInv, InstallTypeOK
<1>7. ASSUME NEW p \in Procs, GivesUp(p) PROVE DiskInv'
  <2>1. /\ procs[p].at \in {"copy", "aside", "in"} /\ procs[p] \in Entry
        /\ UNCHANGED <<diskVars, lock, causes>> /\ OnlyProcs /\ troubles' \in 0..MaxTroubles
    BY <1>7 DEF GivesUp, DiskInv, InstallTypeOK, Trouble
  <2>2. p \in lock /\ procs[p].name \in Names
    BY <2>1, WorksAlone DEF Holding, DiskInv, LockedWork
  <2> DEFINE e == [procs[p] EXCEPT !.at = "tidy", !.how = IF procs[p].asked THEN "term" ELSE "failed"]
  <2>3. e \in Entry /\ e.at = "tidy" /\ e.name = procs[p].name
    BY <2>1 DEF Entry, Places
  <2>4. Sets(p, e)
    BY <1>7 DEF GivesUp
  <2> HIDE DEF e
  <2>5. procs' \in [Procs -> Entry] /\ lock' \subseteq Procs /\ LockedWork' /\ StagedAsFar'
    BY <2>1, <2>2, <2>3, <2>4, SetsKeepsWork DEF Holding, diskVars
  <2> QED BY <2>1, <2>5, <1>b DEF DiskInv, InstallTypeOK, diskVars
<1>8. ASSUME NEW p \in Procs, GivesUpWaiting(p) PROVE DiskInv'
  BY <1>8, <1>a DEF GivesUpWaiting, DiskInv, InstallTypeOK
<1>9. ASSUME NEW p \in Procs, MovesAside(p) PROVE DiskInv'
  <2>1. /\ procs[p].at = "aside" /\ procs[p] \in Entry
        /\ UNCHANGED <<staging, lock, troubles, causes>> /\ OnlyProcs /\ target' = Nothing
        /\ replaced' = [replaced EXCEPT ![procs[p].name] = target]
    BY <1>9 DEF MovesAside, DiskInv, InstallTypeOK
  <2>2. /\ p \in lock /\ procs[p].name \in Names
        /\ staging[procs[p].name].version = procs[p].version /\ staging[procs[p].name].whole
    BY <2>1, WorksAlone DEF Holding, DiskInv, LockedWork, StagedAsFar
  <2> DEFINE e == [procs[p] EXCEPT !.at = "in"]
  <2>3. e \in Entry /\ e.at = "in" /\ e.name = procs[p].name /\ e.version = procs[p].version
    BY <2>1 DEF Entry, Places
  <2>4. Sets(p, e)
    BY <1>9 DEF MovesAside
  <2> HIDE DEF e
  <2>5. procs' \in [Procs -> Entry] /\ lock' \subseteq Procs /\ LockedWork' /\ StagedAsFar'
    BY <2>1, <2>2, <2>3, <2>4, SetsKeepsWork DEF Holding
  <2>6. replaced' \in [Names -> Contents] /\ target' \in Contents /\ TargetIsWhole'
    BY <2>1, ContentsFacts DEF DiskInv, InstallTypeOK, TargetIsWhole
  <2> QED BY <2>1, <2>5, <2>6 DEF DiskInv, InstallTypeOK, OnlyProcs, loopVars
<1>10. ASSUME NEW p \in Procs, MovesIn(p) PROVE DiskInv'
  <2>1. /\ procs[p].at = "in" /\ procs[p] \in Entry /\ procs[p].version \in Versions
        /\ UNCHANGED <<replaced, lock, troubles>> /\ OnlyProcs
        /\ staging' = [staging EXCEPT ![procs[p].name] = Nothing]
        /\ causes' \subseteq {"installed", "failed", "stopped"}
    BY <1>10 DEF MovesIn, DiskInv, InstallTypeOK, Entry
  <2>2. /\ p \in lock /\ procs[p].name \in Names
        /\ staging[procs[p].name].version = procs[p].version /\ staging[procs[p].name].whole
        /\ \A q \in Procs \ {p} : procs[q].at \notin Holding
    BY <2>1, WorksAlone DEF Holding, DiskInv, LockedWork, StagedAsFar
  <2> DEFINE e == [procs[p] EXCEPT !.at = "tidy"]
  <2>3. e \in Entry /\ e.at = "tidy" /\ e.name = procs[p].name
    BY <2>1 DEF Entry, Places
  <2>4. Sets(p, e)
    BY <1>10 DEF MovesIn
  <2> HIDE DEF e
  <2>5. procs' \in [Procs -> Entry] /\ lock' \subseteq Procs /\ LockedWork' /\ StagedAsFar'
    BY <2>1, <2>2, <2>3, <2>4, SetsKeepsWork DEF Holding
  <2>6. target' = staging[procs[p].name]
    BY <1>10 DEF MovesIn
  <2>7. staging' \in [Names -> Contents] /\ target' \in Contents /\ TargetIsWhole'
    BY <2>1, <2>2, <2>6, ContentsFacts, NamesFacts DEF DiskInv, InstallTypeOK, TargetIsWhole
  <2> QED BY <2>1, <2>5, <2>7 DEF DiskInv, InstallTypeOK, OnlyProcs, loopVars
<1>11. ASSUME NEW p \in Procs, Tidies(p) PROVE DiskInv'
  <2>1. /\ procs[p].at = "tidy" /\ procs[p].how \in {"ok", "failed", "term", "killed"}
        /\ Over(p, procs[p].how) /\ UNCHANGED target /\ InstallTypeOK /\ LockedWork
    BY <1>11 DEF Tidies, DiskInv, InstallTypeOK, Entry
  <2>2. \A q \in Procs : procs[q].at \notin {"copy", "aside", "in"}
    BY <2>1, WorksAlone DEF Holding
  <2>3. /\ staging' \in [Names -> Contents] /\ replaced' \in [Names -> Contents]
        /\ troubles' \in 0..MaxTroubles
    BY <1>11, ContentsFacts, NamesFacts DEF Tidies, DiskInv, InstallTypeOK, Trouble
  <2>4. InstallTypeOK' /\ LockedWork'
    BY <2>1, <2>3, OverKeepsDisk DEF InstallTypeOK
  <2>5. StagedAsFar'
    <3>0. procs' = [procs EXCEPT ![p] = Idle]
      BY <2>1 DEF Over
    <3>2. procs'[p].at = "off" /\ \A q \in Procs \ {p} : procs'[q] = procs[q]
      <4>1. Idle.at = "off"
        BY IdleFacts
      <4> QED BY <2>1, <2>2, <3>0, <4>1 DEF InstallTypeOK
    <3>1. \A q \in Procs : procs'[q].at \notin {"copy", "aside", "in"}
      BY <2>1, <2>2, <3>2
    <3> QED BY <3>1 DEF StagedAsFar
  <2> QED BY <2>1, <2>4, <2>5 DEF DiskInv, TargetIsWhole
<1>12. ASSUME NEW p \in Procs, Killed(p) PROVE DiskInv'
  BY <1>12, <1>a DEF Killed, Trouble, DiskInv, InstallTypeOK
<1>20. ASSUME NEW p \in Procs, FailsEarly(p) PROVE DiskInv'
  <2>1. PICK how \in {"failed", "unstarted"} : Over(p, how)
    BY <1>20 DEF FailsEarly
  <2>2. UNCHANGED diskVars /\ troubles' \in 0..MaxTroubles
    BY <1>20 DEF FailsEarly, Trouble, DiskInv, InstallTypeOK
  <2> QED BY <2>1, <2>2, <1>a
<1>c. ASSUME NEW p \in Procs, NEW v \in Versions, Starts(p, v), UNCHANGED <<diskVars, lock>>
      PROVE  procs' \in [Procs -> Entry] /\ lock' \subseteq Procs /\ LockedWork' /\ StagedAsFar'
  BY <1>c, IdleFacts, SetsKeepsWork DEF Starts, Holding, diskVars
<1>13. ASSUME NEW p \in Procs, CommandStarts(p) PROVE DiskInv'
  <2>1. procs' \in [Procs -> Entry] /\ lock' \subseteq Procs /\ LockedWork' /\ StagedAsFar'
    BY <1>13, <1>c DEF CommandStarts
  <2> QED BY <1>13, <2>1 DEF CommandStarts, DiskInv, InstallTypeOK, diskVars, loopVars, TargetIsWhole
<1>14. ASSUME NEW p \in Procs, Runs(p) PROVE DiskInv'
  <2>1. procs' \in [Procs -> Entry] /\ lock' \subseteq Procs /\ LockedWork' /\ StagedAsFar'
    BY <1>14, <1>c DEF Runs
  <2> QED BY <1>14, <2>1 DEF Runs, DiskInv, InstallTypeOK, diskVars, countVars, TargetIsWhole
<1>15. ASSUME RunsNone \/ Retries \/ Catches \/ RunsOn \/ Saves \/ ServerDies PROVE DiskInv'
  <2>1. UNCHANGED <<diskVars, lock, procs>>
    BY <1>15 DEF RunsNone, Retries, Catches, RunsOn, Saves, ServerDies, diskVars
  <2>2. /\ server' \in [at : {"wait", "run", "retry", "ended"}, proc : Procs \cup {None}, saved : BOOLEAN]
        /\ stopped' \in BOOLEAN /\ marked' \in BOOLEAN /\ frozen' \in BOOLEAN
    <3>1. CASE Saves
      BY <3>1 DEF Saves, DiskInv, InstallTypeOK
    <3>2. CASE ~Saves
      <4>1. CASE RunsNone \/ Retries
        BY <4>1 DEF RunsNone, Retries, DiskInv, InstallTypeOK
      <4>2. CASE Catches \/ RunsOn
        BY <4>2 DEF Catches, RunsOn, DiskInv, InstallTypeOK
      <4>3. CASE ServerDies
        <5>1. server' = [at |-> "wait", proc |-> None, saved |-> FALSE] /\ ~stopped' /\ ~marked' /\ ~frozen'
          BY <4>3 DEF ServerDies
        <5>2. stopped' \in BOOLEAN /\ marked' \in BOOLEAN /\ frozen' \in BOOLEAN
          BY <4>3 DEF ServerDies
        <5> QED BY <5>1, <5>2
      <4> QED BY <1>15, <3>2, <4>1, <4>2, <4>3
    <3> QED BY <3>1, <3>2
  <2>3. /\ commands' \in 0..MaxCommands /\ troubles' \in 0..MaxTroubles /\ saveCount' \in 0..SaveBound
        /\ causes' \subseteq {"installed", "failed", "stopped"}
    BY <1>15 DEF RunsNone, Retries, Catches, RunsOn, Saves, ServerDies, Trouble, DiskInv, InstallTypeOK, countVars
  <2>4. InstallTypeOK'
    BY <2>1, <2>2, <2>3 DEF DiskInv, InstallTypeOK, diskVars
  <2> QED BY <2>1, <2>4, <1>q
<1>16. ASSUME DiesOfSave PROVE DiskInv'
  BY <1>16, <1>a DEF DiesOfSave, DiskInv, InstallTypeOK
<1>17. ASSUME StopsInstall PROVE DiskInv'
  <2>1. CASE server.at = "run" /\ server.proc \in Procs
    <3> DEFINE e == [procs[server.proc] EXCEPT !.asked = TRUE]
    <3>0. procs[server.proc] \in Entry
      BY <2>1 DEF DiskInv, InstallTypeOK
    <3>1. /\ e \in Entry /\ e.at = procs[server.proc].at
          /\ e.name = procs[server.proc].name /\ e.version = procs[server.proc].version
      BY <3>0 DEF Entry
    <3>2. Sets(server.proc, e) /\ UNCHANGED <<diskVars, lock>>
      BY <1>17, <2>1 DEF StopsInstall
    <3> HIDE DEF e
    <3>3. procs' \in [Procs -> Entry] /\ lock' \subseteq Procs /\ LockedWork' /\ StagedAsFar'
      BY <2>1, <3>0, <3>1, <3>2, SetsKeepsWork DEF Entry, diskVars, DiskInv, LockedWork, StagedAsFar
    <3> QED BY <1>17, <3>3 DEF StopsInstall, DiskInv, InstallTypeOK, diskVars, countVars, TargetIsWhole
  <2>2. CASE ~(server.at = "run" /\ server.proc \in Procs)
    <3>1. UNCHANGED <<diskVars, lock, procs>>
      BY <1>17, <2>2 DEF StopsInstall, Sets, DiskInv, InstallTypeOK, diskVars
    <3>2. InstallTypeOK'
      BY <1>17, <3>1 DEF StopsInstall, DiskInv, InstallTypeOK, diskVars, countVars
    <3> QED BY <3>1, <3>2, <1>q
  <2> QED BY <2>1, <2>2
<1> QED
  BY <1>0, <1>1, <1>2, <1>3, <1>4, <1>5, <1>6, <1>7, <1>8, <1>9, <1>10, <1>11, <1>12, <1>13,
     <1>14, <1>15, <1>16, <1>17, <1>20 DEF InstallNext, Works, ServerWorks

\* ToolbeltInstall!TypeOK.
THEOREM InstallTypeCorrect == InstallSpec => []InstallTypeOK
<1>1. InstallSpec => []DiskInv
  BY DiskInit, DiskStep, PTL DEF InstallSpec
<1>2. DiskInv => InstallTypeOK
  BY DEF DiskInv
<1> QED BY <1>1, <1>2, PTL

\* Whoever reads the toolbelt path sees a whole toolbelt or none, whatever installs run,
\* die at any step and are cleaned up after by others (toolbelt.ts, installToolbelt).
THEOREM PathIsWhole == InstallSpec => []TargetIsWhole
<1>1. InstallSpec => []DiskInv
  BY DiskInit, DiskStep, PTL DEF InstallSpec
<1>2. DiskInv => TargetIsWhole
  BY DEF DiskInv
<1> QED BY <1>1, <1>2, PTL

-----------------------------------------------------------------------------
(* The server's install, whose process a save stops.                       *)

\* How its own end leaves the server's install, given what has happened.
LEMMA EndsFacts ==
  /\ \A how : EndsAs(how) \in {"wait", "retry", "ended"}
  /\ EndsAs("killed") = "ended" => stopped
BY DEF EndsAs

\* The process p is over: installed, failed, or killed.
LEMMA OverKeepsServer ==
  ASSUME DiskInv, ServerInv, NEW p \in Procs, NEW how \in {"ok", "failed", "unstarted", "term", "killed"},
         Over(p, how), UNCHANGED target,
         server.proc = p /\ how = "ok" => "installed" \in causes
  PROVE  ServerInv'
<1>1. /\ procs' = [procs EXCEPT ![p] = Idle] /\ UNCHANGED <<stopped, marked, frozen>>
      /\ procs \in [Procs -> Entry] /\ None \notin Procs
  BY InstallBounds DEF Over, DiskInv, InstallTypeOK
<1>2. CASE server.proc = p
  <2>1. PICK h \in {"ok", "failed", "unstarted", "killed"} :
           /\ server' = [at |-> EndsAs(h), proc |-> None, saved |-> FALSE]
           /\ h = "ok" => how = "ok"
           /\ h \in {"failed", "unstarted"} => how \in {"failed", "unstarted"}
    BY <1>2 DEF Over
  <2>2. /\ causes' = causes \cup {c \in {"failed"} : how \in {"failed", "unstarted"}} /\ causes \subseteq causes'
        /\ how \in {"failed", "unstarted"} => "failed" \in causes'
    BY <1>2 DEF Over
  <2>3. server'.at \in {"wait", "retry", "ended"} /\ server'.proc = None
    BY <2>1, EndsFacts
  <2>4. RunsItsOwn' /\ CaughtIsIdle'
    BY <1>1, <2>3 DEF RunsItsOwn, CaughtIsIdle, ServerInv
  <2>5. CausesAreTold'
    BY <1>1, <2>2, <2>3 DEF CausesAreTold, ServerInv, Installed
  <2>6. EndsForCause'
    <3>1. CASE h = "ok"
      BY <1>2, <2>1, <2>2, <3>1 DEF EndsForCause
    <3>2. CASE h \in {"failed", "unstarted"}
      BY <2>1, <2>2, <3>2 DEF EndsForCause
    <3>3. CASE h = "killed"
      BY <2>1, <2>2, <3>3, EndsFacts DEF EndsForCause, ServerInv, CausesAreTold
    <3> QED BY <3>1, <3>2, <3>3
  <2> QED BY <2>4, <2>5, <2>6 DEF ServerInv
<1>3. CASE server.proc # p
  <2>1. UNCHANGED <<server, causes>>
    BY <1>3 DEF Over
  <2>2. \A q \in Procs : q = server.proc => procs'[q] = procs[q]
    BY <1>1, <1>3
  <2>3. server.proc \in Procs \cup {None}
    BY DEF DiskInv, InstallTypeOK
  <2>4. RunsItsOwn' /\ CaughtIsIdle' /\ EndsForCause'
    BY <1>1, <2>1, <2>2, <2>3 DEF RunsItsOwn, CaughtIsIdle, EndsForCause, ServerInv
  <2>5. CausesAreTold'
    BY <1>1, <2>1, <2>2 DEF CausesAreTold, ServerInv, Installed
  <2> QED BY <2>4, <2>5 DEF ServerInv
<1> QED BY <1>2, <1>3

\* It holds at first.
LEMMA ServerInit == InstallInit => ServerInv
<1> SUFFICES ASSUME InstallInit PROVE ServerInv
  OBVIOUS
<1>1. /\ server.at = "wait" /\ server.proc = None /\ ~frozen /\ ~stopped
      /\ \A p \in Procs : procs[p].at = "off"
  BY IdleFacts DEF InstallInit
<1>2. Installed(Current) => "installed" \in causes
  BY DEF InstallInit
<1> QED
  BY <1>1, <1>2 DEF ServerInv, RunsItsOwn, CaughtIsIdle, CausesAreTold, EndsForCause

\* Every step keeps it.
LEMMA ServerStep == DiskInv /\ ServerInv /\ [InstallNext]_installVars => ServerInv'
<1> SUFFICES ASSUME DiskInv, ServerInv, [InstallNext]_installVars PROVE ServerInv'
  OBVIOUS
<1>t. /\ procs \in [Procs -> Entry] /\ None \notin Procs /\ server.proc \in Procs \cup {None}
      /\ Current \in Versions
  BY InstallBounds DEF DiskInv, InstallTypeOK
<1>0. ASSUME UNCHANGED installVars PROVE ServerInv'
  BY <1>0 DEF installVars, loopVars, diskVars, ServerInv, RunsItsOwn, CaughtIsIdle, CausesAreTold,
              EndsForCause, Installed
\* A process goes on, and the server and the path are left alone.
<1>a. ASSUME NEW p \in Procs, NEW e \in Entry, Sets(p, e), e.at # "off",
             e.version = procs[p].version \/ procs[p].at = "off",
             e.at = "tidy" /\ e.how = "ok" => procs[p].at = "tidy" /\ procs[p].how = "ok",
             UNCHANGED <<target, loopVars, causes>>
      PROVE  ServerInv'
  <2>1. procs'[p] = e /\ \A q \in Procs \ {p} : procs'[q] = procs[q]
    BY <1>a, SetsFacts DEF DiskInv
  <2>2. RunsItsOwn' /\ CaughtIsIdle' /\ EndsForCause'
    BY <1>t, <1>a, <2>1 DEF loopVars, RunsItsOwn, CaughtIsIdle, EndsForCause, ServerInv
  <2>3. CausesAreTold'
    BY <1>a, <2>1 DEF loopVars, CausesAreTold, ServerInv, Installed
  <2> QED BY <2>2, <2>3 DEF ServerInv
<1>1. ASSUME NEW p \in Procs, Looks(p) PROVE ServerInv'
  <2>1. CASE Installed(procs[p].version) /\ Leftovers = {}
    <3>1. server.proc = p => "installed" \in causes
      BY <1>t, <2>1 DEF ServerInv, RunsItsOwn, CausesAreTold
    <3> QED BY <1>1, <2>1, <3>1, OverKeepsServer DEF Looks, diskVars
  <2>2. CASE ~(Installed(procs[p].version) /\ Leftovers = {})
    <3> DEFINE e == [procs[p] EXCEPT !.at = "lock"]
    <3>1. e \in Entry /\ e.at = "lock" /\ e.version = procs[p].version
      BY <1>t DEF Entry, Places
    <3>2. Sets(p, e) /\ UNCHANGED <<target, loopVars, causes>>
      BY <1>1, <2>2 DEF Looks, OnlyProcs, diskVars
    <3> HIDE DEF e
    <3> QED BY <3>1, <3>2, <1>a
  <2> QED BY <2>1, <2>2
<1>2. ASSUME NEW p \in Procs, TakesLock(p) PROVE ServerInv'
  <2> DEFINE e == [procs[p] EXCEPT !.at = "clean", !.todo = Leftovers]
  <2>1. Leftovers \in SUBSET Names
    BY DEF Leftovers
  <2>2. Sets(p, e) /\ UNCHANGED <<target, loopVars, causes>>
    BY <1>2 DEF TakesLock, OnlyProcs, diskVars
  <2>3. e \in Entry /\ e.at = "clean" /\ e.version = procs[p].version
    <3> HIDE DEF Leftovers
    <3> QED BY <1>t, <2>1 DEF Entry, Places
  <2> HIDE DEF e
  <2> QED BY <2>2, <2>3, <1>a
<1>3. ASSUME NEW p \in Procs, Removes(p) PROVE ServerInv'
  <2>1. procs[p].at = "clean" /\ UNCHANGED <<target, loopVars, causes>>
    BY <1>3 DEF Removes, OnlyProcs
  <2>2. CASE UNCHANGED procs
    BY <2>1, <2>2 DEF loopVars, ServerInv, RunsItsOwn, CaughtIsIdle, CausesAreTold, EndsForCause, Installed
  <2>3. CASE ~UNCHANGED procs
    <3>1. PICK n \in procs[p].todo : Sets(p, [procs[p] EXCEPT !.todo = @ \ {n}])
      BY <1>3, <2>3 DEF Removes
    <3> DEFINE e == [procs[p] EXCEPT !.todo = @ \ {n}]
    <3>2. e \in Entry /\ e.at = "clean" /\ e.version = procs[p].version
      BY <1>t, <2>1 DEF Entry
    <3>3. Sets(p, e)
      BY <3>1
    <3> HIDE DEF e
    <3> QED BY <2>1, <3>2, <3>3, <1>a
  <2> QED BY <2>2, <2>3
<1>4. ASSUME NEW p \in Procs, IsInstalled(p) PROVE ServerInv'
  <2>1. server.proc = p => "installed" \in causes
    BY <1>t, <1>4 DEF IsInstalled, ServerInv, RunsItsOwn, CausesAreTold
  <2> QED BY <1>4, <2>1, OverKeepsServer DEF IsInstalled, diskVars
<1>5. ASSUME NEW p \in Procs, Stages(p) PROVE ServerInv'
  <2>1. PICK n \in Names : Sets(p, [procs[p] EXCEPT !.at = "copy", !.name = n])
    BY <1>5 DEF Stages
  <2> DEFINE e == [procs[p] EXCEPT !.at = "copy", !.name = n]
  <2>2. e \in Entry /\ e.at = "copy" /\ e.version = procs[p].version
    BY <1>t DEF Entry, Places
  <2>3. Sets(p, e) /\ UNCHANGED <<target, loopVars, causes>>
    BY <1>5, <2>1 DEF Stages, OnlyProcs
  <2> HIDE DEF e
  <2> QED BY <2>2, <2>3, <1>a
<1>6. ASSUME NEW p \in Procs, Copied(p) PROVE ServerInv'
  <2> DEFINE e == [procs[p] EXCEPT !.at = "aside"]
  <2>1. e \in Entry /\ e.at = "aside" /\ e.version = procs[p].version
    BY <1>t DEF Entry, Places
  <2>2. Sets(p, e) /\ UNCHANGED <<target, loopVars, causes>>
    BY <1>6 DEF Copied, OnlyProcs
  <2> HIDE DEF e
  <2> QED BY <2>1, <2>2, <1>a
<1>7. ASSUME NEW p \in Procs, GivesUp(p) PROVE ServerInv'
  <2> DEFINE e == [procs[p] EXCEPT !.at = "tidy", !.how = IF procs[p].asked THEN "term" ELSE "failed"]
  <2>1. e \in Entry /\ e.at = "tidy" /\ e.how # "ok" /\ e.version = procs[p].version
    BY <1>t DEF Entry, Places
  <2>2. Sets(p, e) /\ UNCHANGED <<target, loopVars, causes>>
    BY <1>7 DEF GivesUp, OnlyProcs, diskVars
  <2> HIDE DEF e
  <2> QED BY <2>1, <2>2, <1>a
<1>8. ASSUME NEW p \in Procs, GivesUpWaiting(p) PROVE ServerInv'
  BY <1>8, OverKeepsServer DEF GivesUpWaiting, diskVars
<1>9. ASSUME NEW p \in Procs, MovesAside(p) PROVE ServerInv'
  <2> DEFINE e == [procs[p] EXCEPT !.at = "in"]
  <2>1. e \in Entry /\ e.at = "in" /\ e.version = procs[p].version
    BY <1>t DEF Entry, Places
  <2>2. /\ Sets(p, e) /\ UNCHANGED <<loopVars, causes>> /\ target' = Nothing
        /\ procs[p].at = "aside"
    BY <1>9 DEF MovesAside, OnlyProcs
  <2> HIDE DEF e
  <2>3. procs'[p] = e /\ \A q \in Procs \ {p} : procs'[q] = procs[q]
    BY <2>1, <2>2, SetsFacts DEF DiskInv
  <2>4. ~Installed(Current)'
    BY <2>2, InstallBounds DEF Installed, Nothing
  <2>5. RunsItsOwn' /\ CaughtIsIdle' /\ EndsForCause'
    BY <1>t, <2>1, <2>2, <2>3 DEF loopVars, RunsItsOwn, CaughtIsIdle, EndsForCause, ServerInv
  <2>6. CausesAreTold'
    BY <2>1, <2>2, <2>3, <2>4 DEF loopVars, CausesAreTold, ServerInv
  <2> QED BY <2>5, <2>6 DEF ServerInv
<1>10. ASSUME NEW p \in Procs, MovesIn(p) PROVE ServerInv'
  <2> DEFINE e == [procs[p] EXCEPT !.at = "tidy"]
  <2>1. e \in Entry /\ e.at = "tidy" /\ e.version = procs[p].version
    BY <1>t DEF Entry, Places
  <2>2. /\ Sets(p, e) /\ UNCHANGED loopVars /\ target' = staging[procs[p].name]
        /\ procs[p].at = "in" /\ causes \subseteq causes'
        /\ procs[p].version = Current => "installed" \in causes'
    BY <1>10 DEF MovesIn, OnlyProcs
  <2> HIDE DEF e
  <2>3. procs'[p] = e /\ \A q \in Procs \ {p} : procs'[q] = procs[q]
    BY <2>1, <2>2, SetsFacts DEF DiskInv
  <2>4. Installed(Current)' => "installed" \in causes'
    BY <2>2 DEF Installed, DiskInv, StagedAsFar
  <2>5. RunsItsOwn' /\ CaughtIsIdle' /\ EndsForCause'
    BY <1>t, <2>1, <2>2, <2>3 DEF loopVars, RunsItsOwn, CaughtIsIdle, EndsForCause, ServerInv
  <2>6. server.proc = p => "installed" \in causes'
    BY <1>t, <2>2 DEF ServerInv, RunsItsOwn
  <2>7. CausesAreTold'
    BY <2>1, <2>2, <2>3, <2>4, <2>6 DEF loopVars, CausesAreTold, ServerInv
  <2> QED BY <2>5, <2>7 DEF ServerInv
<1>11. ASSUME NEW p \in Procs, Tidies(p) PROVE ServerInv'
  <2>1. procs[p].how \in {"ok", "failed", "term", "killed"}
    BY <1>t DEF Entry
  <2>2. server.proc = p /\ procs[p].how = "ok" => "installed" \in causes
    BY <1>11 DEF Tidies, ServerInv, CausesAreTold
  <2> QED BY <1>11, <2>1, <2>2, OverKeepsServer DEF Tidies
<1>12. ASSUME NEW p \in Procs, Killed(p) PROVE ServerInv'
  BY <1>12, OverKeepsServer DEF Killed, diskVars
<1>20. ASSUME NEW p \in Procs, FailsEarly(p) PROVE ServerInv'
  <2>1. PICK how \in {"failed", "unstarted"} : Over(p, how)
    BY <1>20 DEF FailsEarly
  <2> QED BY <1>20, <2>1, OverKeepsServer DEF FailsEarly, diskVars
<1>13. ASSUME NEW p \in Procs, CommandStarts(p) PROVE ServerInv'
  <2>1. PICK v \in Versions : Starts(p, v)
    BY <1>13 DEF CommandStarts
  <2> DEFINE e == [Idle EXCEPT !.at = "start", !.version = v]
  <2>2. e \in Entry /\ e.at = "start"
    BY IdleFacts
  <2>3. Sets(p, e) /\ procs[p].at = "off" /\ UNCHANGED <<target, loopVars, causes>>
    BY <1>13, <2>1 DEF CommandStarts, Starts, diskVars
  <2> HIDE DEF e
  <2> QED BY <2>2, <2>3, <1>a
<1>14. ASSUME NEW p \in Procs, Runs(p) PROVE ServerInv'
  <2> DEFINE e == [Idle EXCEPT !.at = "start", !.version = Current]
  <2>1. e \in Entry /\ e.at = "start" /\ e.version = Current
    BY <1>t, IdleFacts
  <2>2. /\ Sets(p, e) /\ UNCHANGED <<target, stopped, marked, frozen, causes>>
        /\ server' = [at |-> "run", proc |-> p, saved |-> FALSE] /\ ~marked
    BY <1>14 DEF Runs, Starts, diskVars
  <2> HIDE DEF e
  <2>3. procs'[p] = e /\ \A q \in Procs \ {p} : procs'[q] = procs[q]
    BY <2>1, <2>2, SetsFacts DEF DiskInv
  <2>4. RunsItsOwn' /\ CaughtIsIdle' /\ EndsForCause'
    BY <1>t, <2>1, <2>2, <2>3 DEF RunsItsOwn, CaughtIsIdle, EndsForCause, ServerInv
  <2>5. CausesAreTold'
    BY <2>1, <2>2, <2>3 DEF CausesAreTold, ServerInv, Installed
  <2> QED BY <2>4, <2>5 DEF ServerInv
<1>15. ASSUME RunsNone \/ Retries \/ Catches \/ RunsOn PROVE ServerInv'
  <2>1. /\ UNCHANGED <<target, procs, stopped, causes>> /\ server'.proc = server.proc
        /\ server'.at = "run" <=> server.at = "run"
        /\ server'.at = "ended" => server.at = "ended" \/ stopped
        /\ frozen' => marked' /\ server'.at # "run"
    BY <1>15 DEF RunsNone, Retries, Catches, RunsOn, diskVars, DiskInv, InstallTypeOK, ServerInv, CaughtIsIdle
  <2> QED BY <2>1 DEF ServerInv, RunsItsOwn, CaughtIsIdle, CausesAreTold, EndsForCause, Installed
<1>16. ASSUME Saves PROVE ServerInv'
  <2>1. /\ UNCHANGED <<target, procs, stopped, causes, frozen>> /\ server'.proc = server.proc
        /\ server'.at = server.at /\ marked'
    BY <1>16 DEF Saves, diskVars, DiskInv, InstallTypeOK
  <2> QED BY <2>1 DEF ServerInv, RunsItsOwn, CaughtIsIdle, CausesAreTold, EndsForCause, Installed
<1>17. ASSUME DiesOfSave PROVE ServerInv'
  BY <1>t, <1>17, OverKeepsServer DEF DiesOfSave, diskVars
<1>18. ASSUME StopsInstall PROVE ServerInv'
  <2>1. /\ stopped' /\ causes' = causes \cup {"stopped"} /\ UNCHANGED <<target, marked, frozen>>
        /\ server' = [server EXCEPT !.at = IF @ = "retry" THEN "wait" ELSE @]
    BY <1>18 DEF StopsInstall, diskVars
  <2>2. /\ server'.proc = server.proc /\ server'.at = "run" <=> server.at = "run"
        /\ server'.at = "ended" => server.at = "ended"
    BY <2>1 DEF DiskInv, InstallTypeOK
  <2>3. \A q \in Procs : /\ procs'[q].at = procs[q].at /\ procs'[q].version = procs[q].version
                         /\ procs'[q].how = procs[q].how
    <3>1. CASE server.at = "run"
      <4> DEFINE e == [procs[server.proc] EXCEPT !.asked = TRUE]
      <4>1. server.proc \in Procs
        BY <1>t, <3>1 DEF ServerInv, RunsItsOwn
      <4>2. /\ e \in Entry /\ e.at = procs[server.proc].at /\ e.how = procs[server.proc].how
            /\ e.version = procs[server.proc].version
        BY <1>t, <4>1 DEF Entry
      <4>3. Sets(server.proc, e)
        BY <1>18, <3>1 DEF StopsInstall
      <4> HIDE DEF e
      <4> QED BY <4>1, <4>2, <4>3, SetsFacts DEF DiskInv
    <3>2. CASE server.at # "run"
      BY <1>18, <3>2 DEF StopsInstall
    <3> QED BY <3>1, <3>2
  <2>4. RunsItsOwn' /\ CaughtIsIdle' /\ EndsForCause'
    BY <1>t, <2>1, <2>2, <2>3 DEF ServerInv, RunsItsOwn, CaughtIsIdle, EndsForCause
  <2>5. CausesAreTold'
    BY <2>1, <2>2, <2>3 DEF ServerInv, CausesAreTold, Installed
  <2> QED BY <2>4, <2>5 DEF ServerInv
<1>19. ASSUME ServerDies PROVE ServerInv'
  <2>1. /\ server' = [at |-> "wait", proc |-> None, saved |-> FALSE] /\ ~stopped' /\ ~frozen'
        /\ UNCHANGED <<target, procs>>
        /\ Installed(Current) => "installed" \in causes'
    BY <1>19 DEF ServerDies, diskVars
  <2> QED BY <1>t, <2>1 DEF ServerInv, RunsItsOwn, CaughtIsIdle, CausesAreTold, EndsForCause, Installed
<1> QED
  BY <1>0, <1>1, <1>2, <1>3, <1>4, <1>5, <1>6, <1>7, <1>8, <1>9, <1>10, <1>11, <1>12, <1>13,
     <1>14, <1>15, <1>16, <1>17, <1>18, <1>19, <1>20 DEF InstallNext, Works, ServerWorks

\* Both invariants hold of every behaviour.
LEMMA InstallInvariants == InstallSpec => [](DiskInv /\ ServerInv)
BY DiskInit, DiskStep, ServerInit, ServerStep, PTL DEF InstallSpec

\* What a save catches has no process of the install: it is gone before, and none is
\* started until the server runs on (toolbelt.ts, holdingFiles).
THEOREM CaughtWithNone == InstallSpec => []NoneIsCaught
<1>1. DiskInv /\ ServerInv => NoneIsCaught
  BY DEF ServerInv, RunsItsOwn, CaughtIsIdle, NoneIsCaught
<1> QED BY <1>1, InstallInvariants, PTL

\* The server's install ends only as the toolbelt was installed, failed of itself or was
\* stopped by the server: a save or a kill begins it again (toolbelt.ts, run).
THEOREM InstallEndsForCause == InstallSpec => []EndsForCause
<1>1. DiskInv /\ ServerInv => EndsForCause
  BY DEF ServerInv
<1> QED BY <1>1, InstallInvariants, PTL

=============================================================================
