----------------------------- MODULE CommitProofs -----------------------------
(***************************************************************************)
(* Proofs about the checkpoint of a session, and the execs it comes of:    *)
(* the files that keep it (CheckpointStore), for every number of execs, of *)
(* writes that fail, of crashes and of harms, and the execs between the    *)
(* session and its host (ExecProtocol), for every number of execs, of      *)
(* messages and of troubles, and however the output falls into chunks.     *)
(***************************************************************************)
EXTENDS CheckpointStore, ExecProtocol, WellFoundedInduction, TLAPS

-----------------------------------------------------------------------------
(* The checkpoint's files.                                                 *)

\* What the store reads is a revision, none, or a checkpoint it refuses.
LEMMA InspectedType ==
  ASSUME manifest \in Revision
  PROVE  Inspected \in Nat \cup {None, Unreadable}
BY SentinelAssumption DEF Inspected, Revision

\* A revision it reads is of the manifest, or of the legacy file where there is
\* no manifest; it reads none where there is neither, and unharmed it reads what
\* there is.
LEMMA InspectedIs ==
  ASSUME manifest \in Revision, damaged \in BOOLEAN, PayloadIsThere, DamageIsHarm
  PROVE  /\ Inspected \in Nat => \/ manifest # None /\ Inspected = manifest
                                 \/ manifest = None /\ legacy /\ Inspected = 0
         /\ Inspected = None => manifest = None /\ ~legacy
         /\ harms = 0 => Inspected # Unreadable
BY SentinelAssumption DEF Inspected, Revision, PayloadIsThere, DamageIsHarm

\* The types, and the exec that a turn has: what it commits is a revision.
TypeInv == TypeOK /\ TurnHasExec

\* They are kept together.
LEMMA TypeInvariant == Spec => []TypeInv
<1>1. Init => TypeInv
  <2> SUFFICES ASSUME Init PROVE TypeInv
    OBVIOUS
  <2>1. recorded \in BOOLEAN /\ legacy \in BOOLEAN /\ damaged \in BOOLEAN
    BY DEF Init
  <2>2. rev \in Revision /\ from \in Revision /\ manifest \in Revision
    BY DEF Init, Revision
  <2>3. QED
    BY <2>1, <2>2, BoundAssumption
       DEF Init, TypeInv, TypeOK, TurnHasExec, Uncommitted, Committed, Writing, Histories,
           Ends, Statuses, Steps, Persists
<1>2. TypeInv /\ [Next]_vars => TypeInv'
  <2> SUFFICES ASSUME TypeInv, [Next]_vars
               PROVE  TypeInv'
    OBVIOUS
  <2>i. Inspected \in Nat \cup {None, Unreadable}
    BY InspectedType DEF TypeInv, TypeOK
  <2> USE BoundAssumption
      DEF TypeInv, TypeOK, TurnHasExec, Uncommitted, Committed, Writing, Histories, Ends,
          Statuses, Revision, Steps, Persists, Execs, Persisting, Persisted, Fault, SameCounts, SameFiles, storeVars, fileVars, entryVars, boundVars
  <2>0. CASE UNCHANGED vars
    BY <2>0 DEF vars
  <2>1. CASE WriteHistory
    BY <2>1, <2>i DEF WriteHistory
  <2>2. CASE WriteCatalog
    BY <2>2, <2>i DEF WriteCatalog
  <2>3. CASE PersistFails
    <3>1. told' \subseteq Nat
      <4>1. then = "committed" => exec \in Nat
        BY <2>3 DEF PersistFails
      <4>2. told' = told \/ (then = "committed" /\ told' = told \cup {exec})
        BY <2>3 DEF PersistFails
      <4>3. QED
        BY <4>1, <4>2
    <3>2. hist' \in Histories /\ status' \in Statuses /\ from' \in {NotLive} \cup Revision
      BY <2>3 DEF PersistFails, Contain, EndedAs
    <3>3. step' \in Steps /\ then' \in Persists /\ exec' \in {None} \cup Execs
      BY <2>3 DEF PersistFails, Contain
    <3>4. (step' = "history" /\ then' \in {"failed", "ended", "started", "committed"})
             => exec' # None
      BY <2>3 DEF PersistFails, Contain
    <3>5. step' \in {"history", "down", "idle", "removing"}
      BY <2>3 DEF PersistFails, Contain
    <3>6. QED
      BY <2>3, <3>1, <3>2, <3>3, <3>4, <3>5 DEF PersistFails, Contain
  <2>4. CASE Started
    BY <2>4, <2>i DEF Started
  <2>5. CASE TellCommitted
    <3>1. told' \subseteq Nat
      <4>1. exec \in Nat
        BY <2>5 DEF TellCommitted
      <4>2. QED
        BY <2>5, <4>1 DEF TellCommitted
    <3>2. QED
      BY <2>5, <3>1 DEF TellCommitted
  <2>6. CASE CommitFailed
    BY <2>6, <2>i DEF CommitFailed, EndedAs
  <2>7. CASE TellEnd
    <3>1. told' \subseteq Nat
      <4>1. told' \subseteq told \cup Execs /\ Execs \subseteq Nat
        BY <2>7 DEF TellEnd
      <4>2. QED
        BY <4>1
    <3>2. from' \in {NotLive} \cup Revision
      BY <2>7 DEF TellEnd
    <3>3. QED
      BY <2>7, <3>1, <3>2 DEF TellEnd
  <2>8. CASE Settled
    BY <2>8, <2>i DEF Settled
  <2>9. CASE StartExec
    <3>1. hist' \in Histories
      BY <2>9 DEF StartExec
    <3>2. from' \in {NotLive} \cup Revision /\ status' \in Statuses
      BY <2>9 DEF StartExec
    <3>3. exec' \in Execs /\ step' = "history" /\ then' \in {"contained", "started"}
      BY <2>9 DEF StartExec
    <3>4. UNCHANGED <<fileVars, damaged, rev, told, boundVars>>
      BY <2>9 DEF StartExec
    <3>5. QED
      BY <3>1, <3>2, <3>3, <3>4, SentinelAssumption
  <2>10. CASE EndsWithout
    BY <2>10, <2>i DEF EndsWithout, Ending, EndedAs
  <2>11. CASE EndsWithCommit
    BY <2>11, <2>i DEF EndsWithCommit, Ending, EndedAs
  <2>12. CASE EndsInvalid
    BY <2>12, <2>i DEF EndsInvalid, Ending, EndedAs
  <2>13. CASE CommitUnmoved
    BY <2>13, <2>i DEF CommitUnmoved, Contain, EndedAs
  <2>14. CASE WritePayload
    <3>1. exec \in Nat
      BY <2>14 DEF WritePayload
    <3>2. payloads' \subseteq Nat /\ sidecars' \subseteq Nat
      BY <2>14, <3>1 DEF WritePayload
    <3>3. QED
      BY <2>14, <3>2 DEF WritePayload
  <2>15. CASE WriteFails
    BY <2>15, <2>i DEF WriteFails, FailCommit
  <2>16. CASE RenameManifest
    <3>1. legacy' \in BOOLEAN /\ damaged' \in BOOLEAN
      BY <2>16 DEF RenameManifest
    <3>2. payloads' \subseteq Nat /\ manifest' \in Revision
      BY <2>16 DEF RenameManifest
    <3>3. QED
      BY <2>16, <3>1, <3>2 DEF RenameManifest
  <2>17. CASE Retire
    <3>1. legacy' \in BOOLEAN /\ damaged' \in BOOLEAN
      BY <2>17 DEF Retire
    <3>2. payloads' \subseteq Nat /\ manifest' \in Revision
      BY <2>17 DEF Retire
    <3>3. QED
      BY <2>17, <3>1, <3>2 DEF Retire
  <2>18. CASE Verify
    BY <2>18, <2>i DEF Verify
  <2>19. CASE VerifyFails
    BY <2>19, <2>i DEF VerifyFails, FailCommit
  <2>20. CASE ComeBack
    BY <2>20, <2>i DEF ComeBack, Contain, EndedAs, Leaves
  <2>21. CASE Reset
    BY <2>21, <2>i DEF Reset, Leaves, Recycles, EndedAs
  <2>22. CASE Hydrate
    BY <2>22, <2>i DEF Hydrate, Contain, EndedAs, Compatible
  <2>23. CASE Close
    BY <2>23, <2>i DEF Close, Buried, Leaves, EndedAs
  <2>24. CASE Stopped
    BY <2>24, <2>i DEF Stopped, Buried
  <2>25. CASE Tombstone
    BY <2>25, <2>i DEF Tombstone
  <2>26. CASE RemoveCatalog
    BY <2>26, <2>i DEF RemoveCatalog
  <2>27. CASE RemoveCatalogFails
    BY <2>27, <2>i DEF RemoveCatalogFails
  <2>28. CASE RemoveRest
    <3>1. legacy' \in BOOLEAN /\ damaged' \in BOOLEAN
      BY <2>28 DEF RemoveRest
    <3>2. payloads' \subseteq Nat /\ manifest' \in Revision
      BY <2>28 DEF RemoveRest
    <3>3. QED
      BY <2>28, <3>1, <3>2 DEF RemoveRest
  <2>29. CASE Crash
    BY <2>29, <2>i DEF Crash
  <2>30. CASE Load
    BY <2>30, <2>i DEF Load, LoadedStatus
  <2>31. CASE LoadClosed
    BY <2>31, <2>i DEF LoadClosed
  <2>32. CASE Corrupt
    BY <2>32, <2>i DEF Corrupt
  <2>33. CASE Lose
    <3>1. legacy' \in BOOLEAN /\ damaged' \in BOOLEAN
      BY <2>33 DEF Lose
    <3>2. payloads' \subseteq Nat /\ manifest' \in Revision
      BY <2>33 DEF Lose
    <3>3. QED
      BY <2>33, <3>1, <3>2 DEF Lose
  <2>34. CASE Left
    BY <2>34, <2>i DEF Left
  <2>35. CASE StartFails
    BY <2>35, <2>i DEF StartFails, Contain, EndedAs
  <2>36. CASE TombstoneRefused
    BY <2>36, <2>i DEF TombstoneRefused
  <2>37. QED
    BY <2>0, <2>1, <2>2, <2>3, <2>4, <2>5, <2>6, <2>7, <2>8, <2>9, <2>10, <2>11,
       <2>12, <2>13, <2>14, <2>15, <2>16, <2>17, <2>18, <2>19, <2>20, <2>21, <2>22,
       <2>23, <2>24, <2>25, <2>26, <2>27, <2>28, <2>29, <2>30, <2>31, <2>32, <2>33, <2>34, <2>35,
       <2>36
       DEF Next
<1>3. QED
  BY <1>1, <1>2, PTL DEF Spec

\* Every variable keeps its type.
THEOREM TypeCorrect == Spec => []TypeOK
<1>1. TypeInv => TypeOK
  BY DEF TypeInv
<1>2. QED
  BY <1>1, TypeInvariant, PTL

-----------------------------------------------------------------------------
\* The invariant holds at first.
LEMMA StoreInit == Init /\ TypeInv => StoreInv
BY SentinelAssumption
   DEF Init, StoreInv, TypeInv, PayloadIsThere, SidecarsAreOfExecs, DamageIsHarm,
       RemovedIsUnlisted, ExecsInOrder, TurnsExec, RevisionsAreKnown, CheckpointIsKept,
       RecordedIsKnown, Known, Holds, Lost, Writing, Uncommitted, Committed, Owned, Listed,
       Execs

\* Every step keeps the invariant.
LEMMA StoreStep == StoreInv /\ TypeInv' /\ [Next]_vars => StoreInv'
<1> SUFFICES ASSUME StoreInv, TypeInv', [Next]_vars
             PROVE  StoreInv'
  OBVIOUS
<1> DEFINE Parts == /\ PayloadIsThere /\ SidecarsAreOfExecs /\ DamageIsHarm
                    /\ RemovedIsUnlisted /\ ExecsInOrder /\ TurnsExec
                    /\ RevisionsAreKnown /\ CheckpointIsKept /\ RecordedIsKnown
<1> SUFFICES Parts'
  BY DEF StoreInv, TypeInv
<1>i. Inspected \in Nat \cup {None, Unreadable}
  BY InspectedType DEF StoreInv, TypeOK
<1>w. /\ Inspected \in Nat => \/ manifest # None /\ Inspected = manifest
                              \/ manifest = None /\ legacy /\ Inspected = 0
      /\ Inspected = None => manifest = None /\ ~legacy
      /\ harms = 0 => Inspected # Unreadable
  BY InspectedIs DEF StoreInv, TypeOK
<1>u. UNCHANGED <<storeVars, damaged>> => Inspected' = Inspected
  BY DEF Inspected, storeVars
<1> USE SentinelAssumption
    DEF StoreInv, TypeInv, TypeOK, TurnHasExec, PayloadIsThere, SidecarsAreOfExecs,
        DamageIsHarm, RemovedIsUnlisted, ExecsInOrder, TurnsExec, RevisionsAreKnown,
        CheckpointIsKept, RecordedIsKnown, Known, Holds, Lost, Writing, Uncommitted,
        Committed, Owned, Listed, Execs, Histories, Revision, Persisting, Persisted, Fault,
        SameCounts, SameFiles, storeVars, fileVars, entryVars, boundVars
<1>0. CASE UNCHANGED vars
  BY <1>0, <1>u DEF vars
<1>1. CASE WriteHistory
  BY <1>1, <1>i, <1>w, <1>u DEF WriteHistory
<1>2. CASE WriteCatalog
  <2>1. PayloadIsThere' /\ SidecarsAreOfExecs' /\ DamageIsHarm' /\ RemovedIsUnlisted'
    BY <1>2 DEF WriteCatalog, Statuses
  <2>2. ExecsInOrder' /\ TurnsExec'
    BY <1>2 DEF WriteCatalog
  <2>3. RevisionsAreKnown' /\ CheckpointIsKept'
    BY <1>2 DEF WriteCatalog
  <2>4. RecordedIsKnown'
    BY <1>2, <1>u DEF WriteCatalog
  <2>5. QED
    BY <2>1, <2>2, <2>3, <2>4
<1>3. CASE PersistFails
  <2>1. /\ UNCHANGED <<storeVars, damaged, catalog, stored, recorded, rev, harms>>
        /\ step \in {"history", "catalog"}
    BY <1>3 DEF PersistFails, Contain
  <2>2. told' = told \/ (then = "committed" /\ told' = told \cup {exec})
    BY <1>3 DEF PersistFails
  <2>3. CASE Contain
    <3>1. /\ step' = "history" /\ then' = "contained" /\ exec' = exec
          /\ status' = "quarantined"
      BY <2>3 DEF Contain
    <3>2. \A e \in Execs : hist'[e] = "none" <=> hist[e] = "none"
      BY <2>3 DEF Contain, EndedAs
    <3>3. PayloadIsThere' /\ SidecarsAreOfExecs' /\ DamageIsHarm' /\ RemovedIsUnlisted'
      BY <2>1, <3>1, <3>2
    <3>4. ExecsInOrder' /\ TurnsExec'
      BY <2>1, <3>1, <3>2
    <3>5. RevisionsAreKnown' /\ CheckpointIsKept' /\ RecordedIsKnown'
      BY <2>1, <2>2, <3>1, <3>2, <1>u
    <3>6. QED
      BY <3>3, <3>4, <3>5
  <2>4. CASE UNCHANGED <<rev, hist>> /\ step' \in {"history", "idle", "down", "removing"}
    <3>1. \/ step' = "history" /\ then = "committed" /\ then' = "failed" /\ exec' = exec
             /\ status' = "quarantined"
          \/ step' \in {"idle", "down"} /\ exec' \in {exec, None} /\ status' = status
          \/ step' = "removing" /\ then' \in {"tombstone", "refused"} /\ exec' = exec /\ status' = status
          \/ Contain
      BY <1>3 DEF PersistFails
    <3>2. PayloadIsThere' /\ SidecarsAreOfExecs' /\ DamageIsHarm' /\ RemovedIsUnlisted'
      BY <2>1, <2>3, <2>4, <3>1
    <3>3. ExecsInOrder' /\ TurnsExec'
      BY <2>1, <2>3, <2>4, <3>1
    <3>4. RevisionsAreKnown' /\ CheckpointIsKept' /\ RecordedIsKnown'
      BY <2>1, <2>2, <2>3, <2>4, <3>1, <1>u
    <3>5. QED
      BY <3>2, <3>3, <3>4
  <2>5. QED
    BY <1>3, <2>3, <2>4 DEF PersistFails
<1>4. CASE Started
  BY <1>4, <1>i, <1>w, <1>u DEF Started
<1>5. CASE TellCommitted
  BY <1>5, <1>i, <1>w, <1>u DEF TellCommitted
<1>6. CASE CommitFailed
  <2>1. exec \in Execs /\ hist' \in Histories /\ hist'[exec] = "error"
    BY <1>6 DEF CommitFailed, EndedAs
  <2>2. \A e \in Execs : hist'[e] = "none" <=> hist[e] = "none"
    BY <1>6 DEF CommitFailed, EndedAs
  <2>3. step = "persisted" /\ then = "failed" /\ step' = "history" /\ then' = "ended"
    BY <1>6 DEF CommitFailed
  <2>4. UNCHANGED <<fileVars, damaged, exec, rev, status, from, told, boundVars>>
    BY <1>6 DEF CommitFailed
  <2>5. stored[exec] # "none"
    BY <2>1, <2>3
  <2>6. PayloadIsThere' /\ SidecarsAreOfExecs' /\ DamageIsHarm' /\ RemovedIsUnlisted'
    BY <2>1, <2>2, <2>3, <2>4
  <2>7. ExecsInOrder' /\ TurnsExec'
    BY <2>1, <2>2, <2>3, <2>4, <2>5
  <2>8. RevisionsAreKnown' /\ CheckpointIsKept' /\ RecordedIsKnown'
    BY <2>2, <2>3, <2>4, <1>u
  <2>9. QED
    BY <2>6, <2>7, <2>8
<1>7. CASE TellEnd
  BY <1>7, <1>i, <1>w, <1>u DEF TellEnd
<1>8. CASE Settled
  BY <1>8, <1>i, <1>w, <1>u DEF Settled
<1>9. CASE StartExec
  BY <1>9, <1>i, <1>w, <1>u DEF StartExec, NextExec
<1>10. CASE EndsWithout
  BY <1>10, <1>i, <1>w, <1>u DEF EndsWithout, Ending, EndedAs, Ends
<1>11. CASE EndsWithCommit
  BY <1>11, <1>i, <1>w, <1>u DEF EndsWithCommit, Ending, EndedAs
<1>12. CASE EndsInvalid
  BY <1>12, <1>i, <1>w, <1>u DEF EndsInvalid, Ending, EndedAs
<1>13. CASE CommitUnmoved
  BY <1>13, <1>i, <1>w, <1>u DEF CommitUnmoved, Contain, EndedAs
<1>14. CASE WritePayload
  BY <1>14, <1>i, <1>w, <1>u DEF WritePayload
<1>15. CASE WriteFails
  BY <1>15, <1>i, <1>w, <1>u DEF WriteFails, FailCommit
<1>16. CASE RenameManifest
  BY <1>16, <1>i, <1>w, <1>u DEF RenameManifest
<1>17. CASE Retire
  <2>1. legacy' \in BOOLEAN /\ (legacy' => legacy) /\ (Lost => Lost')
    <3>1. CASE legacy' = legacy
      BY <1>17, <3>1 DEF Retire
    <3>2. CASE legacy' = FALSE
      BY <1>17, <3>2 DEF Retire
    <3>3. QED
      BY <1>17, <3>1, <3>2 DEF Retire
  <2>2. PayloadIsThere' /\ SidecarsAreOfExecs' /\ DamageIsHarm' /\ RemovedIsUnlisted'
    BY <1>17 DEF Retire
  <2>3. ExecsInOrder' /\ TurnsExec'
    BY <1>17, <2>1 DEF Retire
  <2>4. RevisionsAreKnown' /\ RecordedIsKnown'
    BY <1>17 DEF Retire
  <2>5. CheckpointIsKept'
    BY <1>17, <2>1 DEF Retire
  <2>6. QED
    BY <2>2, <2>3, <2>4, <2>5
<1>18. CASE Verify
  BY <1>18, <1>i, <1>w, <1>u DEF Verify
<1>19. CASE VerifyFails
  BY <1>19, <1>i, <1>w, <1>u DEF VerifyFails, FailCommit
<1>20. CASE ComeBack
  BY <1>20, <1>i, <1>w, <1>u DEF ComeBack, Contain, EndedAs, Leaves
<1>21. CASE Reset
  BY <1>21, <1>i, <1>w, <1>u DEF Reset, Leaves, Recycles, EndedAs
<1>22. CASE Hydrate
  BY <1>22, <1>i, <1>w, <1>u, SMTT(20) DEF Hydrate, Contain, EndedAs, Compatible
<1>23. CASE Close
  BY <1>23, <1>i, <1>w, <1>u, SMTT(20) DEF Close, Buried, Leaves, EndedAs
<1>24. CASE Stopped
  BY <1>24, <1>i, <1>w, <1>u DEF Stopped, Buried
<1>25. CASE Tombstone
  BY <1>25, <1>i, <1>w, <1>u DEF Tombstone
<1>26. CASE RemoveCatalog
  BY <1>26, <1>i, <1>w, <1>u DEF RemoveCatalog
<1>27. CASE RemoveCatalogFails
  BY <1>27, <1>i, <1>w, <1>u DEF RemoveCatalogFails
<1>28. CASE RemoveRest
  <2>1. /\ ~Owned'
        /\ manifest' \in {manifest, None}
    BY <1>28 DEF RemoveRest
  <2>2. Inspected \notin Nat => Inspected' \notin Nat
    <3>1. CASE UNCHANGED <<manifest, legacy, payloads>>
      BY <1>28, <3>1, <1>u DEF RemoveRest
    <3>2. CASE manifest' = None /\ legacy' = FALSE
      BY <3>2 DEF Inspected
    <3>3. QED
      BY <1>28, <3>1, <3>2 DEF RemoveRest
  <2>3. PayloadIsThere' /\ SidecarsAreOfExecs' /\ DamageIsHarm' /\ RemovedIsUnlisted'
    BY <1>28, <2>1, ZenonT(40) DEF RemoveRest
  <2>4. ExecsInOrder' /\ TurnsExec'
    BY <1>28 DEF RemoveRest
  <2>5. RevisionsAreKnown' /\ CheckpointIsKept' /\ RecordedIsKnown'
    BY <1>28, <2>1, <2>2 DEF RemoveRest
  <2>6. QED
    BY <2>3, <2>4, <2>5
<1>29. CASE Crash
  BY <1>29, <1>i, <1>w, <1>u DEF Crash
<1>30. CASE Load
  BY <1>30, <1>i, <1>w, <1>u DEF Load, LoadedStatus
<1>31. CASE LoadClosed
  BY <1>31, <1>i, <1>w, <1>u DEF LoadClosed
<1>32. CASE Corrupt
  BY <1>32, <1>i, <1>w, <1>u DEF Corrupt
<1>33. CASE Lose
  <2>1. Lost' /\ harms' > 0
    BY <1>33 DEF Lose
  <2>2. Inspected' = None
    BY <1>33 DEF Lose, Inspected
  <2>3. PayloadIsThere' /\ SidecarsAreOfExecs' /\ DamageIsHarm' /\ RemovedIsUnlisted'
    BY <1>33, <2>1 DEF Lose
  <2>4. ExecsInOrder' /\ TurnsExec'
    BY <1>33, <2>1 DEF Lose
  <2>5. RevisionsAreKnown' /\ CheckpointIsKept' /\ RecordedIsKnown'
    BY <1>33, <2>1, <2>2 DEF Lose
  <2>6. QED
    BY <2>3, <2>4, <2>5
<1>34. CASE Left
  BY <1>34, <1>i, <1>w, <1>u DEF Left
<1>35. CASE StartFails
  BY <1>35, <1>i, <1>w, <1>u DEF StartFails, Contain, EndedAs
<1>36. CASE TombstoneRefused
  BY <1>36, <1>i, <1>w, <1>u DEF TombstoneRefused
<1>37. QED
  BY <1>0, <1>1, <1>2, <1>3, <1>4, <1>5, <1>6, <1>7, <1>8, <1>9, <1>10, <1>11, <1>12,
     <1>13, <1>14, <1>15, <1>16, <1>17, <1>18, <1>19, <1>20, <1>21, <1>22, <1>23,
     <1>24, <1>25, <1>26, <1>27, <1>28, <1>29, <1>30, <1>31, <1>32, <1>33, <1>34, <1>35, <1>36
     DEF Next

\* The inductive invariant of the store, the history and the catalog.
THEOREM StoreIsSound == Spec => []StoreInv
<1>1. Init /\ TypeInv => StoreInv
  BY StoreInit
<1>2. StoreInv /\ TypeInv' /\ [Next]_vars => StoreInv'
  BY StoreStep
<1>3. QED
  BY <1>1, <1>2, TypeInvariant, PTL DEF Spec

-----------------------------------------------------------------------------
\* Unharmed, what the store reads is no older than what the checkpoint holds.
LEMMA ReadsWhatItHolds ==
  ASSUME StoreInv, harms = 0, NEW r \in Nat, Holds(r)
  PROVE  Inspected \in Nat /\ Inspected >= r
BY InspectedType, InspectedIs, SentinelAssumption DEF Holds, StoreInv, TypeOK, Revision

\* Whenever the server dies, the session's checkpoint is one that validates,
\* unless it was harmed from outside: a crash between the renames of
\* checkpoint-store.ts leaves the old checkpoint or the new one.
THEOREM CrashReads == Spec => []CrashReadsOne
<1>1. StoreInv => CrashReadsOne
  BY InspectedIs DEF StoreInv, TypeOK, CrashReadsOne
<1>2. QED
  BY <1>1, StoreIsSound, PTL

\* A session that is found has the checkpoint its entry names, or one since.
THEOREM CatalogBacked == Spec => []CatalogIsBacked
<1>1. StoreInv => CatalogIsBacked
  <2> SUFFICES ASSUME StoreInv, harms = 0, Listed, catalog.rev \in Nat
               PROVE  Inspected \in Nat /\ Inspected >= catalog.rev
    BY DEF CatalogIsBacked
  <2>1. Holds(catalog.rev)
    BY SentinelAssumption DEF StoreInv, CheckpointIsKept, Owned, Lost
  <2>2. QED
    BY <2>1, ReadsWhatItHolds
<1>2. QED
  BY <1>1, StoreIsSound, PTL

\* What was told committed, or told ok, is in the checkpoint the next server
\* finds, whatever failed and however often a server died.
THEOREM ToldKept == Spec => []ToldIsKept
<1>1. StoreInv => ToldIsKept
  <2> SUFFICES ASSUME StoreInv, harms = 0, Listed, NEW r \in told
               PROVE  Inspected \in Nat /\ Inspected >= r
    BY DEF ToldIsKept
  <2>1. Holds(r) /\ r \in Nat
    BY DEF StoreInv, TypeOK, CheckpointIsKept, Owned, Lost
  <2>2. QED
    BY <2>1, ReadsWhatItHolds
<1>2. QED
  BY <1>1, StoreIsSound, PTL

\* A session whose checkpoint was ever recorded never comes back as it began, nor
\* from a checkpoint before one it was told of, harmed as it may be.
THEOREM BackIsWhole == Spec => BackWhole
<1>1. StoreInv /\ [Next]_vars /\ from = NotLive /\ from' # NotLive => Hydrate
  BY DEF Next, vars, entryVars, storeVars, fileVars, boundVars, WriteHistory, WriteCatalog,
         PersistFails, Contain, Started, TellCommitted, CommitFailed, TellEnd, Settled,
         StartExec, EndsWithout, EndsWithCommit, EndsInvalid, CommitUnmoved, WritePayload,
         WriteFails, FailCommit, RenameManifest, Retire, Verify, VerifyFails, ComeBack,
         Reset, Leaves, Left, StartFails, Close, Stopped, Tombstone, TombstoneRefused, RemoveCatalog, RemoveCatalogFails, RemoveRest,
         Crash, Load, LoadClosed, Corrupt, Lose
<1>2. StoreInv /\ Hydrate /\ from' # NotLive =>
        /\ from' = None => ~recorded
        /\ from' \in Nat => \A r \in told : from' >= r
  <2> SUFFICES ASSUME StoreInv, Hydrate, from' # NotLive
               PROVE  /\ from' = None => ~recorded
                      /\ from' \in Nat => \A r \in told : from' >= r
    OBVIOUS
  <2>1. Compatible /\ from' = Inspected /\ step = "starting"
    BY DEF Hydrate, Contain
  <2>2. from' = None => ~recorded
    BY <2>1 DEF Compatible, StoreInv, RecordedIsKnown
  <2>3. ASSUME from' \in Nat, NEW r \in told PROVE from' >= r
    <3>1. Inspected \in Nat
      BY <2>1, <2>3
    <3>2. ~Lost /\ Owned
      BY <2>1, <3>1, InspectedIs DEF Lost, Owned, StoreInv, TypeOK
    <3>3. Holds(r) /\ r \in Nat
      BY <3>2 DEF StoreInv, TypeOK, CheckpointIsKept
    <3>4. QED
      BY <2>1, <3>1, <3>3, InspectedIs DEF Holds, StoreInv, TypeOK
  <2>4. QED
    BY <2>2, <2>3
<1>3. StoreInv /\ [Next]_vars =>
        [from = NotLive /\ from' # NotLive =>
           /\ from' = None => ~recorded
           /\ from' \in Nat => \A r \in told : from' >= r]_vars
  BY <1>1, <1>2
<1>4. QED
  BY <1>3, StoreIsSound, PTL DEF Spec, BackWhole

-----------------------------------------------------------------------------
(* One exec after another: the inductive invariant of ExecProtocol.        *)

Envs == [kind : {"stdout", "error", "checkpoint", "checkpoint-preserved", "done"}, val : Nat]
Atoms == {Prompt, Text, LineEnd} \cup {Open(e) : e \in Cells} \cup {Closing(env) : env \in Envs}
LinesType == [line : Seq(Atoms), done : BOOLEAN, prompted : BOOLEAN, found : Seq(Envs)]
CaptureType == [status : {"ok", "error", "interrupted"},
                outcome : {"none", "commit", "preserved", "invalid"}, commit : Nat,
                count : Nat, stopped : BOOLEAN, terminal : BOOLEAN]
HostType == [at : {"idle", "cell", "ending", "done", "prompt", "dead"}, exec : {NoExec} \cup Cells,
             holds : Nat, loaded : BOOLEAN, failed : BOOLEAN, prints : Nat,
             signalled : BOOLEAN, told : BOOLEAN]

RecordType(r) ==
    /\ DOMAIN r = Cells
    /\ \A e \in Cells :
         /\ r[e] = [status |-> r[e].status, messages |-> r[e].messages]
         /\ r[e].status \in {"none", "running", "ok", "error", "interrupted"}

\* What each variable holds.
Types ==
    /\ kind \in Kinds /\ host \in HostType
    /\ host.at \in {"cell", "ending", "done"} => host.exec \in Cells
    /\ stdin \in {NoExec} \cup Cells /\ active \in {NoExec} \cup Cells /\ intr \in {NoExec} \cup Cells
    /\ (held => active # NoExec) /\ held \in BOOLEAN /\ saved \in BOOLEAN /\ session \in {"live", "quarantined"}
    /\ pipe \in Seq(Atoms) /\ lines \in LinesType /\ lines.found = <<>>
    /\ capture \in CaptureType
    /\ RecordType(record)
    /\ store = [by |-> store.by, holds |-> store.holds] /\ store.by \in {NoExec} \cup Cells /\ store.holds \in Nat
    /\ spent \in [interrupts : Nat, faults : Nat, saves : Nat, writes : Nat]
    /\ said \in [Cells -> Seq(Envs)] /\ left \in [Cells -> Nat]
    /\ ended \in [Cells -> {"no", "done", "cut"}]

\* An envelope of these kinds, and that one is to be read.
IsEnv(x, kinds) == x.a = "close" /\ x.env.kind \in kinds
InPipe(kinds) == \E i \in DOMAIN pipe : IsEnv(pipe[i], kinds)
Outcomes == {"checkpoint", "checkpoint-preserved"}
\* What is told of an exec that runs only.
Telling == {"error", "done"} \cup Outcomes

\* The host is at an exec's cell, or has yet to come back from it.
Running == host.at \in {"cell", "ending", "done"} \/ (host.at = "prompt" /\ host.exec # NoExec)

\* Whose turn it is: the exec that is active is the one that runs, the one the host is
\* at, and the one written to it.
Turns ==
    /\ session = "quarantined" => active = NoExec /\ host.at = "dead"
    /\ active # NoExec => record[active].status = "running"
    /\ \A e \in Cells : record[e].status = "running" => e = active
    /\ Running => active # NoExec /\ host.exec = active /\ stdin = NoExec
    /\ host.at = "idle" => host.exec = NoExec
    /\ host.at = "prompt" /\ host.exec = NoExec => kind = "bun"
    /\ stdin # NoExec /\ host.at # "dead" => stdin = active
    /\ active = NoExec => lines = NoLines /\ capture = NoCapture /\ ~held
    /\ lines.prompted => lines.done
    /\ held => IsDone(lines)

DoneTold == lines.done \/ InPipe({"done"})
DoneIsLast == \A i, j \in DOMAIN pipe : i < j /\ IsEnv(pipe[i], {"done"}) => ~IsEnv(pipe[j], Telling)
\* No prompt came after the exec was said to be done.
NoPromptYet ==
    /\ ~lines.prompted
    /\ \A i, j \in DOMAIN pipe : i < j /\ IsEnv(pipe[i], {"done"}) => pipe[j] # Prompt
    /\ lines.done => /\ \A i \in DOMAIN pipe : pipe[i] # Prompt
                     /\ \A i \in DOMAIN lines.line : lines.line[i] # Prompt

\* What is told is told of the active exec, that it is done at the last, and then only
\* the prompt is to come.
Tellings ==
    /\ session = "live" /\ InPipe(Telling) => active # NoExec
    /\ active # NoExec /\ DoneTold => stdin = NoExec /\ host.at \in {"prompt", "idle", "dead"}
    /\ lines.done => ~InPipe(Telling)
    /\ DoneIsLast
    /\ host.at = "prompt" /\ host.exec # NoExec => NoPromptYet

\* The atom before one of the pipe, which may be in the collector's line.
Before(i) == IF i > 1 THEN pipe[i - 1]
             ELSE IF lines.line = <<>> THEN Text ELSE lines.line[Len(lines.line)]

OutcomeSaid == InPipe(Outcomes) \/ capture.outcome # "none"

\* An exec's checkpoint has one outcome, told once its cell ended, and a commit is of
\* what the cell left, which the host holds.
OutcomeInv ==
    /\ active # NoExec /\ OutcomeSaid =>
          stdin = NoExec /\ host.at \in {"done", "prompt", "idle", "dead"}
    /\ capture.outcome # "none" => ~InPipe(Outcomes)
    /\ \A i, j \in DOMAIN pipe : IsEnv(pipe[i], Outcomes) /\ IsEnv(pipe[j], Outcomes) => i = j
    /\ capture.outcome # "invalid"
    /\ \A i \in DOMAIN pipe : IsEnv(pipe[i], {"checkpoint"}) /\ session = "live" =>
          /\ pipe[i].env.val = left[active]
          /\ host.at # "dead" => left[active] = host.holds
    /\ capture.outcome = "commit" =>
          /\ capture.commit = left[active]
          /\ host.at # "dead" => left[active] = host.holds
    /\ session = "live" /\ (capture.outcome = "preserved" \/ InPipe({"checkpoint-preserved"})) => kind = "cpp"
    /\ active = NoExec => capture.outcome = "none"

\* An interrupt is for the active exec, or for one it interrupted, and a signal that has
\* not taken effect is for a host that still runs what it is for, or has yet to read
\* the next exec.
IntrInv ==
    /\ capture.status = "interrupted" <=> active # NoExec /\ intr = active
    /\ intr # NoExec /\ intr # active => record[intr].status = "interrupted"
    /\ \A d, e \in Cells : d < e /\ record[e].status # "none" => record[d].status # "none"
    /\ active # NoExec => \A e \in Cells : record[e].status # "none" => e <= active
    /\ host.signalled => intr # NoExec /\ host.at # "dead"
    /\ host.signalled /\ active # NoExec /\ intr # active => stdin # NoExec
    /\ host.at = "prompt" /\ host.exec = NoExec /\ active # NoExec /\ intr # active => stdin # NoExec
    /\ kind = "dotnet" /\ intr # NoExec => host.signalled \/ host.at = "dead"

Interrupted == \E e \in Cells : record[e].status = "interrupted"

\* The committed checkpoint is what the cell it came of left, and no older than that of
\* any exec told to be ok.
CommittedInv ==
    /\ store.by # NoExec => /\ store.holds = left[store.by]
                            /\ record[store.by].status \in {"ok", "error"}
                            /\ ended[store.by] = "done"
    /\ \A e \in Cells : record[e].status = "ok" => store.by >= e

\* What the host holds: the committed checkpoint, or what is the cell's own; Bun's keeps
\* what an interrupted cell wrote, and dotnet-script's that was signalled reads no more.
HoldsInv ==
    /\ Running \/ (active # NoExec /\ DoneTold /\ host.at # "dead") => host.loaded
    /\ host.signalled /\ intr # active => host.loaded
    /\ host.at = "prompt" /\ host.exec = NoExec /\ ~host.loaded =>
          active # NoExec /\ intr = active /\ stdin = NoExec
    /\ host.at \in {"cell", "ending"} /\ host.holds # host.exec =>
          host.holds = store.holds \/ (kind = "bun" /\ Interrupted)
    /\ /\ host.loaded /\ kind \in {"bun", "dotnet"} /\ session = "live" /\ host.at # "dead"
       /\ active = NoExec \/ stdin # NoExec
       => \/ host.holds = store.holds
          \/ kind = "bun" /\ Interrupted
          \/ kind = "dotnet" /\ intr # NoExec /\ intr # active

\* An error the active exec's host wrote is captured, or to be read under the exec's
\* prefix; an exec told to be ok wrote none.
SaidError(e) == \E k \in DOMAIN said[e] : said[e][k].kind = "error"
ErrorInv ==
    /\ \A e \in Cells : record[e].status = "none" => said[e] = <<>>
    /\ active # NoExec /\ SaidError(active) =>
         \/ capture.status # "ok"
         \/ \E i \in DOMAIN pipe : IsEnv(pipe[i], {"error"}) /\ Before(i) = Open(active)
    /\ \A e \in Cells : record[e].status = "ok" => ~SaidError(e)

\* It is said that the exec is done, and after that only `tail` is to be read.
EndsIn(tail) ==
    \/ lines.done /\ lines.line \o pipe = tail
    \/ \E i \in DOMAIN pipe : /\ IsEnv(pipe[i], {"done"}) /\ Before(i) = Open(active)
                              /\ SubSeq(pipe, i + 1, Len(pipe)) = tail
-----------------------------------------------------------------------------
(* Folds over what is read.                                                *)


LEMMA RestTyped ==
  ASSUME NEW S, NEW s \in Seq(S), NEW n \in 1..Len(s)
  PROVE  SubSeq(s, n + 1, Len(s)) \in Seq(S)
OBVIOUS

\* What holds of 0 and of each number's successor holds up to n.
LEMMA UpTo ==
  ASSUME NEW n \in Nat, NEW S, 0 \in S, \A i \in 0..(n - 1) : i \in S => i + 1 \in S
  PROVE  \A i \in 0..n : i \in S
<1> DEFINE B == {i \in 0..n : i \notin S}
<1> SUFFICES ASSUME B # {} PROVE FALSE
  OBVIOUS
<1>0. B \subseteq Nat
  OBVIOUS
<1> HIDE DEF B
<1>1. PICK m \in B : \A j \in B : ~(<<j, m>> \in OpToRel(<, Nat))
  BY <1>0, NatLessThanWellFounded, WFMin
<1>2. \A j \in B : ~(j < m)
  BY <1>0, <1>1 DEF OpToRel
<1> USE DEF B
<1>3. m \in 0..n /\ m \notin S
  OBVIOUS
<1>4. m - 1 \in 0..(n - 1) /\ m - 1 < m /\ (m - 1) + 1 = m
  BY <1>3
<1>5. m - 1 \in S
  BY <1>2, <1>4
<1> QED BY <1>3, <1>4, <1>5

\* A set of numbers up to n has a greatest.
LEMMA GreatestIs ==
  ASSUME NEW n \in Nat, NEW S \in SUBSET (1..n), S # {}
  PROVE  Max(S) \in S /\ \A y \in S : y =< Max(S)
<1> DEFINE T == {k \in Nat : \E x \in S : k = n - x}
<1>1. T \subseteq Nat /\ T # {}
  <2>1. PICK x \in S : TRUE
    OBVIOUS
  <2>2. n - x \in Nat
    BY <2>1
  <2> QED BY <2>2
<1> HIDE DEF T
<1>2. PICK k \in T : \A j \in T : ~(<<j, k>> \in OpToRel(<, Nat))
  BY <1>1, NatLessThanWellFounded, WFMin
<1>3. \A j \in T : k =< j
  <2> TAKE j \in T
  <2>1. j \in Nat /\ k \in Nat
    BY <1>1
  <2>2. ~(j < k)
    BY <1>2, <2>1 DEF OpToRel
  <2> QED BY <2>1, <2>2
<1> USE DEF T
<1>4. PICK x \in S : k = n - x
  BY <1>2
<1>5. \A y \in S : y =< x
  <2> TAKE y \in S
  <2>1. n - y \in T
    OBVIOUS
  <2> QED BY <1>3, <1>4, <2>1
<1> QED BY <1>5 DEF Max

LEMMA GreatestUpTo ==
  ASSUME NEW n \in Nat \ {0}
  PROVE  Max(1..n) = n /\ (1..n) \ {n} = 1..(n - 1)
<1>1. 1..n # {} /\ 1..n \in SUBSET (1..n)
  OBVIOUS
<1>2. Max(1..n) \in 1..n /\ \A y \in 1..n : y =< Max(1..n)
  BY <1>1, GreatestIs
<1>3. Max(1..n) = n
  BY <1>2
<1> QED BY <1>3

\* The collector's fold over a chunk goes atom by atom.
LEMMA AtomsFold ==
  ASSUME NEW n \in Nat, NEW chunk, DOMAIN chunk = 1..n, NEW base
  PROVE  \E g : /\ DOMAIN g = 0..n /\ g[0] = base
                /\ \A i \in 1..n : g[i] = AtomConsumed(g[i - 1], chunk[i])
                /\ g[n] = AtomsConsumed(base, chunk)
<1> DEFINE Step(it, s) == IF s = {} THEN base ELSE AtomConsumed(it[s \ {Max(s)}], chunk[Max(s)])
           Good(k) == \E it : it = [s \in SUBSET (1..k) |-> Step(it, s)]
           S == {k \in 0..n : Good(k)}
<1>1. 0 \in S
  <2>1. [s \in SUBSET (1..0) |-> base] = [s \in SUBSET (1..0) |-> Step([t \in SUBSET (1..0) |-> base], s)]
    <3>1. 1..0 = {}
      OBVIOUS
    <3> QED BY <3>1
  <2> QED BY <2>1
<1>2. \A k \in 0..(n - 1) : k \in S => k + 1 \in S
  <2> TAKE k \in 0..(n - 1)
  <2> HAVE k \in S
  <2>1. PICK it : it = [s \in SUBSET (1..k) |-> Step(it, s)]
    OBVIOUS
  <2> DEFINE it2 == [s \in SUBSET (1..(k + 1)) |-> Step(it, s)]
  <2>2. \A s \in SUBSET (1..k) : it2[s] = it[s]
    <3>1. \A s \in SUBSET (1..k) : s \in SUBSET (1..(k + 1))
      OBVIOUS
    <3>2. \A s \in SUBSET (1..k) : it[s] = Step(it, s)
      BY <2>1
    <3> HIDE DEF Step
    <3>3. \A s \in SUBSET (1..k) : it2[s] = Step(it, s)
      BY <3>1
    <3> QED BY <3>2, <3>3
  <2>3. \A s \in SUBSET (1..(k + 1)) : s # {} => s \ {Max(s)} \in SUBSET (1..k)
    <3> TAKE s \in SUBSET (1..(k + 1))
    <3> HAVE s # {}
    <3>0. k + 1 \in Nat
      OBVIOUS
    <3> DEFINE m == Max(s)
    <3> HIDE DEF it2, Good, S, Step, m
    <3>1. m \in s /\ \A y \in s : y =< m
      BY <3>0, GreatestIs DEF m
    <3>2. \A y \in s : y # m => y \in 1..k
      BY <3>1
    <3> QED BY <3>2 DEF m
  <2>4. \A s \in SUBSET (1..(k + 1)) : Step(it2, s) = Step(it, s)
    <3> TAKE s \in SUBSET (1..(k + 1))
    <3>1. CASE s = {}
      BY <3>1
    <3>2. CASE s # {}
      <4>1. it2[s \ {Max(s)}] = it[s \ {Max(s)}]
        BY <2>2, <2>3, <3>2
      <4> HIDE DEF it2
      <4> QED BY <4>1
    <3> QED BY <3>1, <3>2
  <2>5. it2 = [s \in SUBSET (1..(k + 1)) |-> Step(it2, s)]
    <3>1. \A s \in SUBSET (1..(k + 1)) : it2[s] = Step(it2, s)
      BY <2>4
    <3>2. it2 = [s \in SUBSET (1..(k + 1)) |-> it2[s]]
      OBVIOUS
    <3> HIDE DEF it2, Step
    <3> QED BY <3>1, <3>2
  <2>6. k + 1 \in 0..n
    OBVIOUS
  <2> HIDE DEF it2, Step
  <2> QED BY <2>5, <2>6
<1>3. n \in S
  <2> HIDE DEF S
  <2>1. \A i \in 0..n : i \in S
    BY <1>1, <1>2, UpTo
  <2> QED BY <2>1
<1> DEFINE iter == CHOOSE it : it = [s \in SUBSET (1..n) |-> Step(it, s)]
<1>4. iter = [s \in SUBSET (1..n) |-> Step(iter, s)]
  <2>1. Good(n)
    BY <1>3
  <2> HIDE DEF Step
  <2> QED BY <2>1
<1>5. AtomsConsumed(base, chunk) = iter[1..n]
  BY Zenon DEF AtomsConsumed, FoldLeft, MapThenFoldSet
<1> HIDE DEF iter
<1> DEFINE g == [i \in 0..n |-> iter[1..i]]
<1>6. g[0] = base
  <2>1. 1..0 = {} /\ {} \in SUBSET (1..n) /\ g[0] = iter[1..0]
    OBVIOUS
  <2>2. iter[{}] = Step(iter, {})
    BY <1>4, <2>1
  <2> QED BY <2>1, <2>2
<1>7. \A i \in 1..n : g[i] = AtomConsumed(g[i - 1], chunk[i])
  <2> TAKE i \in 1..n
  <2>1. Max(1..i) = i /\ (1..i) \ {i} = 1..(i - 1) /\ 1..i # {} /\ 1..i \in SUBSET (1..n)
    BY GreatestUpTo
  <2>2. iter[1..i] = Step(iter, 1..i)
    BY <1>4, <2>1
  <2>3. g[i] = iter[1..i] /\ g[i - 1] = iter[1..(i - 1)]
    OBVIOUS
  <2> HIDE DEF g
  <2> QED BY <2>1, <2>2, <2>3
<1>8. DOMAIN g = 0..n /\ g[n] = iter[1..n]
  OBVIOUS
<1> HIDE DEF g
<1> QED BY <1>5, <1>6, <1>7, <1>8
\* The capture's fold over what was found goes envelope by envelope.
LEMMA EnvsFold ==
  ASSUME NEW n \in Nat, NEW chunk, DOMAIN chunk = 1..n, NEW base
  PROVE  \E g : /\ DOMAIN g = 0..n /\ g[0] = base
                /\ \A i \in 1..n : g[i] = Consumed(g[i - 1], chunk[i])
                /\ g[n] = AllConsumed(base, chunk)
<1> DEFINE Step(it, s) == IF s = {} THEN base ELSE Consumed(it[s \ {Max(s)}], chunk[Max(s)])
           Good(k) == \E it : it = [s \in SUBSET (1..k) |-> Step(it, s)]
           S == {k \in 0..n : Good(k)}
<1>1. 0 \in S
  <2>1. [s \in SUBSET (1..0) |-> base] = [s \in SUBSET (1..0) |-> Step([t \in SUBSET (1..0) |-> base], s)]
    <3>1. 1..0 = {}
      OBVIOUS
    <3> QED BY <3>1
  <2> QED BY <2>1
<1>2. \A k \in 0..(n - 1) : k \in S => k + 1 \in S
  <2> TAKE k \in 0..(n - 1)
  <2> HAVE k \in S
  <2>1. PICK it : it = [s \in SUBSET (1..k) |-> Step(it, s)]
    OBVIOUS
  <2> DEFINE it2 == [s \in SUBSET (1..(k + 1)) |-> Step(it, s)]
  <2>2. \A s \in SUBSET (1..k) : it2[s] = it[s]
    <3>1. \A s \in SUBSET (1..k) : s \in SUBSET (1..(k + 1))
      OBVIOUS
    <3>2. \A s \in SUBSET (1..k) : it[s] = Step(it, s)
      BY <2>1
    <3> HIDE DEF Step
    <3>3. \A s \in SUBSET (1..k) : it2[s] = Step(it, s)
      BY <3>1
    <3> QED BY <3>2, <3>3
  <2>3. \A s \in SUBSET (1..(k + 1)) : s # {} => s \ {Max(s)} \in SUBSET (1..k)
    <3> TAKE s \in SUBSET (1..(k + 1))
    <3> HAVE s # {}
    <3>0. k + 1 \in Nat
      OBVIOUS
    <3> DEFINE m == Max(s)
    <3> HIDE DEF it2, Good, S, Step, m
    <3>1. m \in s /\ \A y \in s : y =< m
      BY <3>0, GreatestIs DEF m
    <3>2. \A y \in s : y # m => y \in 1..k
      BY <3>1
    <3> QED BY <3>2 DEF m
  <2>4. \A s \in SUBSET (1..(k + 1)) : Step(it2, s) = Step(it, s)
    <3> TAKE s \in SUBSET (1..(k + 1))
    <3>1. CASE s = {}
      BY <3>1
    <3>2. CASE s # {}
      <4>1. it2[s \ {Max(s)}] = it[s \ {Max(s)}]
        BY <2>2, <2>3, <3>2
      <4> HIDE DEF it2
      <4> QED BY <4>1
    <3> QED BY <3>1, <3>2
  <2>5. it2 = [s \in SUBSET (1..(k + 1)) |-> Step(it2, s)]
    <3>1. \A s \in SUBSET (1..(k + 1)) : it2[s] = Step(it2, s)
      BY <2>4
    <3>2. it2 = [s \in SUBSET (1..(k + 1)) |-> it2[s]]
      OBVIOUS
    <3> HIDE DEF it2, Step
    <3> QED BY <3>1, <3>2
  <2>6. k + 1 \in 0..n
    OBVIOUS
  <2> HIDE DEF it2, Step
  <2> QED BY <2>5, <2>6
<1>3. n \in S
  <2> HIDE DEF S
  <2>1. \A i \in 0..n : i \in S
    BY <1>1, <1>2, UpTo
  <2> QED BY <2>1
<1> DEFINE iter == CHOOSE it : it = [s \in SUBSET (1..n) |-> Step(it, s)]
<1>4. iter = [s \in SUBSET (1..n) |-> Step(iter, s)]
  <2>1. Good(n)
    BY <1>3
  <2> HIDE DEF Step
  <2> QED BY <2>1
<1>5. AllConsumed(base, chunk) = iter[1..n]
  BY Zenon DEF AllConsumed, FoldLeft, MapThenFoldSet
<1> HIDE DEF iter
<1> DEFINE g == [i \in 0..n |-> iter[1..i]]
<1>6. g[0] = base
  <2>1. 1..0 = {} /\ {} \in SUBSET (1..n) /\ g[0] = iter[1..0]
    OBVIOUS
  <2>2. iter[{}] = Step(iter, {})
    BY <1>4, <2>1
  <2> QED BY <2>1, <2>2
<1>7. \A i \in 1..n : g[i] = Consumed(g[i - 1], chunk[i])
  <2> TAKE i \in 1..n
  <2>1. Max(1..i) = i /\ (1..i) \ {i} = 1..(i - 1) /\ 1..i # {} /\ 1..i \in SUBSET (1..n)
    BY GreatestUpTo
  <2>2. iter[1..i] = Step(iter, 1..i)
    BY <1>4, <2>1
  <2>3. g[i] = iter[1..i] /\ g[i - 1] = iter[1..(i - 1)]
    OBVIOUS
  <2> HIDE DEF g
  <2> QED BY <2>1, <2>2, <2>3
<1>8. DOMAIN g = 0..n /\ g[n] = iter[1..n]
  OBVIOUS
<1> HIDE DEF g
<1> QED BY <1>5, <1>6, <1>7, <1>8

-----------------------------------------------------------------------------
(* The collector.                                                          *)

LEMMA AtomKinds ==
  ASSUME NEW x \in Atoms
  PROVE  /\ x.a \in {"open", "close", "prompt", "text", "end"}
         /\ x.a = "close" => x.env \in Envs /\ x = Closing(x.env)
         /\ x.a = "open" => \E e \in Cells : x = Open(e)
         /\ x.a = "prompt" <=> x = Prompt
         /\ x.a = "end" <=> x = LineEnd
BY DEF Atoms, Prompt, Text, LineEnd, Open, Closing

\* What a line says: nothing, or what its last atom holds.
LEMMA LineSays ==
  ASSUME NEW l \in Seq(Atoms), NEW x \in Atoms
  PROVE  LET line == Append(l, x) IN
         /\ EnvelopeIn(line) = <<>> \/ (x.a = "close" /\ EnvelopeIn(line) = <<x.env>>)
         /\ /\ x.a = "close" /\ l # <<>> /\ l[Len(l)] = Open(active)
            /\ \A k \in DOMAIN l : l[k].a = "open" => k = Len(l)
            => EnvelopeIn(line) = <<x.env>>
<1> DEFINE line == Append(l, x)
           opens == {i \in DOMAIN line : line[i] = Open(active)}
           first == CHOOSE i \in opens : \A j \in opens : i <= j
<1>1. line \in Seq(Atoms) /\ Len(line) = Len(l) + 1 /\ line[Len(line)] = x
      /\ \A k \in DOMAIN l : line[k] = l[k]
  OBVIOUS
<1> HIDE DEF line
<1>2. EnvelopeIn(line) = <<>> \/ (x.a = "close" /\ EnvelopeIn(line) = <<x.env>>)
  BY <1>1 DEF EnvelopeIn
<1>3. ASSUME x.a = "close", l # <<>>, l[Len(l)] = Open(active),
             \A k \in DOMAIN l : l[k].a = "open" => k = Len(l)
      PROVE  EnvelopeIn(line) = <<x.env>>
  <2>1. Open(active).a = "open"
    BY DEF Open
  <2>2. \A i \in opens : i = Len(l)
    <3> TAKE i \in opens
    <3>1. i \in 1..Len(line) /\ line[i] = Open(active)
      BY <1>1
    <3>2. i # Len(line)
      BY <1>1, <1>3, <2>1, <3>1
    <3>3. i \in DOMAIN l /\ l[i] = Open(active)
      BY <1>1, <3>1, <3>2
    <3> QED BY <1>3, <2>1, <3>3
  <2>3. Len(l) \in opens
    BY <1>1, <1>3
  <2>4. opens = {Len(l)}
    BY <2>2, <2>3
  <2>5. first = Len(l)
    BY <2>4
  <2>6. Len(l) \in Nat
    OBVIOUS
  <2>7. opens # {} /\ first + 1 = Len(line) /\ line[Len(line)].a = "close"
    BY <1>1, <1>3, <2>3, <2>5
  <2> QED BY <1>1, <2>7 DEF EnvelopeIn
<1> QED BY <1>2, <1>3 DEF line

\* What an atom does to the collector.
Eats(c, x, d) ==
    /\ x.a \notin {"close", "end"} =>
         /\ d.line = Append(c.line, x) /\ d.done = c.done /\ d.prompted = c.prompted
         /\ d.found = c.found
    /\ x.a \in {"close", "end"} => d.line = <<>>
    /\ d.done => c.done \/ IsEnv(x, {"done"})
    /\ c.done => d.done
    /\ c.prompted => d.prompted
    /\ d.prompted => c.prompted \/ (c.done /\ d.done /\ \E k \in DOMAIN c.line : c.line[k] = Prompt)
    /\ d.found = c.found \/ (x.a = "close" /\ x.env.kind # "done" /\ d.found = Append(c.found, x.env))
    /\ /\ x.a = "close" /\ c.line # <<>> /\ c.line[Len(c.line)] = Open(active)
       /\ \A k \in DOMAIN c.line : c.line[k].a = "open" => k = Len(c.line)
       => IF x.env.kind = "done" THEN d.done ELSE d.found = Append(c.found, x.env)

LEMMA AtomIs ==
  ASSUME NEW c \in LinesType, NEW x \in Atoms
  PROVE  AtomConsumed(c, x) \in LinesType /\ Eats(c, x, AtomConsumed(c, x))
<1> DEFINE with == [c EXCEPT !.line = Append(@, x)]
           d == AtomConsumed(c, x)
           env == EnvelopeIn(with.line)
           tells == env # <<>> /\ env[1].kind = "done"
<1>0. c.line \in Seq(Atoms) /\ c.done \in BOOLEAN /\ c.prompted \in BOOLEAN /\ c.found \in Seq(Envs)
  BY DEF LinesType
<1>1. /\ with.line = Append(c.line, x) /\ with.done = c.done /\ with.prompted = c.prompted
      /\ with.found = c.found /\ with \in LinesType /\ with.line \in Seq(Atoms)
  BY <1>0, SMTT(20) DEF LinesType
<1>2. x.a \in {"open", "close", "prompt", "text", "end"} /\ (x.a = "close" => x.env \in Envs)
  BY AtomKinds
<1>3. CASE x.a \notin {"close", "end"}
  <2>1. d = with
    BY <1>3 DEF AtomConsumed
  <2>2. /\ d.line = Append(c.line, x) /\ d.done = c.done /\ d.prompted = c.prompted
        /\ d.found = c.found /\ d \in LinesType
    BY <1>1, <2>1
  <2> HIDE DEF d, with
  <2>3. x.a # "close" /\ x.a \notin {"close", "end"}
    BY <1>3
  <2> QED BY <2>2, <2>3 DEF d, Eats
<1>4. CASE x.a \in {"close", "end"}
  <2>1. d = LineConsumed(with)
    BY <1>4 DEF AtomConsumed
  <2>2. /\ env = <<>> \/ (x.a = "close" /\ env = <<x.env>>)
        /\ /\ x.a = "close" /\ c.line # <<>> /\ c.line[Len(c.line)] = Open(active)
           /\ \A k \in DOMAIN c.line : c.line[k].a = "open" => k = Len(c.line)
           => env = <<x.env>>
    BY <1>0, <1>1, LineSays
  <2> HIDE DEF with, env
  <2>3. /\ d.line = <<>> /\ d.done = (c.done \/ tells)
        /\ d.prompted = (c.prompted \/ ((c.done \/ tells) /\ with.line = <<Prompt, LineEnd>>))
        /\ d.found = c.found \o (IF tells THEN <<>> ELSE env)
        /\ d = [line |-> d.line, done |-> d.done, prompted |-> d.prompted, found |-> d.found]
    <3> HIDE DEF tells
    <3>1. LineConsumed(with) =
            [line |-> <<>>, done |-> with.done \/ tells,
             prompted |-> with.prompted \/ ((with.done \/ tells) /\ with.line = <<Prompt, LineEnd>>),
             found |-> with.found \o IF tells THEN <<>> ELSE env]
      BY DEF LineConsumed, env, tells
    <3>2. d = [line |-> <<>>, done |-> with.done \/ tells,
               prompted |-> with.prompted \/ ((with.done \/ tells) /\ with.line = <<Prompt, LineEnd>>),
               found |-> with.found \o IF tells THEN <<>> ELSE env]
      BY <2>1, <3>1
    <3> HIDE DEF d
    <3> QED BY <1>1, <3>2
  <2> HIDE DEF d
  <2>4. tells \in BOOLEAN /\ (tells => x.a = "close" /\ x.env.kind = "done")
    BY <2>2
  <2>5. ~tells /\ env # <<>> => x.a = "close" /\ x.env.kind # "done" /\ env = <<x.env>>
    BY <2>2
  <2>6. d.found = c.found \/ (x.a = "close" /\ x.env.kind # "done" /\ d.found = Append(c.found, x.env))
    <3>1. CASE tells \/ env = <<>>
      <4>1. (IF tells THEN <<>> ELSE env) = <<>>
        BY <3>1
      <4>2. c.found \o <<>> = c.found
        BY <1>0
      <4> QED BY <2>3, <4>1, <4>2
    <3>2. CASE ~tells /\ env # <<>>
      <4>1. c.found \o <<x.env>> = Append(c.found, x.env)
        BY <1>0, <1>2, <2>5, <3>2
      <4> QED BY <2>3, <2>5, <3>2, <4>1
    <3> QED BY <3>1, <3>2
  <2>7. d.found \in Seq(Envs)
    BY <1>0, <1>2, <2>6, SMTT(20)
  <2>8. with.line = <<Prompt, LineEnd>> => x = LineEnd /\ 1 \in DOMAIN c.line /\ c.line[1] = Prompt
    <3> DEFINE l == Append(c.line, x)
    <3>1. /\ Len(l) = Len(c.line) + 1 /\ Len(c.line) \in Nat /\ l[Len(c.line) + 1] = x
          /\ \A k \in 1..Len(c.line) : l[k] = c.line[k] /\ k \in DOMAIN c.line
      BY <1>0
    <3> HIDE DEF l
    <3>2. ASSUME l = <<Prompt, LineEnd>>
          PROVE  x = LineEnd /\ 1 \in DOMAIN c.line /\ c.line[1] = Prompt
      <4>1. Len(l) = 2 /\ l[1] = Prompt /\ l[2] = LineEnd
        BY <3>2
      <4>3. \A m \in Nat : m + 1 = 2 => m = 1
        OBVIOUS
      <4>4. Len(c.line) \in Nat /\ Len(c.line) + 1 = 2
        BY <3>1, <4>1
      <4>2. Len(c.line) = 1
        BY <4>3, <4>4
      <4> QED BY <3>1, <4>1, <4>2
    <3> QED BY <1>1, <3>2 DEF l
  <2>9. d.prompted => c.prompted \/ (c.done /\ d.done /\ \E k \in DOMAIN c.line : c.line[k] = Prompt)
    <3>1. x = LineEnd => x.a # "close"
      BY DEF LineEnd
    <3> QED BY <2>3, <2>4, <2>8, <3>1
  <2>10. <<>> \in Seq(Atoms)
    OBVIOUS
  <2>11. d \in LinesType
    BY <1>0, <2>3, <2>4, <2>7, <2>10 DEF LinesType
  <2>12. ASSUME x.a = "close", c.line # <<>>, c.line[Len(c.line)] = Open(active),
                \A k \in DOMAIN c.line : c.line[k].a = "open" => k = Len(c.line)
         PROVE  IF x.env.kind = "done" THEN d.done ELSE d.found = Append(c.found, x.env)
    <3>1. env = <<x.env>> /\ env[1] = x.env /\ env # <<>>
      BY <2>2, <2>12
    <3>2. CASE x.env.kind = "done"
      BY <2>3, <3>1, <3>2
    <3>3. CASE x.env.kind # "done"
      <4>1. c.found \o <<x.env>> = Append(c.found, x.env)
        BY <1>0, <1>2, <2>12
      <4> QED BY <2>3, <3>1, <3>3, <4>1
    <3> QED BY <3>2, <3>3
  <2>13. /\ d.done => c.done \/ IsEnv(x, {"done"})
         /\ c.done => d.done
         /\ c.prompted => d.prompted
         /\ d.line = <<>>
    BY <2>3, <2>4 DEF IsEnv
  <2> HIDE DEF tells
  <2> QED BY <1>4, <2>6, <2>9, <2>11, <2>12, <2>13 DEF d, Eats
<1> QED BY <1>3, <1>4

\* What is kept of a line is its end.
LEMMA LastOfIs ==
  ASSUME NEW T, NEW s \in Seq(T), NEW n \in Nat \ {0, 1}
  PROVE  LET t == LastOf(n, s) IN
         /\ t \in Seq(T)
         /\ s # <<>> => t # <<>> /\ t[Len(t)] = s[Len(s)]
         /\ s = <<>> => t = <<>>
         /\ Len(s) <= 1 => t = s
         /\ \A k \in DOMAIN t : \E j \in DOMAIN s : t[k] = s[j] /\ (k = Len(t) <=> j = Len(s))
<1>1. CASE Len(s) <= n
  <2>1. LastOf(n, s) = s
    BY <1>1 DEF LastOf
  <2> QED BY <2>1
<1>2. CASE ~(Len(s) <= n)
  <2> DEFINE t == SubSeq(s, Len(s) - n + 1, Len(s))
             m == Len(s) - n
  <2>1. LastOf(n, s) = t
    BY <1>2 DEF LastOf
  <2>2. Len(s) \in Nat /\ m \in Nat /\ m >= 1 /\ Len(s) > n
    BY <1>2
  <2>3. t \in Seq(T) /\ Len(t) = n /\ DOMAIN t = 1..n
    BY <2>2
  <2>4. \A k \in 1..n : t[k] = s[k + m] /\ k + m \in DOMAIN s
    BY <2>2
  <2>5. \A k \in 1..n : k = n <=> k + m = Len(s)
    BY <2>2
  <2>6. n \in 1..n /\ n + m = Len(s)
    BY <2>2
  <2> HIDE DEF t, m
  <2>7. t # <<>> /\ s # <<>> /\ ~(Len(s) <= 1)
    BY <2>2, <2>3
  <2> QED BY <2>1, <2>3, <2>4, <2>5, <2>6, <2>7
<1> QED BY <1>1, <1>2

\* A chunk's atoms are consumed one after the other.
LEMMA CollectorRuns ==
  ASSUME pipe \in Seq(Atoms), lines \in LinesType, NEW n \in 1..Len(pipe)
  PROVE  \E g : /\ g[0] = [lines EXCEPT !.found = <<>>]
                /\ \A i \in 0..n : g[i] \in LinesType
                /\ \A i \in 1..n : pipe[i] \in Atoms /\ Eats(g[i - 1], pipe[i], g[i])
                /\ Pushed(SubSeq(pipe, 1, n)) = [g[n] EXCEPT !.line = LastOf(MaxTail, @)]
<1> DEFINE chunk == SubSeq(pipe, 1, n)
           base == [lines EXCEPT !.found = <<>>]
<1>1. n \in Nat /\ DOMAIN chunk = 1..n /\ \A i \in 1..n : chunk[i] = pipe[i] /\ pipe[i] \in Atoms
  OBVIOUS
<1>2. base \in LinesType
  <2>1. <<>> \in Seq(Envs)
    OBVIOUS
  <2> QED BY <2>1 DEF LinesType
<1> HIDE DEF chunk, base
<1>3. PICK g : /\ DOMAIN g = 0..n /\ g[0] = base
               /\ \A i \in 1..n : g[i] = AtomConsumed(g[i - 1], chunk[i])
               /\ g[n] = AtomsConsumed(base, chunk)
  <2>1. n \in Nat /\ DOMAIN chunk = 1..n
    BY <1>1
  <2> QED BY <2>1, AtomsFold, ZenonT(40)
<1> DEFINE S == {i \in 0..n : g[i] \in LinesType}
<1>4. 0 \in S
  BY <1>1, <1>2, <1>3
<1>5. \A i \in 0..(n - 1) : i \in S => i + 1 \in S
  <2> TAKE i \in 0..(n - 1)
  <2> HAVE i \in S
  <2>1. i + 1 \in 1..n /\ i + 1 \in 0..n /\ (i + 1) - 1 = i
    BY <1>1
  <2>2. g[i + 1] = AtomConsumed(g[i], pipe[i + 1]) /\ pipe[i + 1] \in Atoms
    BY <1>1, <1>3, <2>1
  <2>3. g[i + 1] \in LinesType
    BY <2>2, AtomIs
  <2> QED BY <2>1, <2>3
<1>6. \A i \in 0..n : g[i] \in LinesType
  <2> HIDE DEF S
  <2>1. \A i \in 0..n : i \in S
    BY <1>1, <1>4, <1>5, UpTo
  <2> QED BY <2>1 DEF S
<1>7. \A i \in 1..n : Eats(g[i - 1], pipe[i], g[i])
  <2> TAKE i \in 1..n
  <2>1. i - 1 \in 0..n
    BY <1>1
  <2>2. g[i] = AtomConsumed(g[i - 1], pipe[i]) /\ g[i - 1] \in LinesType /\ pipe[i] \in Atoms
    BY <1>1, <1>3, <1>6, <2>1
  <2> QED BY <2>2, AtomIs
<1>8. Pushed(chunk) = [g[n] EXCEPT !.line = LastOf(MaxTail, @)]
  BY <1>3 DEF Pushed, base
<1> QED BY <1>1, <1>3, <1>6, <1>7, <1>8 DEF base, chunk

\* What a chunk leaves in the collector: its types, and that it is done, and has seen
\* the prompt after that, only where the pipe held that.
SeenPrompt(n) ==
    \/ lines.prompted
    \/ lines.done /\ \/ \E k \in DOMAIN lines.line : lines.line[k] = Prompt
                     \/ \E k \in 1..n : pipe[k] = Prompt
    \/ \E k, m \in 1..n : k < m /\ IsEnv(pipe[k], {"done"}) /\ pipe[m] = Prompt

LEMMA PushedIs ==
  ASSUME ProtocolAssumption, pipe \in Seq(Atoms), lines \in LinesType, NEW n \in 1..Len(pipe)
  PROVE  LET p == Pushed(SubSeq(pipe, 1, n)) IN
         /\ p \in LinesType
         /\ p.done => lines.done \/ \E k \in 1..n : IsEnv(pipe[k], {"done"})
         /\ lines.done => p.done
         /\ p.prompted \/ (p.done /\ \E k \in DOMAIN p.line : p.line[k] = Prompt) => SeenPrompt(n)
         /\ p.prompted => lines.prompted \/ p.done
<1>1. PICK g : /\ g[0] = [lines EXCEPT !.found = <<>>]
               /\ \A i \in 0..n : g[i] \in LinesType
               /\ \A i \in 1..n : pipe[i] \in Atoms /\ Eats(g[i - 1], pipe[i], g[i])
               /\ Pushed(SubSeq(pipe, 1, n)) = [g[n] EXCEPT !.line = LastOf(MaxTail, @)]
  BY CollectorRuns
<1> DEFINE HeldFor(i) ==
             /\ g[i].done => lines.done \/ \E k \in 1..i : IsEnv(pipe[k], {"done"})
             /\ lines.done => g[i].done
             /\ g[i].prompted \/ (g[i].done /\ \E k \in DOMAIN g[i].line : g[i].line[k] = Prompt)
                  => SeenPrompt(i)
             /\ g[i].prompted => lines.prompted \/ g[i].done
           S == {i \in 0..n : HeldFor(i)}
<1>0. n \in Nat
  OBVIOUS
<1>2. 0 \in S
  <2>1. g[0].done = lines.done /\ g[0].prompted = lines.prompted /\ g[0].line = lines.line
    BY <1>1 DEF LinesType
  <2>2. HeldFor(0)
    BY <2>1 DEF SeenPrompt
  <2> QED BY <1>0, <2>2
<1>3. \A i \in 0..(n - 1) : i \in S => i + 1 \in S
  <2> TAKE i \in 0..(n - 1)
  <2> HAVE i \in S
  <2>0. i \in Nat /\ i + 1 \in 1..n /\ i + 1 \in 0..n /\ (i + 1) - 1 = i /\ i \in 0..n
    BY <1>0
  <2> DEFINE c == g[i]
             d == g[i + 1]
             x == pipe[i + 1]
  <2>1. c \in LinesType /\ d \in LinesType /\ x \in Atoms /\ Eats(c, x, d)
    BY <1>1, <2>0
  <2>2. HeldFor(i)
    OBVIOUS
  <2>3. \A k \in 1..i : k \in 1..(i + 1) /\ k < i + 1
    BY <2>0
  <2>4. i + 1 \in 1..(i + 1)
    BY <2>0
  <2>5. SeenPrompt(i) => SeenPrompt(i + 1)
    BY <2>3 DEF SeenPrompt
  <2>6. c.done /\ x = Prompt => SeenPrompt(i + 1)
    <3> SUFFICES ASSUME c.done, x = Prompt PROVE SeenPrompt(i + 1)
      OBVIOUS
    <3>1. lines.done \/ \E k \in 1..i : IsEnv(pipe[k], {"done"})
      BY <2>2
    <3> QED BY <2>3, <2>4, <3>1 DEF SeenPrompt
  <2>7. c.line \in Seq(Atoms)
    BY <2>1 DEF LinesType
  <2>8. CASE x.a \notin {"close", "end"}
    <3>1. d.line = Append(c.line, x) /\ d.done = c.done /\ d.prompted = c.prompted
      BY <2>1, <2>8 DEF Eats
    <3>2. \A k \in DOMAIN d.line : d.line[k] = x \/ \E m \in DOMAIN c.line : d.line[k] = c.line[m]
      <4>1. \A k \in DOMAIN Append(c.line, x) :
              Append(c.line, x)[k] = x \/ \E m \in DOMAIN c.line : Append(c.line, x)[k] = c.line[m]
        BY <2>7
      <4> QED BY <3>1, <4>1
    <3> HIDE DEF c, d, x
    <3>3. HeldFor(i + 1)
      <4>1. d.done => lines.done \/ \E k \in 1..(i + 1) : IsEnv(pipe[k], {"done"})
        BY <2>2, <2>3, <3>1 DEF c
      <4>2. d.prompted \/ (d.done /\ \E k \in DOMAIN d.line : d.line[k] = Prompt) => SeenPrompt(i + 1)
        BY <2>2, <2>5, <2>6, <3>1, <3>2 DEF c
      <4> QED BY <2>2, <3>1, <4>1, <4>2 DEF c, d
    <3> QED BY <2>0, <3>3
  <2>9. CASE x.a \in {"close", "end"}
    <3>1. /\ d.line = <<>> /\ (d.done => c.done \/ IsEnv(x, {"done"})) /\ (c.done => d.done)
          /\ d.prompted => c.prompted \/ (c.done /\ d.done /\ \E k \in DOMAIN c.line : c.line[k] = Prompt)
      BY <2>1, <2>9 DEF Eats
    <3>2. d.line \in Seq(Atoms) /\ ~(\E k \in DOMAIN d.line : d.line[k] = Prompt)
      BY <3>1
    <3> HIDE DEF c, d
    <3>3. HeldFor(i + 1)
      <4>1. d.done => lines.done \/ \E k \in 1..(i + 1) : IsEnv(pipe[k], {"done"})
        BY <2>2, <2>3, <2>4, <3>1 DEF c
      <4>2. d.prompted \/ (d.done /\ \E k \in DOMAIN d.line : d.line[k] = Prompt) => SeenPrompt(i + 1)
        BY <2>2, <2>5, <3>1, <3>2 DEF c
      <4>3. d.prompted => lines.prompted \/ d.done
        BY <2>2, <3>1 DEF c
      <4> QED BY <2>2, <3>1, <4>1, <4>2, <4>3 DEF c, d
    <3> QED BY <2>0, <3>3
  <2> QED BY <2>8, <2>9
<1>4. HeldFor(n)
  <2> HIDE DEF S
  <2>1. \A i \in 0..n : i \in S
    BY <1>0, <1>2, <1>3, UpTo
  <2>2. n \in 0..n
    BY <1>0
  <2> QED BY <2>1, <2>2 DEF S
<1> DEFINE p == Pushed(SubSeq(pipe, 1, n))
<1>5. g[n] \in LinesType
  BY <1>0, <1>1
<1>6. g[n].line \in Seq(Atoms) /\ MaxTail \in Nat \ {0, 1}
  BY <1>5, ProtocolAssumption DEF LinesType
<1>7. /\ LastOf(MaxTail, g[n].line) \in Seq(Atoms)
      /\ \A k \in DOMAIN LastOf(MaxTail, g[n].line) : \E j \in DOMAIN g[n].line :
           LastOf(MaxTail, g[n].line)[k] = g[n].line[j]
  BY <1>6, LastOfIs
<1>8. /\ p.line = LastOf(MaxTail, g[n].line) /\ p.done = g[n].done /\ p.prompted = g[n].prompted
      /\ p \in LinesType
  BY <1>1, <1>5, <1>7 DEF LinesType
<1> HIDE DEF p
<1>9. p.prompted \/ (p.done /\ \E k \in DOMAIN p.line : p.line[k] = Prompt) => SeenPrompt(n)
  BY <1>4, <1>7, <1>8
<1> QED BY <1>4, <1>8, <1>9 DEF p

\* What a chunk finds is of its envelopes, one outcome of one.
LEMMA FoundIs ==
  ASSUME ProtocolAssumption, pipe \in Seq(Atoms), lines \in LinesType, NEW n \in 1..Len(pipe)
  PROVE  LET p == Pushed(SubSeq(pipe, 1, n)) IN
         /\ p.found \in Seq(Envs)
         /\ \A q \in DOMAIN p.found : \E k \in 1..n :
              pipe[k].a = "close" /\ p.found[q] = pipe[k].env /\ pipe[k].env.kind # "done"
         /\ (\A i, j \in DOMAIN pipe : IsEnv(pipe[i], Outcomes) /\ IsEnv(pipe[j], Outcomes) => i = j) =>
              \A q, r \in DOMAIN p.found :
                 p.found[q].kind \in Outcomes /\ p.found[r].kind \in Outcomes => q = r
<1>1. PICK g : /\ g[0] = [lines EXCEPT !.found = <<>>]
               /\ \A i \in 0..n : g[i] \in LinesType
               /\ \A i \in 1..n : pipe[i] \in Atoms /\ Eats(g[i - 1], pipe[i], g[i])
               /\ Pushed(SubSeq(pipe, 1, n)) = [g[n] EXCEPT !.line = LastOf(MaxTail, @)]
  BY CollectorRuns
<1> DEFINE Once == \A i, j \in DOMAIN pipe : IsEnv(pipe[i], Outcomes) /\ IsEnv(pipe[j], Outcomes) => i = j
           HeldFor(i) ==
             /\ \A q \in DOMAIN g[i].found : \E k \in 1..i :
                  pipe[k].a = "close" /\ g[i].found[q] = pipe[k].env /\ pipe[k].env.kind # "done"
             /\ Once => \A q, r \in DOMAIN g[i].found :
                  g[i].found[q].kind \in Outcomes /\ g[i].found[r].kind \in Outcomes => q = r
           S == {i \in 0..n : HeldFor(i)}
<1>0. n \in Nat /\ DOMAIN pipe = 1..Len(pipe) /\ n <= Len(pipe) /\ Len(pipe) \in Nat
  OBVIOUS
<1>2. 0 \in S
  <2>1. g[0].found = <<>>
    BY <1>1 DEF LinesType
  <2>2. DOMAIN g[0].found = {}
    BY <2>1
  <2>3. HeldFor(0)
    BY <2>2
  <2> QED BY <1>0, <2>3
<1>3. \A i \in 0..(n - 1) : i \in S => i + 1 \in S
  <2> TAKE i \in 0..(n - 1)
  <2> HAVE i \in S
  <2>0. i \in Nat /\ i + 1 \in 1..n /\ i + 1 \in 0..n /\ (i + 1) - 1 = i /\ i \in 0..n
    BY <1>0
  <2> DEFINE c == g[i]
             d == g[i + 1]
             x == pipe[i + 1]
  <2>1. c \in LinesType /\ x \in Atoms /\ Eats(c, x, d)
    BY <1>1, <2>0
  <2>2. HeldFor(i)
    OBVIOUS
  <2>3. \A k \in 1..i : k \in 1..(i + 1) /\ k < i + 1 /\ k \in DOMAIN pipe
    BY <1>0, <2>0
  <2>4. i + 1 \in 1..(i + 1) /\ i + 1 \in DOMAIN pipe
    BY <1>0, <2>0
  <2>5. c.found \in Seq(Envs)
    BY <2>1 DEF LinesType
  <2>6. d.found = c.found \/ (x.a = "close" /\ x.env.kind # "done" /\ d.found = Append(c.found, x.env))
    BY <2>1 DEF Eats
  <2> HIDE DEF c, d, x
  <2>7. CASE d.found = c.found
    <3>1. HeldFor(i + 1)
      BY <2>2, <2>3, <2>7 DEF c, d
    <3> QED BY <2>0, <3>1
  <2>8. CASE x.a = "close" /\ x.env.kind # "done" /\ d.found = Append(c.found, x.env)
    <3> DEFINE f == c.found
               h == d.found
    <3>1. /\ DOMAIN h = 1..(Len(f) + 1) /\ Len(f) \in Nat /\ DOMAIN f = 1..Len(f)
          /\ h[Len(f) + 1] = x.env
          /\ \A q \in 1..Len(f) : h[q] = f[q]
      <4>1. x.env \in Envs
        BY <2>1, <2>8, AtomKinds
      <4> QED BY <2>5, <2>8, <4>1
    <3> HIDE DEF f, h
    <3>2. \A q \in DOMAIN h : q \in 1..Len(f) \/ q = Len(f) + 1
      BY <3>1
    <3>3. \A q \in DOMAIN h : \E k \in 1..(i + 1) :
            pipe[k].a = "close" /\ h[q] = pipe[k].env /\ pipe[k].env.kind # "done"
      <4> TAKE q \in DOMAIN h
      <4>1. CASE q \in 1..Len(f)
        <5>1. q \in DOMAIN f /\ h[q] = f[q]
          BY <3>1, <4>1
        <5>2. PICK k \in 1..i : pipe[k].a = "close" /\ f[q] = pipe[k].env /\ pipe[k].env.kind # "done"
          BY <2>2, <5>1 DEF f, c
        <5> QED BY <2>3, <5>1, <5>2
      <4>2. CASE q = Len(f) + 1
        BY <2>4, <2>8, <3>1, <4>2 DEF x
      <4> QED BY <3>2, <4>1, <4>2
    <3>4. Once /\ x.env.kind \in Outcomes => \A q \in 1..Len(f) : f[q].kind \notin Outcomes
      <4> SUFFICES ASSUME Once, x.env.kind \in Outcomes, NEW q \in 1..Len(f), f[q].kind \in Outcomes
                   PROVE  FALSE
        OBVIOUS
      <4>1. PICK k \in 1..i : pipe[k].a = "close" /\ f[q] = pipe[k].env
        BY <2>2, <3>1 DEF f, c
      <4>2. IsEnv(pipe[k], Outcomes) /\ IsEnv(pipe[i + 1], Outcomes)
        BY <2>8, <4>1 DEF IsEnv, x
      <4> QED BY <2>0, <2>3, <2>4, <4>2
    <3>5. Once => \A q, r \in DOMAIN h : h[q].kind \in Outcomes /\ h[r].kind \in Outcomes => q = r
      <4> SUFFICES ASSUME Once, NEW q \in DOMAIN h, NEW r \in DOMAIN h,
                          h[q].kind \in Outcomes, h[r].kind \in Outcomes
                   PROVE  q = r
        OBVIOUS
      <4>1. CASE x.env.kind \in Outcomes
        <5>1. q = Len(f) + 1 /\ r = Len(f) + 1
          BY <3>1, <3>2, <3>4, <4>1
        <5> QED BY <5>1
      <4>2. CASE x.env.kind \notin Outcomes
        <5>1. q \in 1..Len(f) /\ r \in 1..Len(f)
          BY <3>1, <3>2, <4>2
        <5>2. f[q].kind \in Outcomes /\ f[r].kind \in Outcomes /\ q \in DOMAIN f /\ r \in DOMAIN f
          BY <3>1, <5>1
        <5> QED BY <2>2, <5>2 DEF f, c
      <4> QED BY <4>1, <4>2
    <3>6. HeldFor(i + 1)
      BY <3>3, <3>5 DEF h, d
    <3> QED BY <2>0, <3>6
  <2> QED BY <2>6, <2>7, <2>8
<1>4. HeldFor(n)
  <2> HIDE DEF S
  <2>1. \A i \in 0..n : i \in S
    BY <1>0, <1>2, <1>3, UpTo
  <2>2. n \in 0..n
    BY <1>0
  <2> QED BY <2>1, <2>2 DEF S
<1>5. g[n] \in LinesType
  BY <1>0, <1>1
<1>6. Pushed(SubSeq(pipe, 1, n)).found = g[n].found /\ g[n].found \in Seq(Envs)
  BY <1>1, <1>5 DEF LinesType
<1> QED BY <1>4, <1>6

\* Where no opening lies in the line but at its end, each envelope of the active exec's
\* in a chunk is heard: its done, or what is found of it.
OpensEnd == \A k \in DOMAIN lines.line : lines.line[k].a = "open" =>
              k = Len(lines.line) /\ pipe # <<>> /\ pipe[1].a = "close"
OpensClose == \A i \in DOMAIN pipe : pipe[i].a = "open" => i + 1 \in DOMAIN pipe /\ pipe[i + 1].a = "close"

LEMMA HeardIs ==
  ASSUME ProtocolAssumption, pipe \in Seq(Atoms), lines \in LinesType, OpensEnd, OpensClose,
         NEW n \in 1..Len(pipe)
  PROVE  LET p == Pushed(SubSeq(pipe, 1, n)) IN
         /\ \A k \in 1..n : pipe[k].a = "close" /\ Before(k) = Open(active) =>
              IF pipe[k].env.kind = "done" THEN p.done
              ELSE \E q \in DOMAIN p.found : p.found[q] = pipe[k].env
         /\ \A k \in DOMAIN p.line : p.line[k].a = "open" =>
              k = Len(p.line) /\ n + 1 \in DOMAIN pipe /\ pipe[n + 1].a = "close"
<1>1. PICK g : /\ g[0] = [lines EXCEPT !.found = <<>>]
               /\ \A i \in 0..n : g[i] \in LinesType
               /\ \A i \in 1..n : pipe[i] \in Atoms /\ Eats(g[i - 1], pipe[i], g[i])
               /\ Pushed(SubSeq(pipe, 1, n)) = [g[n] EXCEPT !.line = LastOf(MaxTail, @)]
  BY CollectorRuns
<1> DEFINE HeldFor(i) ==
             /\ \A k \in 1..i : pipe[k].a = "close" /\ Before(k) = Open(active) =>
                  IF pipe[k].env.kind = "done" THEN g[i].done
                  ELSE \E q \in DOMAIN g[i].found : g[i].found[q] = pipe[k].env
             /\ \A k \in DOMAIN g[i].line : g[i].line[k].a = "open" =>
                  k = Len(g[i].line) /\ i + 1 \in DOMAIN pipe /\ pipe[i + 1].a = "close"
             /\ i > 0 /\ pipe[i].a = "open" =>
                  g[i].line # <<>> /\ g[i].line[Len(g[i].line)] = pipe[i]
           S == {i \in 0..n : HeldFor(i)}
<1>0. n \in Nat /\ DOMAIN pipe = 1..Len(pipe) /\ n <= Len(pipe) /\ Len(pipe) \in Nat
  OBVIOUS
<1>2. 0 \in S
  <2>1. g[0].line = lines.line
    BY <1>1 DEF LinesType
  <2>2. pipe # <<>> => 0 + 1 \in DOMAIN pipe
    BY <1>0
  <2>3. HeldFor(0)
    BY <1>0, <2>1, <2>2 DEF OpensEnd
  <2> QED BY <1>0, <2>3
<1>3. \A i \in 0..(n - 1) : i \in S => i + 1 \in S
  <2> TAKE i \in 0..(n - 1)
  <2> HAVE i \in S
  <2>0. i \in Nat /\ i + 1 \in 1..n /\ i + 1 \in 0..n /\ (i + 1) - 1 = i /\ i \in 0..n /\ i + 1 \in DOMAIN pipe
    BY <1>0
  <2> DEFINE c == g[i]
             d == g[i + 1]
             x == pipe[i + 1]
  <2>1. c \in LinesType /\ d \in LinesType /\ x \in Atoms /\ Eats(c, x, d)
    BY <1>1, <2>0
  <2>2. HeldFor(i)
    OBVIOUS
  <2>3. \A k \in 1..(i + 1) : k \in 1..i \/ k = i + 1
    BY <2>0
  <2>5. c.found \in Seq(Envs) /\ c.line \in Seq(Atoms) /\ d.line \in Seq(Atoms)
    BY <2>1 DEF LinesType
  <2>6. d.found = c.found \/ (x.a = "close" /\ x.env.kind # "done" /\ d.found = Append(c.found, x.env))
    BY <2>1 DEF Eats
  <2>7. \A q \in DOMAIN c.found : q \in DOMAIN d.found /\ d.found[q] = c.found[q]
    <3>1. CASE d.found = c.found
      BY <3>1
    <3>2. CASE x.a = "close" /\ d.found = Append(c.found, x.env)
      <4>1. x.env \in Envs
        BY <2>1, <3>2, AtomKinds
      <4> HIDE DEF c, d, x
      <4>2. \A q \in DOMAIN c.found : q \in DOMAIN Append(c.found, x.env) /\ Append(c.found, x.env)[q] = c.found[q]
        BY <2>5, <4>1
      <4> QED BY <3>2, <4>2
    <3> QED BY <2>6, <3>1, <3>2
  <2>8. c.done => d.done
    BY <2>1 DEF Eats
  <2>9. x.a = "close" /\ Before(i + 1) = Open(active) =>
          c.line # <<>> /\ c.line[Len(c.line)] = Open(active)
    <3> SUFFICES ASSUME x.a = "close", Before(i + 1) = Open(active)
                 PROVE  c.line # <<>> /\ c.line[Len(c.line)] = Open(active)
      OBVIOUS
    <3>1. Open(active).a = "open" /\ Text.a = "text"
      BY DEF Open, Text
    <3>2. CASE i = 0
      <4>1. c.line = lines.line
        BY <1>1, <3>2 DEF LinesType
      <4>2. Before(i + 1) = IF lines.line = <<>> THEN Text ELSE lines.line[Len(lines.line)]
        BY <3>2 DEF Before
      <4> HIDE DEF c
      <4> QED BY <3>1, <4>1, <4>2
    <3>3. CASE i > 0
      <4>1. Before(i + 1) = pipe[i]
        BY <2>0, <3>3 DEF Before
      <4> QED BY <2>2, <3>1, <3>3, <4>1
    <3> QED BY <2>0, <3>2, <3>3
  <2>10. x.a = "close" => \A k \in DOMAIN c.line : c.line[k].a = "open" => k = Len(c.line)
    BY <2>2
  <2>11. \A k \in 1..(i + 1) : pipe[k].a = "close" /\ Before(k) = Open(active) =>
           IF pipe[k].env.kind = "done" THEN d.done
           ELSE \E q \in DOMAIN d.found : d.found[q] = pipe[k].env
    <3> SUFFICES ASSUME NEW k \in 1..(i + 1), pipe[k].a = "close", Before(k) = Open(active)
                 PROVE  IF pipe[k].env.kind = "done" THEN d.done
                        ELSE \E q \in DOMAIN d.found : d.found[q] = pipe[k].env
      OBVIOUS
    <3>1. CASE k \in 1..i
      <4>1. IF pipe[k].env.kind = "done" THEN c.done
            ELSE \E q \in DOMAIN c.found : c.found[q] = pipe[k].env
        BY <2>2, <3>1
      <4> HIDE DEF c, d
      <4> QED BY <2>7, <2>8, <4>1
    <3>2. CASE k = i + 1
      <4>1. x.a = "close" /\ IF x.env.kind = "done" THEN d.done ELSE d.found = Append(c.found, x.env)
        <5>1. c.line # <<>> /\ c.line[Len(c.line)] = Open(active)
          BY <2>9, <3>2
        <5>2. x.a = "close" /\ \A m \in DOMAIN c.line : c.line[m].a = "open" => m = Len(c.line)
          BY <2>10, <3>2
        <5> HIDE DEF c, d, x
        <5> QED BY <2>1, <5>1, <5>2 DEF Eats
      <4>2. x.env \in Envs
        BY <2>1, <4>1, AtomKinds
      <4> HIDE DEF c, d
      <4>3. Len(c.found) + 1 \in DOMAIN Append(c.found, x.env)
            /\ Append(c.found, x.env)[Len(c.found) + 1] = x.env
        BY <2>5, <4>2
      <4> QED BY <3>2, <4>1, <4>3
    <3> QED BY <2>3, <3>1, <3>2
  <2>12. /\ \A k \in DOMAIN d.line : d.line[k].a = "open" =>
              k = Len(d.line) /\ (i + 1) + 1 \in DOMAIN pipe /\ pipe[(i + 1) + 1].a = "close"
         /\ x.a = "open" => d.line # <<>> /\ d.line[Len(d.line)] = x
    <3>1. CASE x.a \in {"close", "end"}
      <4>1. d.line = <<>>
        BY <2>1, <3>1 DEF Eats
      <4>2. DOMAIN d.line = {} /\ x.a # "open"
        BY <3>1, <4>1
      <4> QED BY <4>2
    <3>2. CASE x.a \notin {"close", "end"}
      <4>1. d.line = Append(c.line, x)
        BY <2>1, <3>2 DEF Eats
      <4>2. /\ Len(d.line) = Len(c.line) + 1 /\ Len(c.line) \in Nat /\ d.line[Len(d.line)] = x /\ d.line # <<>>
            /\ \A k \in DOMAIN d.line : k = Len(d.line) \/ (k \in DOMAIN c.line /\ d.line[k] = c.line[k])
        <5> HIDE DEF c, d, x
        <5> QED BY <2>1, <2>5, <4>1, SMTT(20)
      <4>3. \A k \in DOMAIN c.line : c.line[k].a # "open"
        BY <2>2, <3>2
      <4>4. x.a = "open" => (i + 1) + 1 \in DOMAIN pipe /\ pipe[(i + 1) + 1].a = "close"
        BY <2>0 DEF OpensClose
      <4> HIDE DEF c, d, x
      <4> QED BY <4>2, <4>3, <4>4
    <3> QED BY <3>1, <3>2
  <2>13. HeldFor(i + 1)
    BY <2>11, <2>12
  <2> QED BY <2>0, <2>13
<1>4. HeldFor(n)
  <2> HIDE DEF S
  <2>1. \A i \in 0..n : i \in S
    BY <1>0, <1>2, <1>3, UpTo
  <2>2. n \in 0..n
    BY <1>0
  <2> QED BY <2>1, <2>2 DEF S
<1> DEFINE p == Pushed(SubSeq(pipe, 1, n))
<1>5. g[n] \in LinesType
  BY <1>0, <1>1
<1>6. g[n].line \in Seq(Atoms) /\ MaxTail \in Nat \ {0, 1}
  BY <1>5, ProtocolAssumption DEF LinesType
<1>7. \A k \in DOMAIN LastOf(MaxTail, g[n].line) : \E j \in DOMAIN g[n].line :
        LastOf(MaxTail, g[n].line)[k] = g[n].line[j] /\ (k = Len(LastOf(MaxTail, g[n].line)) <=> j = Len(g[n].line))
  BY <1>6, LastOfIs
<1>8. p.line = LastOf(MaxTail, g[n].line) /\ p.done = g[n].done /\ p.found = g[n].found
  BY <1>1, <1>5 DEF LinesType
<1> HIDE DEF p
<1>9. \A k \in DOMAIN p.line : p.line[k].a = "open" =>
         k = Len(p.line) /\ n + 1 \in DOMAIN pipe /\ pipe[n + 1].a = "close"
  BY <1>4, <1>7, <1>8
<1>10. \A k \in 1..n : pipe[k].a = "close" /\ Before(k) = Open(active) =>
         IF pipe[k].env.kind = "done" THEN p.done
         ELSE \E q \in DOMAIN p.found : p.found[q] = pipe[k].env
  BY <1>4, <1>8
<1> QED BY <1>9, <1>10 DEF p

\* What the line left of a chunk is, by the chunk's last atoms.
LEMMA LineIs ==
  ASSUME ProtocolAssumption, pipe \in Seq(Atoms), lines \in LinesType, NEW n \in 1..Len(pipe)
  PROVE  LET p == Pushed(SubSeq(pipe, 1, n)) IN
         /\ pipe[n].a = "close" => p.line = <<>>
         /\ pipe[n].a = "open" => p.line # <<>> /\ p.line[Len(p.line)] = pipe[n]
         /\ n > 1 /\ pipe[n - 1].a = "close" /\ pipe[n] = Prompt => p.line = <<Prompt>>
         /\ n = 1 /\ lines.line = <<>> /\ pipe[n] = Prompt => p.line = <<Prompt>>
<1>1. PICK g : /\ g[0] = [lines EXCEPT !.found = <<>>]
               /\ \A i \in 0..n : g[i] \in LinesType
               /\ \A i \in 1..n : pipe[i] \in Atoms /\ Eats(g[i - 1], pipe[i], g[i])
               /\ Pushed(SubSeq(pipe, 1, n)) = [g[n] EXCEPT !.line = LastOf(MaxTail, @)]
  BY CollectorRuns
<1>0. n \in Nat /\ n \in 1..n /\ n \in 0..n /\ n - 1 \in 0..n
  OBVIOUS
<1> DEFINE p == Pushed(SubSeq(pipe, 1, n))
           c == g[n - 1]
           d == g[n]
           x == pipe[n]
<1>2. c \in LinesType /\ d \in LinesType /\ x \in Atoms /\ Eats(c, x, d)
  BY <1>0, <1>1
<1>3. MaxTail \in Nat \ {0, 1} /\ d.line \in Seq(Atoms) /\ c.line \in Seq(Atoms)
  BY <1>2, ProtocolAssumption DEF LinesType
<1>4. p.line = LastOf(MaxTail, d.line)
  BY <1>1, <1>2 DEF LinesType
<1>5. /\ d.line # <<>> => p.line # <<>> /\ p.line[Len(p.line)] = d.line[Len(d.line)]
      /\ d.line = <<>> => p.line = <<>>
      /\ Len(d.line) <= 1 => p.line = d.line
  <2> HIDE DEF p, d
  <2> QED BY <1>3, <1>4, LastOfIs
<1>6. Prompt.a = "prompt" /\ Prompt \in Atoms
  BY DEF Prompt, Atoms
<1>7. n > 1 /\ pipe[n - 1].a = "close" => c.line = <<>>
  <2> SUFFICES ASSUME n > 1, pipe[n - 1].a = "close" PROVE c.line = <<>>
    OBVIOUS
  <2>1. n - 1 \in 1..n
    BY <1>0
  <2>2. Eats(g[(n - 1) - 1], pipe[n - 1], c)
    BY <1>1, <2>1
  <2> QED BY <2>2 DEF Eats
<1>8. n = 1 /\ lines.line = <<>> => c.line = <<>>
  BY <1>1 DEF LinesType
<1>9. x.a \notin {"close", "end"} => d.line = Append(c.line, x)
  BY <1>2 DEF Eats
<1>10. x.a \in {"close", "end"} => d.line = <<>>
  BY <1>2 DEF Eats
<1>11. x = Prompt /\ c.line = <<>> => d.line = <<Prompt>> /\ Len(d.line) = 1
  <2> SUFFICES ASSUME x = Prompt, c.line = <<>> PROVE d.line = <<Prompt>> /\ Len(d.line) = 1
    OBVIOUS
  <2>1. d.line = Append(<<>>, Prompt)
    BY <1>6, <1>9
  <2>2. Append(<<>>, Prompt) = <<Prompt>> /\ Len(<<Prompt>>) = 1
    BY <1>6
  <2> QED BY <2>1, <2>2
<1>12. x.a = "open" => d.line # <<>> /\ d.line[Len(d.line)] = x
  <2>1. Append(c.line, x) # <<>> /\ Append(c.line, x)[Len(Append(c.line, x))] = x
    <3> HIDE DEF c, x
    <3> QED BY <1>2, <1>3
  <2> QED BY <1>9, <2>1
<1> HIDE DEF p, c, d
<1> QED BY <1>5, <1>7, <1>8, <1>10, <1>11, <1>12 DEF p

-----------------------------------------------------------------------------
(* The capture.                                                            *)

\* The capture, with the messages of its record.
CaptureOf(c) == Unmessaged(c) \in CaptureType

\* What an envelope does to the capture.
Keeps(c, env, d) ==
    /\ CaptureOf(d)
    /\ env.kind \notin Outcomes =>
         /\ d.outcome = c.outcome /\ d.commit = c.commit
         /\ d.status = IF env.kind = "error" /\ c.status # "interrupted" THEN "error" ELSE c.status
    /\ env.kind \in Outcomes /\ c.outcome = "none" =>
         /\ d.status = c.status
         /\ env.kind = "checkpoint" => d.outcome = "commit" /\ d.commit = env.val
         /\ env.kind = "checkpoint-preserved" => d.outcome = "preserved" /\ d.commit = c.commit

\* A capture's fields, one by one.
CaptureShape(c) ==
    c = [status |-> c.status, outcome |-> c.outcome, commit |-> c.commit, count |-> c.count,
         stopped |-> c.stopped, terminal |-> c.terminal, messages |-> c.messages]

LEMMA BoundedIs ==
  ASSUME ProtocolAssumption, NEW c, CaptureOf(c), CaptureShape(c), NEW env
  PROVE  LET d == Bounded(c, env) IN
         /\ CaptureOf(d) /\ CaptureShape(d)
         /\ d.status = c.status /\ d.outcome = c.outcome /\ d.commit = c.commit
<1>1. /\ c.status \in {"ok", "error", "interrupted"} /\ c.commit \in Nat /\ c.count \in Nat
      /\ c.outcome \in {"none", "commit", "preserved", "invalid"} /\ c.stopped \in BOOLEAN /\ c.terminal \in BOOLEAN
  BY DEF CaptureOf, Unmessaged, CaptureType
<1>2. CASE c.stopped
  <2>1. CASE env.kind # "error" \/ c.terminal
    <3>1. Bounded(c, env) = c
      BY <1>2, <2>1 DEF Bounded
    <3> QED BY <3>1
  <2>2. CASE ~(env.kind # "error" \/ c.terminal)
    <3>1. Bounded(c, env) = [c EXCEPT !.terminal = TRUE, !.messages = Append(@, env)]
      BY <1>2, <2>2 DEF Bounded
    <3>2. Bounded(c, env) =
            [status |-> c.status, outcome |-> c.outcome, commit |-> c.commit, count |-> c.count,
             stopped |-> c.stopped, terminal |-> TRUE, messages |-> Append(c.messages, env)]
      BY <3>1 DEF CaptureShape
    <3> QED BY <1>1, <3>2 DEF CaptureShape, CaptureOf, Unmessaged, CaptureType
  <2> QED BY <2>1, <2>2
<1>3. CASE ~c.stopped
  <2> DEFINE stops == c.count + 1 >= MaxMessages
  <2>1. Bounded(c, env) =
          [c EXCEPT !.count = @ + 1, !.stopped = stops,
                    !.messages = @ \o IF stops THEN <<env, Notice>> ELSE <<env>>]
    BY <1>3 DEF Bounded
  <2>2. stops \in BOOLEAN
    BY <1>1, ProtocolAssumption
  <2> HIDE DEF stops
  <2>3. PICK new : new = c.messages \o IF stops THEN <<env, Notice>> ELSE <<env>>
    OBVIOUS
  <2>4. Bounded(c, env) =
          [status |-> c.status, outcome |-> c.outcome, commit |-> c.commit, count |-> c.count + 1,
           stopped |-> stops, terminal |-> c.terminal, messages |-> new]
    BY <2>1, <2>3 DEF CaptureShape
  <2> QED BY <1>1, <2>2, <2>4 DEF CaptureShape, CaptureOf, Unmessaged, CaptureType
<1> QED BY <1>1, <1>2, <1>3

LEMMA ConsumedIs ==
  ASSUME ProtocolAssumption, NEW c, CaptureOf(c), CaptureShape(c), NEW env \in Envs, env.kind # "done"
  PROVE  Keeps(c, env, Consumed(c, env)) /\ CaptureShape(Consumed(c, env))
<1>1. /\ c.status \in {"ok", "error", "interrupted"} /\ c.commit \in Nat /\ c.count \in Nat
      /\ c.outcome \in {"none", "commit", "preserved", "invalid"} /\ c.stopped \in BOOLEAN /\ c.terminal \in BOOLEAN
      /\ env.val \in Nat /\ env.kind \in {"stdout", "error", "checkpoint", "checkpoint-preserved"}
  BY DEF CaptureOf, Unmessaged, CaptureType, Envs
<1>2. CASE env.kind \in Outcomes
  <2>1. Consumed(c, env) = OutcomeTold(c, env)
    BY <1>2 DEF Consumed, Outcomes
  <2>2. CASE c.outcome # "none"
    <3>1. Consumed(c, env) = [c EXCEPT !.outcome = "invalid", !.status = "error",
                                       !.messages = Append(@, Told("more than one outcome"))]
      BY <2>1, <2>2 DEF OutcomeTold
    <3>2. PICK new : new = Append(c.messages, Told("more than one outcome"))
      OBVIOUS
    <3>3. Consumed(c, env) =
            [status |-> "error", outcome |-> "invalid", commit |-> c.commit, count |-> c.count,
             stopped |-> c.stopped, terminal |-> c.terminal, messages |-> new]
      BY <3>1, <3>2 DEF CaptureShape
    <3> QED BY <1>1, <1>2, <2>2, <3>3 DEF Keeps, CaptureShape, CaptureOf, Unmessaged, CaptureType
  <2>3. CASE c.outcome = "none" /\ env.kind = "checkpoint"
    <3>1. Consumed(c, env) = [c EXCEPT !.outcome = "commit", !.commit = env.val]
      BY <2>1, <2>3 DEF OutcomeTold
    <3>3. Consumed(c, env) =
            [status |-> c.status, outcome |-> "commit", commit |-> env.val, count |-> c.count,
             stopped |-> c.stopped, terminal |-> c.terminal, messages |-> c.messages]
      BY <3>1 DEF CaptureShape
    <3> QED BY <1>1, <1>2, <2>3, <3>3 DEF Keeps, CaptureShape, CaptureOf, Unmessaged, CaptureType
  <2>4. CASE c.outcome = "none" /\ env.kind # "checkpoint"
    <3>1. Consumed(c, env) = [c EXCEPT !.outcome = "preserved"]
      BY <2>1, <2>4 DEF OutcomeTold
    <3>3. Consumed(c, env) =
            [status |-> c.status, outcome |-> "preserved", commit |-> c.commit, count |-> c.count,
             stopped |-> c.stopped, terminal |-> c.terminal, messages |-> c.messages]
      BY <3>1 DEF CaptureShape
    <3> QED BY <1>1, <1>2, <2>4, <3>3 DEF Keeps, CaptureShape, CaptureOf, Unmessaged, CaptureType
  <2> QED BY <2>2, <2>3, <2>4
<1>3. CASE env.kind \notin Outcomes
  <2> DEFINE b == IF env.kind = "error" /\ c.status # "interrupted" THEN [c EXCEPT !.status = "error"] ELSE c
  <2>1. Consumed(c, env) = Bounded(b, env)
    BY <1>3 DEF Consumed, Outcomes
  <2>2. /\ b.status = IF env.kind = "error" /\ c.status # "interrupted" THEN "error" ELSE c.status
        /\ b.outcome = c.outcome /\ b.commit = c.commit
        /\ b = [status |-> b.status, outcome |-> c.outcome, commit |-> c.commit, count |-> c.count,
                stopped |-> c.stopped, terminal |-> c.terminal, messages |-> c.messages]
    <3>1. CASE env.kind = "error" /\ c.status # "interrupted"
      <4>1. b = [status |-> "error", outcome |-> c.outcome, commit |-> c.commit, count |-> c.count,
                 stopped |-> c.stopped, terminal |-> c.terminal, messages |-> c.messages]
        BY <3>1 DEF CaptureShape
      <4> HIDE DEF b
      <4> QED BY <3>1, <4>1
    <3>2. CASE ~(env.kind = "error" /\ c.status # "interrupted")
      BY <3>2 DEF CaptureShape
    <3> QED BY <3>1, <3>2
  <2> HIDE DEF b
  <2>3. CaptureOf(b) /\ CaptureShape(b)
    BY <1>1, <2>2 DEF CaptureShape, CaptureOf, Unmessaged, CaptureType
  <2>4. CaptureOf(Bounded(b, env)) /\ CaptureShape(Bounded(b, env)) /\ Bounded(b, env).status = b.status
        /\ Bounded(b, env).outcome = b.outcome /\ Bounded(b, env).commit = b.commit
    BY <2>3, BoundedIs
  <2> QED BY <1>3, <2>1, <2>2, <2>4 DEF Keeps
<1> QED BY <1>2, <1>3

\* The fold over what was found, as a run.
LEMMA EnvsRun ==
  ASSUME NEW T, NEW found \in Seq(T), NEW base
  PROVE  \E g : /\ DOMAIN g = 0..Len(found) /\ g[0] = base
                /\ \A i \in 1..Len(found) : g[i] = Consumed(g[i - 1], found[i])
                /\ g[Len(found)] = AllConsumed(base, found)
<1>1. PICK n : n = Len(found)
  OBVIOUS
<1>2. PICK chunk : chunk = found
  OBVIOUS
<1>3. n \in Nat /\ DOMAIN chunk = 1..n
  BY <1>1, <1>2
<1>4. PICK g : /\ DOMAIN g = 0..n /\ g[0] = base
               /\ \A i \in 1..n : g[i] = Consumed(g[i - 1], chunk[i])
               /\ g[n] = AllConsumed(base, chunk)
  BY <1>3, EnvsFold, ZenonT(40)
<1> QED BY <1>1, <1>2, <1>4

\* What a chunk's envelopes leave in the capture.
LEMMA CapturedIs ==
  ASSUME ProtocolAssumption, capture \in CaptureType, NEW messages, NEW found \in Seq(Envs),
         \A q \in DOMAIN found : found[q].kind # "done",
         \A q, r \in DOMAIN found : found[q].kind \in Outcomes /\ found[r].kind \in Outcomes => q = r,
         capture.outcome # "none" => \A q \in DOMAIN found : found[q].kind \notin Outcomes
  PROVE  LET c == AllConsumed(WithMessages(capture, messages), found) IN
         /\ Unmessaged(c) \in CaptureType
         /\ \/ c.outcome = capture.outcome /\ c.commit = capture.commit
            \/ \E q \in DOMAIN found : /\ found[q].kind = "checkpoint"
                                       /\ c.outcome = "commit" /\ c.commit = found[q].val
            \/ \E q \in DOMAIN found : found[q].kind = "checkpoint-preserved" /\ c.outcome = "preserved"
         /\ c.status = "interrupted" <=> capture.status = "interrupted"
         /\ capture.status # "ok" => c.status # "ok"
         /\ (\E q \in DOMAIN found : found[q].kind = "error") => c.status # "ok"
<1> DEFINE base == WithMessages(capture, messages)
           n == Len(found)
<1>0. n \in Nat /\ DOMAIN found = 1..n
  OBVIOUS
<1>1. PICK g : /\ DOMAIN g = 0..n /\ g[0] = base
               /\ \A i \in 1..n : g[i] = Consumed(g[i - 1], found[i])
               /\ g[n] = AllConsumed(base, found)
  <2> HIDE DEF base
  <2> QED BY EnvsRun
<1>2. /\ base.status = capture.status /\ base.outcome = capture.outcome /\ base.commit = capture.commit
      /\ CaptureOf(base) /\ CaptureShape(base)
  BY DEF WithMessages, CaptureOf, CaptureShape, Unmessaged, CaptureType
<1> HIDE DEF base, n
<1> DEFINE HeldFor(i) ==
             /\ CaptureOf(g[i]) /\ CaptureShape(g[i])
             /\ \/ g[i].outcome = capture.outcome /\ g[i].commit = capture.commit
                \/ \E q \in 1..i : /\ found[q].kind = "checkpoint"
                                   /\ g[i].outcome = "commit" /\ g[i].commit = found[q].val
                \/ \E q \in 1..i : found[q].kind = "checkpoint-preserved" /\ g[i].outcome = "preserved"
             /\ g[i].outcome # "none" => capture.outcome # "none" \/ \E q \in 1..i : found[q].kind \in Outcomes
             /\ g[i].status = "interrupted" <=> capture.status = "interrupted"
             /\ capture.status # "ok" => g[i].status # "ok"
             /\ (\E q \in 1..i : found[q].kind = "error") => g[i].status # "ok"
           S == {i \in 0..n : HeldFor(i)}
<1>3. 0 \in S
  <2>1. HeldFor(0)
    BY <1>1, <1>2
  <2> QED BY <1>0, <2>1
<1>4. \A i \in 0..(n - 1) : i \in S => i + 1 \in S
  <2> TAKE i \in 0..(n - 1)
  <2> HAVE i \in S
  <2>0. i \in Nat /\ i + 1 \in 1..n /\ i + 1 \in 0..n /\ (i + 1) - 1 = i /\ i + 1 \in 1..(i + 1)
        /\ \A k \in 1..i : k \in 1..(i + 1) /\ k \in 1..n /\ k # i + 1
    BY <1>0
  <2>00. \A k \in 1..(i + 1) : k \in 1..i \/ k = i + 1
    BY <2>0
  <2> DEFINE c == g[i]
             d == g[i + 1]
             e == found[i + 1]
  <2>1. HeldFor(i)
    OBVIOUS
  <2>2. e \in Envs /\ e.kind # "done"
    BY <1>0, <2>0
  <2>3. d = Consumed(c, e)
    BY <1>1, <2>0
  <2>4. Keeps(c, e, d) /\ CaptureShape(d)
    <3> HIDE DEF c, d, e
    <3>1. CaptureOf(c) /\ CaptureShape(c)
      BY <2>1 DEF c
    <3> QED BY <2>2, <2>3, <3>1, ConsumedIs
  <2>5. c.status \in {"ok", "error", "interrupted"}
    BY <2>1 DEF CaptureOf, Unmessaged, CaptureType
  <2>6. e.kind \in {"stdout", "error"} \cup Outcomes
    BY <2>2 DEF Envs, Outcomes
  <2>7. e.kind \in Outcomes => c.outcome = "none"
    BY <1>0, <2>0, <2>1
  <2> HIDE DEF c, d, e
  <2>8. CASE e.kind \in Outcomes
    <3>1. /\ CaptureOf(d) /\ d.status = c.status
          /\ e.kind = "checkpoint" => d.outcome = "commit" /\ d.commit = e.val
          /\ e.kind = "checkpoint-preserved" => d.outcome = "preserved"
      BY <2>4, <2>7, <2>8 DEF Keeps
    <3>2. e.kind \in {"checkpoint", "checkpoint-preserved"} /\ e.kind # "error"
      BY <2>8 DEF Outcomes
    <3>3. \/ \E q \in 1..(i + 1) : /\ found[q].kind = "checkpoint"
                                   /\ d.outcome = "commit" /\ d.commit = found[q].val
          \/ \E q \in 1..(i + 1) : found[q].kind = "checkpoint-preserved" /\ d.outcome = "preserved"
      BY <2>0, <3>1, <3>2 DEF e
    <3>4. \E q \in 1..(i + 1) : found[q].kind \in Outcomes
      BY <2>0, <2>8 DEF e
    <3>5. /\ d.status = "interrupted" <=> capture.status = "interrupted"
          /\ capture.status # "ok" => d.status # "ok"
          /\ (\E q \in 1..(i + 1) : found[q].kind = "error") => d.status # "ok"
      BY <2>00, <2>1, <3>1, <3>2 DEF c, e
    <3>6. HeldFor(i + 1)
      BY <2>4, <3>1, <3>3, <3>4, <3>5 DEF d
    <3> QED BY <2>0, <3>6
  <2>9. CASE e.kind \notin Outcomes
    <3>1. /\ CaptureOf(d) /\ d.outcome = c.outcome /\ d.commit = c.commit
          /\ d.status = IF e.kind = "error" /\ c.status # "interrupted" THEN "error" ELSE c.status
      BY <2>4, <2>9 DEF Keeps
    <3>2. /\ \/ d.outcome = capture.outcome /\ d.commit = capture.commit
             \/ \E q \in 1..(i + 1) : /\ found[q].kind = "checkpoint"
                                      /\ d.outcome = "commit" /\ d.commit = found[q].val
             \/ \E q \in 1..(i + 1) : found[q].kind = "checkpoint-preserved" /\ d.outcome = "preserved"
          /\ d.outcome # "none" => capture.outcome # "none" \/ \E q \in 1..(i + 1) : found[q].kind \in Outcomes
      BY <2>0, <2>1, <3>1 DEF c
    <3>3. /\ d.status = "interrupted" <=> capture.status = "interrupted"
          /\ capture.status # "ok" => d.status # "ok"
      BY <2>1, <3>1 DEF c
    <3>4. (\E q \in 1..(i + 1) : found[q].kind = "error") => d.status # "ok"
      <4>1. CASE e.kind = "error"
        BY <3>1, <4>1
      <4>2. CASE e.kind # "error"
        BY <2>00, <2>1, <3>1, <4>2 DEF c, e
      <4> QED BY <4>1, <4>2
    <3>5. HeldFor(i + 1)
      BY <2>4, <3>1, <3>2, <3>3, <3>4 DEF d
    <3> QED BY <2>0, <3>5
  <2> QED BY <2>8, <2>9
<1>5. HeldFor(n)
  <2> HIDE DEF S
  <2>1. \A i \in 0..n : i \in S
    BY <1>0, <1>3, <1>4, UpTo
  <2>2. n \in 0..n
    BY <1>0
  <2> QED BY <2>1, <2>2 DEF S
<1>6. AllConsumed(WithMessages(capture, messages), found) = g[n]
  BY <1>1 DEF base
<1> QED BY <1>0, <1>5, <1>6 DEF CaptureOf

-----------------------------------------------------------------------------
(* The types.                                                              *)

LEMMA CapturedTyped ==
  ASSUME ProtocolAssumption, capture \in CaptureType, NEW messages, NEW found \in Seq(Envs),
         \A q \in DOMAIN found : found[q].kind # "done"
  PROVE  Unmessaged(AllConsumed(WithMessages(capture, messages), found)) \in CaptureType
<1> DEFINE base == WithMessages(capture, messages)
           n == Len(found)
<1>0. n \in Nat /\ DOMAIN found = 1..n
  OBVIOUS
<1>1. PICK g : /\ DOMAIN g = 0..n /\ g[0] = base
               /\ \A i \in 1..n : g[i] = Consumed(g[i - 1], found[i])
               /\ g[n] = AllConsumed(base, found)
  <2> HIDE DEF base
  <2> QED BY EnvsRun
<1>2. CaptureOf(base) /\ CaptureShape(base)
  BY DEF WithMessages, CaptureOf, CaptureShape, Unmessaged, CaptureType
<1> HIDE DEF base, n
<1> DEFINE S == {i \in 0..n : CaptureOf(g[i]) /\ CaptureShape(g[i])}
<1>3. 0 \in S
  BY <1>0, <1>1, <1>2
<1>4. \A i \in 0..(n - 1) : i \in S => i + 1 \in S
  <2> TAKE i \in 0..(n - 1)
  <2> HAVE i \in S
  <2>0. i + 1 \in 1..n /\ i + 1 \in 0..n /\ (i + 1) - 1 = i
    BY <1>0
  <2>1. g[i + 1] = Consumed(g[i], found[i + 1]) /\ found[i + 1] \in Envs /\ found[i + 1].kind # "done"
    BY <1>0, <1>1, <2>0
  <2>2. CaptureOf(g[i + 1]) /\ CaptureShape(g[i + 1])
    BY <2>1, ConsumedIs DEF Keeps
  <2> QED BY <2>0, <2>2
<1>5. n \in S
  <2> HIDE DEF S
  <2>1. \A i \in 0..n : i \in S
    BY <1>0, <1>3, <1>4, UpTo
  <2> QED BY <1>0, <2>1
<1> QED BY <1>1, <1>5 DEF CaptureOf, base

LEMMA EnvelopeTyped ==
  ASSUME NEW e \in Cells, NEW env \in Envs
  PROVE  Envelope(e, env) \in Seq(Atoms) /\ Envelope(e, env) = <<Open(e), Closing(env)>>
         /\ Open(e) \in Atoms /\ Closing(env) \in Atoms
<1>1. Open(e) \in Atoms /\ Closing(env) \in Atoms
  BY DEF Atoms
<1> QED BY <1>1 DEF Envelope

LEMMA EnvTyped ==
  /\ \A v \in Nat : /\ Env("stdout", v) \in Envs /\ Env("error", v) \in Envs
                    /\ Env("checkpoint", v) \in Envs
  /\ Env("checkpoint-preserved", NoExec) \in Envs /\ Env("done", NoExec) \in Envs
  /\ Env("stdout", NoExec) \in Envs
BY DEF Env, Envs, NoExec

LEMMA AtomsTyped == Prompt \in Atoms /\ Text \in Atoms /\ LineEnd \in Atoms
BY DEF Atoms

LEMMA SaysTyped ==
  ASSUME pipe \in Seq(Atoms), said \in [Cells -> Seq(Envs)], host.exec \in Cells,
         NEW k \in {"stdout", "error"}, Says(k)
  PROVE  /\ pipe' \in Seq(Atoms) /\ said' \in [Cells -> Seq(Envs)]
         /\ \E v \in Nat : /\ Env(k, v) \in Envs /\ pipe' = pipe \o Envelope(host.exec, Env(k, v))
                           /\ said' = [said EXCEPT ![host.exec] = Append(@, Env(k, v))]
<1> DEFINE v == Len(said[host.exec]) + 1
<1>1. said[host.exec] \in Seq(Envs) /\ v \in Nat
  OBVIOUS
<1>2. pipe' = pipe \o Envelope(host.exec, Env(k, v)) /\ said' = [said EXCEPT ![host.exec] = Append(@, Env(k, v))]
  BY DEF Says
<1> HIDE DEF v
<1>3. Env(k, v) \in Envs
  BY <1>1, EnvTyped
<1>4. Envelope(host.exec, Env(k, v)) \in Seq(Atoms)
  BY <1>3, EnvelopeTyped
<1>5. pipe' \in Seq(Atoms)
  BY <1>2, <1>4
<1>6. Append(said[host.exec], Env(k, v)) \in Seq(Envs)
  BY <1>1, <1>3
<1>7. said' \in [Cells -> Seq(Envs)]
  BY <1>2, <1>6
<1> QED BY <1>1, <1>2, <1>3, <1>5, <1>7

LEMMA WritesTyped ==
  ASSUME pipe \in Seq(Atoms), host.exec \in Cells, NEW env \in Envs, Writes(env)
  PROVE  pipe' \in Seq(Atoms) /\ pipe' = pipe \o Envelope(host.exec, env) /\ said' = said
<1>1. Envelope(host.exec, env) \in Seq(Atoms)
  BY EnvelopeTyped
<1> QED BY <1>1 DEF Writes

LEMMA StatusTyped ==
  ASSUME RecordType(record), NEW e \in Cells,
         NEW s \in {"none", "running", "ok", "error", "interrupted"},
         record' = [record EXCEPT ![e].status = s]
  PROVE  RecordType(record') /\ record'[e].status = s /\ \A d \in Cells \ {e} : record'[d] = record[d]
BY DEF RecordType

LEMMA RecordTyped ==
  ASSUME RecordType(record), NEW e \in Cells,
         NEW s \in {"none", "running", "ok", "error", "interrupted"}, NEW ms,
         record' = [record EXCEPT ![e] = [status |-> s, messages |-> ms]]
  PROVE  RecordType(record') /\ record'[e].status = s /\ \A d \in Cells \ {e} : record'[d] = record[d]
BY DEF RecordType

LEMMA MessagesTyped ==
  ASSUME RecordType(record), NEW e \in Cells, NEW ms,
         record' = [record EXCEPT ![e].messages = ms]
  PROVE  RecordType(record') /\ \A d \in Cells : record'[d].status = record[d].status
<1>1. record' = [record EXCEPT ![e] = [record[e] EXCEPT !.messages = ms]]
  OBVIOUS
<1>2. [record[e] EXCEPT !.messages = ms] = [status |-> record[e].status, messages |-> ms]
  BY DEF RecordType
<1> QED BY <1>1, <1>2 DEF RecordType

LEMMA UnsetTyped ==
  ASSUME Unset
  PROVE  /\ active' = NoExec /\ held' = FALSE /\ lines' = NoLines /\ capture' = NoCapture
         /\ lines' \in LinesType /\ lines'.found = <<>> /\ capture' \in CaptureType
<1>1. <<>> \in Seq(Atoms) /\ <<>> \in Seq(Envs)
  OBVIOUS
<1>2. NoLines \in LinesType /\ NoLines.found = <<>>
  BY <1>1 DEF NoLines, LinesType
<1>3. NoCapture \in CaptureType
  BY DEF NoCapture, CaptureType, NoExec
<1> QED BY <1>2, <1>3 DEF Unset

LEMMA ExecsAre == ProtocolAssumption => \A e \in Cells : e \in Nat /\ e # NoExec /\ e >= 1
BY DEF ProtocolAssumption, Cells, NoExec

\* What a chunk makes of the collector and the capture has their types.
LEMMA ChunkTyped ==
  ASSUME ProtocolAssumption, pipe \in Seq(Atoms), lines \in LinesType, capture \in CaptureType,
         NEW n \in 1..Len(pipe), NEW messages
  PROVE  LET pushed == Pushed(SubSeq(pipe, 1, n))
             captured == AllConsumed(WithMessages(capture, messages), pushed.found)
         IN  /\ pushed \in LinesType /\ Unmessaged(captured) \in CaptureType
             /\ [pushed EXCEPT !.found = <<>>] \in LinesType
             /\ captured.status \in {"ok", "error", "interrupted"} /\ captured.commit \in Nat
<1> DEFINE pushed == Pushed(SubSeq(pipe, 1, n))
           captured == AllConsumed(WithMessages(capture, messages), pushed.found)
<1>1. pushed \in LinesType
  BY PushedIs
<1>2. pushed.found \in Seq(Envs) /\ \A q \in DOMAIN pushed.found : pushed.found[q].kind # "done"
  BY FoundIs, ZenonT(40)
<1> HIDE DEF pushed
<1>3. Unmessaged(captured) \in CaptureType
  BY <1>2, CapturedTyped
<1> HIDE DEF captured
<1>4. captured.status \in {"ok", "error", "interrupted"} /\ captured.commit \in Nat
  BY <1>3 DEF Unmessaged, CaptureType
<1>5. <<>> \in Seq(Envs)
  OBVIOUS
<1>6. [pushed EXCEPT !.found = <<>>] \in LinesType
  BY <1>1, <1>5 DEF LinesType
<1> QED BY <1>1, <1>3, <1>4, <1>6 DEF pushed, captured

LEMMA SpentTyped ==
  ASSUME spent \in [interrupts : Nat, faults : Nat, saves : Nat, writes : Nat],
         NEW what \in {"interrupts", "faults", "saves", "writes"}, Trouble(what)
  PROVE  spent' \in [interrupts : Nat, faults : Nat, saves : Nat, writes : Nat]
BY DEF Trouble

LEMMA DeadTyped ==
  ASSUME host \in HostType
  PROVE  /\ Dead \in HostType /\ Dead.at = "dead" /\ Dead.signalled = FALSE
         /\ Dead.exec = host.exec /\ Dead.holds = host.holds /\ Dead.loaded = host.loaded
         /\ Dead.told = host.told
BY DEF HostType, Dead

LEMMA EndsTyped ==
  ASSUME ProtocolAssumption, Types, active # NoExec, NEW c, NEW messages, Unmessaged(c) \in CaptureType,
         EndsExec(c, messages), pipe' \in Seq(Atoms)
  PROVE  Types'
<1>1. active \in Cells
  BY DEF Types
<1>2. PICK failed \in BOOLEAN :
       /\ failed => Commits(c)
       /\ LET bad == Unsettled(c) \/ failed IN
          /\ record' = [record EXCEPT ![active] =
                          [status |-> IF bad THEN "error" ELSE c.status,
                           messages |-> IF bad THEN Append(messages, Told("checkpoint"))
                                        ELSE messages]]
          /\ store' = IF Commits(c) /\ ~bad THEN [by |-> active, holds |-> c.commit] ELSE store
          /\ session' = IF bad THEN "quarantined" ELSE session
          /\ host' = IF bad THEN Dead ELSE host
       /\ IF failed THEN Trouble("faults") ELSE UNCHANGED spent
       /\ ended' = [ended EXCEPT ![active] = "done"]
       /\ Unset
       /\ UNCHANGED <<kind, stdin, intr, saved, said, left>>
  BY DEF EndsExec
<1> DEFINE bad == Unsettled(c) \/ failed
           s == IF bad THEN "error" ELSE c.status
           ms == IF bad THEN Append(messages, Told("checkpoint")) ELSE messages
<1>3. c.status \in {"ok", "error", "interrupted"} /\ c.commit \in Nat
  BY DEF Unmessaged, CaptureType
<1>4. s \in {"none", "running", "ok", "error", "interrupted"}
  BY <1>3
<1>5. record' = [record EXCEPT ![active] = [status |-> s, messages |-> ms]]
  BY <1>2
<1> HIDE DEF s, ms
<1>6. RecordType(record')
  BY <1>1, <1>4, <1>5, RecordTyped DEF Types
<1>7. host' = Dead \/ host' = host
  BY <1>2
<1>8. host' \in HostType /\ (host'.at \in {"cell", "ending", "done"} => host'.exec \in Cells)
  BY <1>7, DeadTyped DEF Types
<1>9. spent' \in [interrupts : Nat, faults : Nat, saves : Nat, writes : Nat]
  BY <1>2, SpentTyped DEF Types
<1>10. store' = [by |-> active, holds |-> c.commit] \/ store' = store
  BY <1>2
<1>11. store' = [by |-> store'.by, holds |-> store'.holds] /\ store'.by \in {NoExec} \cup Cells /\ store'.holds \in Nat
  BY <1>1, <1>3, <1>10, SMTT(20) DEF Types
<1>12. ended' \in [Cells -> {"no", "done", "cut"}]
  BY <1>1, <1>2 DEF Types
<1>13. /\ active' = NoExec /\ held' = FALSE /\ lines' \in LinesType /\ lines'.found = <<>>
       /\ capture' \in CaptureType
  BY <1>2, UnsetTyped
<1>14. session' \in {"live", "quarantined"}
  BY <1>2 DEF Types
<1>15. kind' = kind /\ stdin' = stdin /\ intr' = intr /\ saved' = saved /\ said' = said /\ left' = left
  BY <1>2
<1> QED BY <1>6, <1>8, <1>9, <1>11, <1>12, <1>13, <1>14, <1>15 DEF Types

LEMMA TypesInit == ProtocolAssumption /\ ProtocolInit => Types
<1> SUFFICES ASSUME ProtocolAssumption, ProtocolInit PROVE Types
  OBVIOUS
<1>1. <<>> \in Seq(Atoms) /\ <<>> \in Seq(Envs)
  OBVIOUS
<1>2. lines \in LinesType /\ lines.found = <<>> /\ capture \in CaptureType /\ host \in HostType
  BY <1>1 DEF ProtocolInit, NoLines, LinesType, NoCapture, CaptureType, Fresh, HostType, NoExec
<1>3. RecordType(record)
  BY DEF ProtocolInit, RecordType
<1>4. spent \in [interrupts : Nat, faults : Nat, saves : Nat, writes : Nat]
  BY DEF ProtocolInit
<1>5. said \in [Cells -> Seq(Envs)] /\ left \in [Cells -> Nat] /\ ended \in [Cells -> {"no", "done", "cut"}]
  BY <1>1 DEF ProtocolInit, NoExec
<1> QED BY <1>1, <1>2, <1>3, <1>4, <1>5 DEF ProtocolInit, Types, Fresh, NoExec

LEMMA TypesNext == ProtocolAssumption /\ Types /\ [ProtocolNext]_protocolVars => Types'
<1> SUFFICES ASSUME ProtocolAssumption, Types, [ProtocolNext]_protocolVars PROVE Types'
  OBVIOUS
<1> USE DEF Types
<1>e. \A e \in Cells : e \in Nat /\ e # NoExec
  BY ExecsAre
<1>f. <<>> \in Seq(Atoms) /\ <<>> \in Seq(Envs)
  OBVIOUS
<1>g. Fresh \in HostType /\ Fresh.at = "idle"
  BY DEF Fresh, HostType, NoExec
<1>0. CASE UNCHANGED protocolVars
  BY <1>0 DEF protocolVars, RecordType
<1>1. CASE HostReads
  <2>1. stdin \in Cells /\ store.holds \in Nat /\ host.holds \in Nat
    BY <1>1 DEF HostReads, HostType
  <2>2. PICK h \in Nat : host' = [host EXCEPT !.at = "cell", !.exec = stdin, !.failed = FALSE,
                                              !.prints = 0, !.loaded = TRUE, !.holds = h]
    BY <1>1, <2>1 DEF HostReads
  <2>3. host' \in HostType /\ host'.exec \in Cells
    BY <2>1, <2>2 DEF HostType
  <2> QED BY <1>1, <2>3 DEF HostReads, Untouched
<1>2. CASE Prints
  <2>1. Says("stdout") /\ host.exec \in Cells
    BY <1>2 DEF Prints
  <2>2. pipe' \in Seq(Atoms) /\ said' \in [Cells -> Seq(Envs)]
    BY <2>1, SaysTyped
  <2>3. PICK h \in {host.holds, host.exec} : host' = [host EXCEPT !.prints = @ + 1, !.holds = h]
    BY <1>2 DEF Prints
  <2>4. host' \in HostType /\ host'.exec = host.exec
    <3>1. h \in Nat
      BY <1>e, <2>1 DEF HostType
    <3>2. host \in HostType /\ host.prints + 1 \in Nat
      BY DEF HostType
    <3>3. host' = [[host EXCEPT !.prints = host.prints + 1] EXCEPT !.holds = h]
      BY <2>3
    <3>4. [host EXCEPT !.prints = host.prints + 1] \in HostType
      BY <3>2 DEF HostType
    <3> QED BY <3>1, <3>3, <3>4 DEF HostType
  <2> QED BY <1>2, <2>1, <2>2, <2>4 DEF Prints, Untouched
<1>3. CASE CellEnds
  <2>1. host' \in HostType /\ host'.exec \in Cells
    BY <1>3 DEF CellEnds, HostType
  <2> QED BY <1>3, <2>1 DEF CellEnds, Untouched
<1>4. CASE CellFails
  <2>1. Says("error") /\ host.exec \in Cells
    BY <1>4 DEF CellFails
  <2>2. pipe' \in Seq(Atoms) /\ said' \in [Cells -> Seq(Envs)]
    BY <2>1, SaysTyped
  <2>3. host' \in HostType /\ host'.exec \in Cells
    BY <1>4, <2>1 DEF CellFails, HostType
  <2> QED BY <1>4, <2>2, <2>3 DEF CellFails, Untouched
<1>5. CASE TellsCheckpoint
  <2>1. host.exec \in Cells /\ host.holds \in Nat
    BY <1>5 DEF TellsCheckpoint, HostType
  <2>2. PICK env \in {Env("checkpoint-preserved", NoExec), Env("checkpoint", host.holds)} : Writes(env)
    BY <1>5 DEF TellsCheckpoint
  <2>3. env \in Envs
    BY <2>1, <2>2, EnvTyped
  <2>4. pipe' \in Seq(Atoms) /\ said' = said
    BY <2>1, <2>2, <2>3, WritesTyped
  <2>5. left' = left \/ left' = [left EXCEPT ![host.exec] = host.holds]
    BY <1>5 DEF TellsCheckpoint
  <2>6. left' \in [Cells -> Nat]
    BY <2>1, <2>5
  <2>7. host' \in HostType /\ host'.exec \in Cells
    BY <1>5, <2>1 DEF TellsCheckpoint, HostType
  <2> QED BY <1>5, <2>4, <2>6, <2>7 DEF TellsCheckpoint, Untouched
<1>6. CASE CheckpointFails
  <2>1. host.exec \in Cells
    BY <1>6 DEF CheckpointFails
  <2> DEFINE v == Len(said[host.exec]) + 1
             error == Env("error", v)
             rest == IF PreservesOnFailure(kind) THEN Envelope(host.exec, Env("checkpoint-preserved", NoExec)) ELSE <<>>
  <2>2. said[host.exec] \in Seq(Envs) /\ v \in Nat
    BY <2>1
  <2>3. said' = [said EXCEPT ![host.exec] = Append(@, error)] /\ pipe' = pipe \o Envelope(host.exec, error) \o rest
    BY <1>6 DEF CheckpointFails
  <2>4. error \in Envs
    <3> HIDE DEF v
    <3> QED BY <2>2, EnvTyped
  <2>5. rest \in Seq(Atoms)
    BY <1>f, <2>1, EnvTyped, EnvelopeTyped
  <2> HIDE DEF error, rest, v
  <2>6. Envelope(host.exec, error) \in Seq(Atoms)
    BY <2>1, <2>4, EnvelopeTyped
  <2>7. pipe' \in Seq(Atoms)
    BY <2>3, <2>5, <2>6
  <2>8. Append(said[host.exec], error) \in Seq(Envs)
    BY <2>2, <2>4
  <2>9. said' \in [Cells -> Seq(Envs)]
    BY <2>3, <2>8
  <2>10. host' \in HostType /\ host'.exec \in Cells
    BY <1>6, <2>1 DEF CheckpointFails, HostType
  <2>11. spent' \in [interrupts : Nat, faults : Nat, saves : Nat, writes : Nat]
    BY <1>6, SpentTyped DEF CheckpointFails
  <2> QED BY <1>6, <2>7, <2>9, <2>10, <2>11 DEF CheckpointFails, Untouched
<1>7. CASE SaysDone
  <2>1. host.exec \in Cells /\ Env("done", NoExec) \in Envs /\ Writes(Env("done", NoExec))
    BY <1>7, EnvTyped DEF SaysDone
  <2>2. pipe' \in Seq(Atoms) /\ said' = said
    BY <2>1, WritesTyped
  <2>3. host' \in HostType /\ host'.exec \in Cells
    BY <1>7, <2>1 DEF SaysDone, HostType
  <2> QED BY <1>7, <2>2, <2>3 DEF SaysDone, Untouched
<1>8. CASE Prompts
  <2>1. pipe' \in Seq(Atoms)
    BY <1>8, AtomsTyped DEF Prompts
  <2>2. host' \in HostType /\ host'.at = "idle"
    BY <1>8, <1>g DEF Prompts, HostType
  <2> QED BY <1>8, <2>1, <2>2 DEF Prompts, Untouched
<1>9. CASE TakesSignal
  <2>1. /\ pipe' \in Seq(Atoms) /\ said' \in [Cells -> Seq(Envs)] /\ host' \in HostType
        /\ stdin' \in {NoExec} \cup Cells /\ (host'.at \in {"cell", "ending", "done"} => host'.exec \in Cells)
    <3>1. CASE /\ kind = "python" /\ host.at = "cell"
               /\ Says("error")
               /\ host' = [host EXCEPT !.at = "ending", !.failed = TRUE, !.signalled = FALSE]
               /\ UNCHANGED stdin
      <4>1. host.exec \in Cells
        BY <3>1
      <4>2. pipe' \in Seq(Atoms) /\ said' \in [Cells -> Seq(Envs)]
        BY <3>1, <4>1, SaysTyped
      <4> QED BY <3>1, <4>1, <4>2 DEF HostType
    <3>2. CASE /\ kind = "bun" /\ host.at \in {"cell", "idle"}
               /\ host' = [host EXCEPT !.at = "prompt", !.signalled = FALSE]
               /\ stdin' = IF host.at = "idle" /\ stdin = intr THEN NoExec ELSE stdin
               /\ UNCHANGED <<pipe, said>>
      BY <3>2 DEF HostType
    <3>3. CASE /\ kind = "dotnet" \/ (kind = "python" /\ host.at # "cell")
               /\ host' = Dead
               /\ UNCHANGED <<stdin, pipe, said>>
      BY <3>3, DeadTyped
    <3> QED BY <1>9, <3>1, <3>2, <3>3 DEF TakesSignal
  <2> QED BY <1>9, <2>1 DEF TakesSignal, Untouched
<1>10. CASE HostDies
  <2>1. spent' \in [interrupts : Nat, faults : Nat, saves : Nat, writes : Nat]
    BY <1>10, SpentTyped DEF HostDies
  <2> QED BY <1>10, <2>1, DeadTyped DEF HostDies, Untouched
<1>11. CASE LeftoverWrites
  <2>1. spent' \in [interrupts : Nat, faults : Nat, saves : Nat, writes : Nat]
    BY <1>11, SpentTyped DEF LeftoverWrites
  <2>2. PICK written : /\ pipe' = pipe \o written
                       /\ written \in {<<Text>>, <<Text, LineEnd>>} \cup
                           {Envelope(e, Env("stdout", NoExec)) :
                              e \in {b \in Cells : kind = "bun" /\ record[b].status = "interrupted"}}
    BY <1>11 DEF LeftoverWrites
  <2>3. written \in Seq(Atoms)
    <3>1. <<Text>> \in Seq(Atoms) /\ <<Text, LineEnd>> \in Seq(Atoms)
      BY AtomsTyped
    <3>2. \A e \in Cells : Envelope(e, Env("stdout", NoExec)) \in Seq(Atoms)
      BY EnvTyped, EnvelopeTyped
    <3>3. CASE written \in {<<Text>>, <<Text, LineEnd>>}
      BY <3>1, <3>3
    <3>4. CASE written \notin {<<Text>>, <<Text, LineEnd>>}
      <4>1. PICK e \in Cells : written = Envelope(e, Env("stdout", NoExec))
        BY <2>2, <3>4
      <4> QED BY <3>2, <4>1
    <3> QED BY <3>3, <3>4
  <2>4. pipe' \in Seq(Atoms)
    BY <2>2, <2>3
  <2> QED BY <1>11, <2>1, <2>4 DEF LeftoverWrites, Untouched
<1>12. CASE \E e \in Cells : Start(e)
  <2>1. PICK e \in Cells : Start(e)
    BY <1>12
  <2>2. RecordType(record')
    BY <2>1, StatusTyped DEF Start
  <2>3. NoLines \in LinesType /\ NoLines.found = <<>> /\ NoCapture \in CaptureType
    BY <1>f DEF NoLines, LinesType, NoCapture, CaptureType, NoExec
  <2> QED BY <2>1, <2>2, <2>3 DEF Start
<1>13. CASE ReadsChunk
  <2>1. PICK n \in 1..Len(pipe) :
       /\ pipe' = SubSeq(pipe, n + 1, Len(pipe))
       /\ IF active = NoExec \/ held \/ session = "quarantined"
          THEN UNCHANGED <<kind, host, stdin, active, held, lines, capture, record, intr, store,
                           session, saved, spent, said, left, ended>>
          ELSE LET pushed == Pushed(SubSeq(pipe, 1, n))
                   captured == AllConsumed(WithMessages(capture, record[active].messages),
                                           pushed.found)
               IN  IF IsDone(pushed) /\ ~saved THEN EndsExec(captured, captured.messages)
                   ELSE    /\ lines' = [pushed EXCEPT !.found = <<>>]
                           /\ capture' = Unmessaged(captured)
                           /\ record' = [record EXCEPT ![active].messages = captured.messages]
                           /\ held' = IsDone(pushed)
                           /\ UNCHANGED <<kind, host, stdin, active, intr, store, session,
                                          saved, spent, said, left, ended>>
    BY <1>13 DEF ReadsChunk
  <2>2. pipe # <<>> /\ n \in 1..Len(pipe)
    BY <1>13, SMTT(20) DEF ReadsChunk
  <2>3. pipe' \in Seq(Atoms)
    <3>1. pipe \in Seq(Atoms)
      BY DEF Types
    <3>2. SubSeq(pipe, n + 1, Len(pipe)) \in Seq(Atoms)
      BY <2>2, <3>1, RestTyped
    <3> QED BY <2>1, <3>2
  <2>4. CASE active = NoExec \/ held \/ session = "quarantined"
    BY <2>1, <2>3, <2>4
  <2>5. CASE ~(active = NoExec \/ held \/ session = "quarantined")
    <3> DEFINE pushed == Pushed(SubSeq(pipe, 1, n))
               captured == AllConsumed(WithMessages(capture, record[active].messages), pushed.found)
    <3>1. /\ pushed \in LinesType /\ Unmessaged(captured) \in CaptureType
          /\ [pushed EXCEPT !.found = <<>>] \in LinesType
      BY <2>2, ChunkTyped
    <3> HIDE DEF pushed, captured
    <3>2. CASE IsDone(pushed) /\ ~saved
      <4>1. EndsExec(captured, captured.messages)
        BY <2>1, <2>5, <3>2 DEF pushed, captured
      <4> QED BY <2>3, <2>5, <3>1, <4>1, EndsTyped
    <3>3. CASE ~(IsDone(pushed) /\ ~saved)
      <4>1. /\ lines' = [pushed EXCEPT !.found = <<>>]
            /\ capture' = Unmessaged(captured)
            /\ record' = [record EXCEPT ![active].messages = captured.messages]
            /\ held' = IsDone(pushed)
            /\ UNCHANGED <<kind, host, stdin, active, intr, store, session,
                           saved, spent, said, left, ended>>
        BY <2>1, <2>5, <3>3 DEF pushed, captured
      <4>2. RecordType(record')
        BY <2>5, <4>1, MessagesTyped
      <4>3. lines'.found = <<>>
        BY <3>1, <4>1 DEF LinesType
      <4>4. IsDone(pushed) \in BOOLEAN
        BY <3>1 DEF IsDone, LinesType
      <4> QED BY <2>3, <2>5, <3>1, <4>1, <4>2, <4>3, <4>4
    <3> QED BY <3>2, <3>3
  <2> QED BY <2>4, <2>5
<1>14. CASE EndsHeld
  <2>1. active # NoExec /\ EndsExec(capture, record[active].messages) /\ pipe' = pipe
    BY <1>14 DEF EndsHeld
  <2>2. Unmessaged(capture) \in CaptureType
    BY DEF Unmessaged, CaptureType
  <2>3. pipe' \in Seq(Atoms)
    BY <2>1
  <2> QED BY <2>1, <2>2, <2>3, EndsTyped
<1>15. CASE HearsOfExit
  <2>1. host' \in HostType /\ host'.at = "dead"
    BY <1>15 DEF HearsOfExit, HostType
  <2>2. CASE intr # NoExec \/ session = "quarantined"
    <3>1. record' = record /\ RecordType(record')
      BY <1>15, <2>2 DEF HearsOfExit
    <3>2. /\ session' = session /\ active' = active /\ held' = held /\ lines' = lines
          /\ capture' = capture /\ ended' = ended
      BY <1>15, <2>2 DEF HearsOfExit
    <3>3. /\ kind' = kind /\ stdin' = stdin /\ pipe' = pipe /\ intr' = intr /\ store' = store
          /\ saved' = saved /\ spent' = spent /\ said' = said /\ left' = left
      BY <1>15 DEF HearsOfExit
    <3> QED BY <2>1, <3>1, <3>2, <3>3
  <2>3. CASE ~(intr # NoExec \/ session = "quarantined")
    <3>1. Unset /\ session' = "quarantined"
      BY <1>15, <2>3 DEF HearsOfExit
    <3>2. RecordType(record')
      <4>1. CASE active = NoExec
        BY <1>15, <2>3, <4>1 DEF HearsOfExit
      <4>2. CASE active # NoExec
        <5>1. PICK ms : ms = Append(record[active].messages, Told("runtime exited"))
          OBVIOUS
        <5>2. record' = [record EXCEPT ![active] = [status |-> "error", messages |-> ms]]
          BY <1>15, <2>3, <4>2, <5>1 DEF HearsOfExit
        <5> QED BY <4>2, <5>2, RecordTyped
      <4> QED BY <4>1, <4>2
    <3>3. ended' \in [Cells -> {"no", "done", "cut"}]
      BY <1>15, <2>3 DEF HearsOfExit
    <3> QED BY <1>15, <2>1, <3>1, <3>2, <3>3, UnsetTyped DEF HearsOfExit
  <2> QED BY <2>2, <2>3
<1>16. CASE Interrupt
  <2>1. capture' \in CaptureType
    BY <1>16 DEF Interrupt, CaptureType
  <2>2. host' \in HostType /\ host'.at = host.at /\ host'.exec = host.exec
    BY <1>16 DEF Interrupt, HostType, Signals
  <2>3. spent' \in [interrupts : Nat, faults : Nat, saves : Nat, writes : Nat]
    BY <1>16, SpentTyped DEF Interrupt
  <2> QED BY <1>16, <2>1, <2>2, <2>3 DEF Interrupt
<1>17. CASE SoftInterrupt
  <2>1. active \in Cells /\ Finalized
    BY <1>17 DEF SoftInterrupt
  <2>2. RecordType(record') /\ ended' \in [Cells -> {"no", "done", "cut"}]
    BY <2>1, StatusTyped DEF Finalized
  <2> QED BY <1>17, <2>1, <2>2, UnsetTyped DEF SoftInterrupt, Finalized
<1>18. CASE RecycleInterrupt
  <2>1. active \in Cells /\ Finalized
    BY <1>18 DEF RecycleInterrupt
  <2>2. RecordType(record') /\ ended' \in [Cells -> {"no", "done", "cut"}]
    BY <2>1, StatusTyped DEF Finalized
  <2> QED BY <1>f, <1>g, <1>18, <2>1, <2>2, UnsetTyped DEF RecycleInterrupt, Finalized, NewHost
<1>19. CASE LateInterrupt
  BY <1>19 DEF LateInterrupt
<1>20. CASE ResetsHost
  <2>1. CASE active # NoExec /\ Finalized
    <3>1. active \in Cells /\ Finalized
      BY <2>1
    <3>2. RecordType(record') /\ ended' \in [Cells -> {"no", "done", "cut"}]
      BY <3>1, StatusTyped DEF Finalized
    <3> QED BY <1>f, <1>g, <1>20, <3>1, <3>2, UnsetTyped DEF ResetsHost, Finalized, NewHost
  <2>2. CASE UNCHANGED <<active, held, lines, capture, record, ended>>
    BY <1>f, <1>g, <1>20, <2>2 DEF ResetsHost, NewHost
  <2> QED BY <1>20, <2>1, <2>2 DEF ResetsHost
<1>21. CASE Save
  <2>1. spent' \in [interrupts : Nat, faults : Nat, saves : Nat, writes : Nat]
    BY <1>21, SpentTyped DEF Save
  <2> QED BY <1>21, <2>1 DEF Save
<1>22. CASE RunsOn
  BY <1>22 DEF RunsOn
<1> QED BY <1>0, <1>1, <1>2, <1>3, <1>4, <1>5, <1>6, <1>7, <1>8, <1>9, <1>10, <1>11, <1>12,
           <1>13, <1>14, <1>15, <1>16, <1>17, <1>18, <1>19, <1>20, <1>21, <1>22 DEF ProtocolNext

\* Every variable keeps its type.
THEOREM ProtocolTypeCorrect == ProtocolSpec => []Types
<1>1. ProtocolAssumption
  BY ProtocolAssumption
<1> QED BY <1>1, TypesInit, TypesNext, PTL DEF ProtocolSpec

-----------------------------------------------------------------------------
(* The turns of an exec.                                                   *)

LEMMA AppendIs ==
  ASSUME pipe \in Seq(Atoms), NEW w \in Seq(Atoms), pipe' = pipe \o w
  PROVE  /\ Len(pipe) \in Nat /\ Len(pipe') = Len(pipe) + Len(w)
         /\ DOMAIN pipe = 1..Len(pipe) /\ DOMAIN pipe' = 1..(Len(pipe) + Len(w))
         /\ \A i \in DOMAIN pipe : i \in DOMAIN pipe' /\ pipe'[i] = pipe[i]
         /\ \A i \in DOMAIN pipe' : i \in DOMAIN pipe
              \/ (i > Len(pipe) /\ i - Len(pipe) \in DOMAIN w /\ pipe'[i] = w[i - Len(pipe)])
OBVIOUS

LEMMA DropIs ==
  ASSUME pipe \in Seq(Atoms), NEW n \in 1..Len(pipe), pipe' = SubSeq(pipe, n + 1, Len(pipe))
  PROVE  /\ Len(pipe) \in Nat /\ Len(pipe') = Len(pipe) - n /\ DOMAIN pipe = 1..Len(pipe)
         /\ DOMAIN pipe' = 1..(Len(pipe) - n)
         /\ \A i \in DOMAIN pipe' : i + n \in DOMAIN pipe /\ pipe'[i] = pipe[i + n]
OBVIOUS

\* What is not told in what is appended changes nothing of what the pipe tells.
LEMMA NothingTold ==
  ASSUME pipe \in Seq(Atoms), NEW w \in Seq(Atoms), pipe' = pipe \o w,
         \A i \in DOMAIN w : ~IsEnv(w[i], Telling)
  PROVE  /\ InPipe(Telling)' => InPipe(Telling)
         /\ InPipe({"done"})' => InPipe({"done"})
         /\ DoneIsLast => DoneIsLast'
         /\ NoPromptYet /\ lines' = lines /\ (\A i \in DOMAIN w : w[i] # Prompt) => NoPromptYet'
<1>1. \A x : IsEnv(x, {"done"}) => IsEnv(x, Telling)
  BY DEF IsEnv, Telling
<1>2. /\ Len(pipe) \in Nat /\ DOMAIN pipe = 1..Len(pipe) /\ DOMAIN pipe' = 1..(Len(pipe) + Len(w))
      /\ \A i \in DOMAIN pipe : i \in DOMAIN pipe' /\ pipe'[i] = pipe[i]
      /\ \A i \in DOMAIN pipe' : i \in DOMAIN pipe
              \/ (i > Len(pipe) /\ i - Len(pipe) \in DOMAIN w /\ pipe'[i] = w[i - Len(pipe)])
  BY AppendIs
<1>3. \A i \in DOMAIN pipe' : IsEnv(pipe'[i], Telling) => i \in DOMAIN pipe /\ pipe'[i] = pipe[i]
  BY <1>2
<1>4. \A i \in DOMAIN pipe' : IsEnv(pipe'[i], {"done"}) => i \in DOMAIN pipe /\ pipe'[i] = pipe[i]
  BY <1>1, <1>3
<1>5. InPipe(Telling)' => InPipe(Telling)
  BY <1>3 DEF InPipe, IsEnv
<1>6. InPipe({"done"})' => InPipe({"done"})
  BY <1>4 DEF InPipe, IsEnv
<1>7. DoneIsLast => DoneIsLast'
  BY <1>3, <1>4 DEF DoneIsLast, IsEnv
<1>8. ASSUME NoPromptYet, lines' = lines, \A i \in DOMAIN w : w[i] # Prompt
      PROVE  NoPromptYet'
  <2>1. \A i \in DOMAIN pipe' : pipe'[i] = Prompt => i \in DOMAIN pipe /\ pipe'[i] = pipe[i]
    BY <1>2, <1>8
  <2> QED BY <1>4, <1>8, <2>1 DEF NoPromptYet, IsEnv
<1> QED BY <1>5, <1>6, <1>7, <1>8

\* What is dropped leaves the pipe telling less.
LEMMA LessTold ==
  ASSUME pipe \in Seq(Atoms), NEW n \in 1..Len(pipe), pipe' = SubSeq(pipe, n + 1, Len(pipe))
  PROVE  /\ \A kinds : (\E i \in DOMAIN pipe' : IsEnv(pipe'[i], kinds)) => InPipe(kinds)
         /\ DoneIsLast => DoneIsLast'
         /\ NoPromptYet /\ lines' = lines => NoPromptYet'
<1>2. /\ Len(pipe) \in Nat /\ Len(pipe') = Len(pipe) - n /\ DOMAIN pipe = 1..Len(pipe)
      /\ DOMAIN pipe' = 1..(Len(pipe) - n)
      /\ \A i \in DOMAIN pipe' : i + n \in DOMAIN pipe /\ pipe'[i] = pipe[i + n]
  BY DropIs
<1>3. \A i, j \in DOMAIN pipe' : i < j => i + n < j + n
  BY <1>2
<1>4. ASSUME DoneIsLast PROVE DoneIsLast'
  <2> SUFFICES ASSUME NEW i \in DOMAIN pipe', NEW j \in DOMAIN pipe', i < j, IsEnv(pipe'[i], {"done"})
               PROVE  ~IsEnv(pipe'[j], Telling)
    BY DEF DoneIsLast, IsEnv
  <2>1. i + n \in DOMAIN pipe /\ j + n \in DOMAIN pipe /\ i + n < j + n
    BY <1>2, <1>3
  <2>2. pipe'[i] = pipe[i + n] /\ pipe'[j] = pipe[j + n]
    BY <1>2
  <2> QED BY <1>4, <2>1, <2>2 DEF DoneIsLast
<1>5. ASSUME NoPromptYet, lines' = lines PROVE NoPromptYet'
  <2>1. ~lines'.prompted
    BY <1>5 DEF NoPromptYet
  <2>2. ASSUME NEW i \in DOMAIN pipe', NEW j \in DOMAIN pipe', i < j, IsEnv(pipe'[i], {"done"})
        PROVE  pipe'[j] # Prompt
    <3>1. i + n \in DOMAIN pipe /\ j + n \in DOMAIN pipe /\ i + n < j + n
      BY <1>2, <1>3, <2>2
    <3>2. pipe'[i] = pipe[i + n] /\ pipe'[j] = pipe[j + n]
      BY <1>2
    <3>3. IsEnv(pipe[i + n], {"done"})
      BY <2>2, <3>2
    <3>4. pipe[j + n] # Prompt
      BY <1>5, <3>1, <3>3 DEF NoPromptYet
    <3> QED BY <3>2, <3>4
  <2>3. lines'.done => \A i \in DOMAIN pipe' : pipe'[i] # Prompt
    BY <1>2, <1>5 DEF NoPromptYet
  <2>4. lines'.done => \A i \in DOMAIN lines'.line : lines'.line[i] # Prompt
    BY <1>5 DEF NoPromptYet
  <2> QED BY <2>1, <2>2, <2>3, <2>4 DEF NoPromptYet, IsEnv
<1>6. \A kinds : (\E i \in DOMAIN pipe' : IsEnv(pipe'[i], kinds)) => InPipe(kinds)
  BY <1>2 DEF InPipe
<1> QED BY <1>4, <1>5, <1>6

\* What is told, where nothing was told to be done before.
LEMMA FirstTold ==
  ASSUME pipe \in Seq(Atoms), NEW w \in Seq(Atoms), pipe' = pipe \o w, ~InPipe({"done"}),
         \A i \in DOMAIN w : IsEnv(w[i], {"done"}) => i = Len(w)
  PROVE  /\ DoneIsLast'
         /\ \A i, j \in DOMAIN pipe' : i < j /\ IsEnv(pipe'[i], {"done"}) => pipe'[j] # Prompt
         /\ (\A i \in DOMAIN w : ~IsEnv(w[i], {"done"})) => ~InPipe({"done"})'
<1>2. /\ Len(pipe) \in Nat /\ DOMAIN pipe = 1..Len(pipe) /\ DOMAIN pipe' = 1..(Len(pipe) + Len(w))
      /\ \A i \in DOMAIN pipe : i \in DOMAIN pipe' /\ pipe'[i] = pipe[i]
      /\ \A i \in DOMAIN pipe' : i \in DOMAIN pipe
              \/ (i > Len(pipe) /\ i - Len(pipe) \in DOMAIN w /\ pipe'[i] = w[i - Len(pipe)])
  BY AppendIs
<1>3. \A i \in DOMAIN pipe' : IsEnv(pipe'[i], {"done"}) =>
        i - Len(pipe) = Len(w) /\ i - Len(pipe) \in DOMAIN w /\ pipe'[i] = w[i - Len(pipe)]
  BY <1>2 DEF InPipe
<1>4. \A i, j \in DOMAIN pipe' : i < j => ~IsEnv(pipe'[i], {"done"})
  BY <1>2, <1>3, SMTT(20)
<1> QED BY <1>3, <1>4 DEF DoneIsLast, InPipe, IsEnv

\* An envelope of no telling, and the host's.
LEMMA EnvelopeTells ==
  ASSUME NEW e \in Cells, NEW env \in Envs
  PROVE  LET w == Envelope(e, env) IN
         /\ Len(w) = 2 /\ DOMAIN w = 1..2 /\ w[1] = Open(e) /\ w[2] = Closing(env)
         /\ \A i \in DOMAIN w : w[i] # Prompt
         /\ \A kinds : \A i \in DOMAIN w : IsEnv(w[i], kinds) <=> i = 2 /\ env.kind \in kinds
<1> DEFINE w == Envelope(e, env)
<1>1. Len(w) = 2 /\ DOMAIN w = 1..2 /\ w[1] = Open(e) /\ w[2] = Closing(env)
  BY EnvelopeTyped
<1>2. Open(e).a = "open" /\ Closing(env).a = "close" /\ Closing(env).env = env /\ Prompt.a = "prompt"
  BY DEF Open, Closing, Prompt
<1> HIDE DEF w
<1>3. \A i \in DOMAIN w : i = 1 \/ i = 2
  BY <1>1
<1>4. \A i \in DOMAIN w : w[i] # Prompt
  BY <1>1, <1>2, <1>3
<1>5. \A kinds : \A i \in DOMAIN w : IsEnv(w[i], kinds) <=> i = 2 /\ env.kind \in kinds
  BY <1>1, <1>2, <1>3 DEF IsEnv
<1> QED BY <1>1, <1>4, <1>5 DEF w

Turned == Turns /\ Tellings

\* What ends an exec: it is told to be done and its host's prompt was seen, so that the
\* host is at its prompt, or gone, and nothing of the exec is to be read.
LEMMA EndsTurned ==
  ASSUME ProtocolAssumption, Types, Turned, active # NoExec, NEW c, NEW messages,
         Unmessaged(c) \in CaptureType, EndsExec(c, messages),
         DoneTold, ~NoPromptYet, ~InPipe(Telling)', DoneIsLast'
  PROVE  Turned'
<1>1. active \in Cells /\ RecordType(record) /\ host \in HostType
  BY DEF Types
<1>2. stdin = NoExec /\ host.at \in {"prompt", "idle", "dead"} /\ (host.at = "prompt" => host.exec = NoExec)
  BY DEF Turned, Tellings
<1>3. PICK failed \in BOOLEAN :
       /\ LET bad == Unsettled(c) \/ failed IN
          /\ record' = [record EXCEPT ![active] =
                          [status |-> IF bad THEN "error" ELSE c.status,
                           messages |-> IF bad THEN Append(messages, Told("checkpoint"))
                                        ELSE messages]]
          /\ session' = IF bad THEN "quarantined" ELSE session
          /\ host' = IF bad THEN Dead ELSE host
       /\ Unset
       /\ UNCHANGED <<kind, stdin>>
  BY DEF EndsExec
<1> DEFINE bad == Unsettled(c) \/ failed
           s == IF bad THEN "error" ELSE c.status
           ms == IF bad THEN Append(messages, Told("checkpoint")) ELSE messages
<1>4. s \in {"ok", "error", "interrupted"}
  BY DEF Unmessaged, CaptureType
<1>5. record' = [record EXCEPT ![active] = [status |-> s, messages |-> ms]]
  BY <1>3
<1> HIDE DEF s, ms
<1>6. record'[active].status = s /\ \A d \in Cells \ {active} : record'[d] = record[d]
  BY <1>1, <1>4, <1>5, RecordTyped
<1>7. \A e \in Cells : record'[e].status # "running"
  BY <1>4, <1>6 DEF Turned, Turns
<1>8. active' = NoExec /\ held' = FALSE /\ lines' = NoLines /\ capture' = NoCapture
  BY <1>3, UnsetTyped
<1>9. host'.at = "dead" \/ (host' = host /\ session' = session)
  BY <1>1, <1>3, DeadTyped
<1>10. session' = "quarantined" => host'.at = "dead"
  <2>1. CASE bad
    BY <1>1, <1>3, <2>1, DeadTyped
  <2>2. CASE ~bad
    BY <1>3, <2>2 DEF Turned, Turns
  <2> QED BY <2>1, <2>2
<1>11. stdin' = NoExec /\ kind' = kind
  BY <1>2, <1>3
<1>12. Turns'
  BY <1>2, <1>7, <1>8, <1>9, <1>10, <1>11 DEF Turned, Turns, Running, NoLines
<1>13. Tellings'
  BY <1>2, <1>8, <1>9 DEF Tellings, DoneTold, NoLines, InPipe
<1> QED BY <1>12, <1>13 DEF Turned

LEMMA TurnedInit == ProtocolAssumption /\ ProtocolInit => Turned
<1> SUFFICES ASSUME ProtocolAssumption, ProtocolInit PROVE Turned
  OBVIOUS
<1>1. host.at = "idle" /\ host.exec = NoExec /\ active = NoExec /\ stdin = NoExec /\ pipe = <<>> /\ held = FALSE
      /\ session = "live" /\ lines = NoLines /\ capture = NoCapture
      /\ \A e \in Cells : record[e].status = "none"
  BY DEF ProtocolInit, Fresh
<1>2. lines.done = FALSE /\ lines.prompted = FALSE
  BY <1>1 DEF NoLines
<1>3. DOMAIN pipe = {}
  BY <1>1
<1>4. Turns
  BY <1>1, <1>2 DEF Turns, Running
<1>5. Tellings
  BY <1>1, <1>2, <1>3 DEF Tellings, DoneTold, DoneIsLast, InPipe
<1> QED BY <1>4, <1>5 DEF Turned

\* An envelope the host writes of the exec whose cell it runs.
LEMMA WritesTurned ==
  ASSUME ProtocolAssumption, Types, Turned, host.at \in {"cell", "ending", "done"},
         NEW w \in Seq(Atoms), pipe' = pipe \o w, \A i \in DOMAIN w : ~IsEnv(w[i], {"done"}),
         host'.exec = host.exec, host'.at \in {"cell", "ending", "done"}, stdin' = stdin, Untouched
  PROVE  Turned'
<1>1. pipe \in Seq(Atoms)
  BY DEF Types
<1>2. active # NoExec /\ host.exec = active /\ stdin = NoExec
  BY DEF Turned, Turns, Running
<1>3. ~DoneTold
  BY <1>2 DEF Turned, Tellings
<1>4. ~lines.done /\ ~InPipe({"done"})
  BY <1>3 DEF DoneTold
<1>5. DoneIsLast' /\ ~InPipe({"done"})'
  BY <1>1, <1>4, FirstTold
<1>6. /\ kind' = kind /\ active' = active /\ held' = held /\ lines' = lines /\ capture' = capture
      /\ record' = record /\ session' = session
  BY DEF Untouched
<1>7. Turns'
  BY <1>2, <1>6 DEF Turned, Turns, Running, IsDone
<1>8. Tellings'
  BY <1>2, <1>4, <1>5, <1>6 DEF Tellings, DoneTold
<1> QED BY <1>7, <1>8 DEF Turned

\* A chunk that leaves the exec running.
LEMMA ChunkTurned ==
  ASSUME ProtocolAssumption, Types, Turned, active # NoExec, NEW n \in 1..Len(pipe),
         pipe' = SubSeq(pipe, n + 1, Len(pipe)), NEW p, p = Pushed(SubSeq(pipe, 1, n))
  PROVE  /\ p \in LinesType /\ (p.prompted => p.done) /\ (p.done => DoneTold)
         /\ IsDone(p) => DoneTold /\ ~NoPromptYet
         /\ p.done => ~InPipe(Telling)'
         /\ DoneIsLast'
         /\ \A kinds : (\E i \in DOMAIN pipe' : IsEnv(pipe'[i], kinds)) => InPipe(kinds)
         /\ NoPromptYet /\ lines' = [p EXCEPT !.found = <<>>] => NoPromptYet'
<1>1. pipe \in Seq(Atoms) /\ lines \in LinesType
  BY DEF Types
<1>2. /\ p \in LinesType
      /\ p.done => lines.done \/ \E k \in 1..n : IsEnv(pipe[k], {"done"})
      /\ p.prompted \/ (p.done /\ \E k \in DOMAIN p.line : p.line[k] = Prompt) => SeenPrompt(n)
      /\ p.prompted => lines.prompted \/ p.done
  BY <1>1, PushedIs
<1>3. /\ Len(pipe) \in Nat /\ DOMAIN pipe = 1..Len(pipe)
      /\ \A i \in DOMAIN pipe' : i \in Nat /\ i >= 1 /\ i + n \in DOMAIN pipe /\ pipe'[i] = pipe[i + n]
  BY <1>1, DropIs
<1>4. 1..n \subseteq DOMAIN pipe /\ \A k \in 1..n : k \in Nat
  BY <1>3
<1>5. p.done => DoneTold
  BY <1>2, <1>4 DEF DoneTold, InPipe
<1>6. lines.prompted => lines.done
  BY DEF Turned, Turns
<1>7. p.prompted => p.done
  BY <1>1, <1>2, <1>6, PushedIs
<1>8. IsDone(p) => SeenPrompt(n) /\ p.done
  <2>1. p.line = <<Prompt>> => \E k \in DOMAIN p.line : p.line[k] = Prompt
    BY Prompt = <<Prompt>>[1] /\ 1 \in DOMAIN <<Prompt>>
  <2> QED BY <1>2, <1>7, <2>1 DEF IsDone
<1>9. NoPromptYet => ~SeenPrompt(n)
  BY <1>4 DEF NoPromptYet, SeenPrompt
<1>10. /\ DoneIsLast => DoneIsLast'
       /\ \A kinds : (\E i \in DOMAIN pipe' : IsEnv(pipe'[i], kinds)) => InPipe(kinds)
  BY <1>1, LessTold
<1>11. DoneIsLast /\ (lines.done => ~InPipe(Telling))
  BY DEF Turned, Tellings
<1>12. ASSUME p.done PROVE ~InPipe(Telling)'
  <2> SUFFICES ASSUME NEW i \in DOMAIN pipe', IsEnv(pipe'[i], Telling) PROVE FALSE
    BY DEF InPipe, IsEnv
  <2>1. i + n \in DOMAIN pipe /\ IsEnv(pipe[i + n], Telling)
    BY <1>3
  <2>2. InPipe(Telling)
    BY <2>1 DEF InPipe
  <2>3. PICK k \in 1..n : IsEnv(pipe[k], {"done"})
    BY <1>2, <1>11, <1>12, <2>2
  <2>4. k \in DOMAIN pipe /\ k < i + n
    BY <1>3, <1>4
  <2> QED BY <1>11, <2>1, <2>3, <2>4 DEF DoneIsLast
<1>13. ASSUME NoPromptYet, lines' = [p EXCEPT !.found = <<>>] PROVE NoPromptYet'
  <2>1. ~p.prompted /\ (p.done => \A k \in DOMAIN p.line : p.line[k] # Prompt)
    BY <1>2, <1>9, <1>13
  <2>2. lines'.prompted = p.prompted /\ lines'.done = p.done /\ lines'.line = p.line
    BY <1>2, <1>13 DEF LinesType
  <2>3. \A i, j \in DOMAIN pipe' : i < j /\ IsEnv(pipe'[i], {"done"}) => pipe'[j] # Prompt
    <3> SUFFICES ASSUME NEW i \in DOMAIN pipe', NEW j \in DOMAIN pipe', i < j, IsEnv(pipe'[i], {"done"})
                 PROVE  pipe'[j] # Prompt
      OBVIOUS
    <3>1. i + n \in DOMAIN pipe /\ j + n \in DOMAIN pipe /\ i + n < j + n
      BY <1>3
    <3>2. pipe'[i] = pipe[i + n] /\ pipe'[j] = pipe[j + n]
      BY <1>3
    <3> QED BY <1>13, <3>1, <3>2 DEF NoPromptYet
  <2>4. p.done => \A i \in DOMAIN pipe' : pipe'[i] # Prompt
    <3> SUFFICES ASSUME p.done, NEW i \in DOMAIN pipe' PROVE pipe'[i] # Prompt
      OBVIOUS
    <3>1. i + n \in DOMAIN pipe /\ pipe'[i] = pipe[i + n]
      BY <1>3
    <3>2. CASE lines.done
      BY <1>13, <3>1, <3>2 DEF NoPromptYet
    <3>3. CASE ~lines.done
      <4>1. PICK k \in 1..n : IsEnv(pipe[k], {"done"})
        BY <1>2, <3>3
      <4>2. k \in DOMAIN pipe /\ k < i + n
        BY <1>3, <1>4
      <4> QED BY <1>13, <3>1, <4>1, <4>2 DEF NoPromptYet
    <3> QED BY <3>2, <3>3
  <2> QED BY <2>1, <2>2, <2>3, <2>4 DEF NoPromptYet, IsEnv
<1> QED BY <1>2, <1>5, <1>7, <1>8, <1>9, <1>10, <1>11, <1>12, <1>13

\* ReadsChunk, of a chunk of n atoms.
ReadsUpTo(n) ==
  /\ pipe' = SubSeq(pipe, n + 1, Len(pipe))
  /\ \/ /\ active = NoExec \/ held \/ session = "quarantined"
        /\ UNCHANGED <<kind, host, stdin, active, held, lines, capture, record, intr, store,
                       session, saved, spent, said, left, ended>>
     \/ /\ active # NoExec /\ ~held /\ session # "quarantined"
        /\ \E p, c :
             /\ p = Pushed(SubSeq(pipe, 1, n))
             /\ c = AllConsumed(WithMessages(capture, record[active].messages), p.found)
             /\ p \in LinesType /\ Unmessaged(c) \in CaptureType
             /\ \/ IsDone(p) /\ ~saved /\ EndsExec(c, c.messages)
                \/ /\ ~(IsDone(p) /\ ~saved)
                   /\ lines' = [p EXCEPT !.found = <<>>]
                   /\ capture' = Unmessaged(c)
                   /\ record' = [record EXCEPT ![active].messages = c.messages]
                   /\ held' = IsDone(p)
                   /\ UNCHANGED <<kind, host, stdin, active, intr, store, session,
                                  saved, spent, said, left, ended>>

LEMMA ReadsIs ==
  ASSUME ProtocolAssumption, Types, ReadsChunk
  PROVE  \E n \in 1..Len(pipe) : ReadsUpTo(n)
<1>1. pipe \in Seq(Atoms) /\ lines \in LinesType /\ capture \in CaptureType
  BY DEF Types
<1>2. PICK n \in 1..Len(pipe) :
       /\ pipe' = SubSeq(pipe, n + 1, Len(pipe))
       /\ IF active = NoExec \/ held \/ session = "quarantined"
          THEN UNCHANGED <<kind, host, stdin, active, held, lines, capture, record, intr, store,
                           session, saved, spent, said, left, ended>>
          ELSE LET pushed == Pushed(SubSeq(pipe, 1, n))
                   captured == AllConsumed(WithMessages(capture, record[active].messages),
                                           pushed.found)
               IN  IF IsDone(pushed) /\ ~saved THEN EndsExec(captured, captured.messages)
                   ELSE    /\ lines' = [pushed EXCEPT !.found = <<>>]
                           /\ capture' = Unmessaged(captured)
                           /\ record' = [record EXCEPT ![active].messages = captured.messages]
                           /\ held' = IsDone(pushed)
                           /\ UNCHANGED <<kind, host, stdin, active, intr, store, session,
                                          saved, spent, said, left, ended>>
  BY DEF ReadsChunk
<1>3. pipe # <<>> /\ n \in 1..Len(pipe)
  BY <1>1 DEF ReadsChunk
<1>4. CASE active = NoExec \/ held \/ session = "quarantined"
  <2>1. ReadsUpTo(n)
    BY <1>2, <1>4 DEF ReadsUpTo
  <2> QED BY <1>3, <2>1
<1>5. CASE ~(active = NoExec \/ held \/ session = "quarantined")
  <2> DEFINE p == Pushed(SubSeq(pipe, 1, n))
             c == AllConsumed(WithMessages(capture, record[active].messages), p.found)
  <2>1. p \in LinesType /\ Unmessaged(c) \in CaptureType
    BY <1>1, <1>3, ChunkTyped
  <2> HIDE DEF p, c
  <2>2. \/ IsDone(p) /\ ~saved /\ EndsExec(c, c.messages)
        \/ /\ ~(IsDone(p) /\ ~saved)
           /\ lines' = [p EXCEPT !.found = <<>>]
           /\ capture' = Unmessaged(c)
           /\ record' = [record EXCEPT ![active].messages = c.messages]
           /\ held' = IsDone(p)
           /\ UNCHANGED <<kind, host, stdin, active, intr, store, session,
                          saved, spent, said, left, ended>>
    BY <1>2, <1>5 DEF p, c
  <2>3. p = Pushed(SubSeq(pipe, 1, n)) /\ c = AllConsumed(WithMessages(capture, record[active].messages), p.found)
    BY DEF p, c
  <2>4. ReadsUpTo(n)
    BY <1>2, <1>5, <2>1, <2>2, <2>3 DEF ReadsUpTo
  <2> QED BY <1>3, <2>4
<1> QED BY <1>4, <1>5

LEMMA LeftoverIs ==
  ASSUME ProtocolAssumption, LeftoverWrites
  PROVE  \E w \in Seq(Atoms) :
            /\ pipe' = pipe \o w
            /\ \A i \in DOMAIN w : ~IsEnv(w[i], Telling) /\ w[i] # Prompt
            /\ \/ \A i \in DOMAIN w : w[i].a \notin {"open", "close"}
               \/ /\ Interrupted /\ kind = "bun"
                  /\ \E b \in Cells, env \in Envs : record[b].status = "interrupted" /\ w = Envelope(b, env)
<1>1. PICK written : /\ pipe' = pipe \o written
                     /\ written \in {<<Text>>, <<Text, LineEnd>>} \cup
                         {Envelope(e, Env("stdout", NoExec)) :
                            e \in {b \in Cells : kind = "bun" /\ record[b].status = "interrupted"}}
  BY DEF LeftoverWrites
<1>2. Text.a = "text" /\ LineEnd.a = "end" /\ Prompt.a = "prompt"
  BY DEF Text, LineEnd, Prompt
<1>3. CASE written = <<Text>>
  <2>1. written \in Seq(Atoms) /\ DOMAIN written = {1} /\ written[1] = Text
    BY <1>3, AtomsTyped
  <2> QED BY <1>1, <1>2, <2>1 DEF IsEnv
<1>4. CASE written = <<Text, LineEnd>>
  <2>1. written \in Seq(Atoms) /\ DOMAIN written = 1..2 /\ written[1] = Text /\ written[2] = LineEnd
    BY <1>4, AtomsTyped
  <2>2. \A i \in 1..2 : i = 1 \/ i = 2
    OBVIOUS
  <2> QED BY <1>1, <1>2, <2>1, <2>2 DEF IsEnv
<1>5. CASE written \notin {<<Text>>, <<Text, LineEnd>>}
  <2>1. PICK e \in Cells : /\ kind = "bun" /\ record[e].status = "interrupted"
                           /\ written = Envelope(e, Env("stdout", NoExec))
    BY <1>1, <1>5
  <2>2. Env("stdout", NoExec) \in Envs /\ Env("stdout", NoExec).kind = "stdout"
    BY EnvTyped DEF Env
  <2>3. written \in Seq(Atoms) /\ \A i \in DOMAIN written : ~IsEnv(written[i], Telling) /\ written[i] # Prompt
    BY <2>1, <2>2, EnvelopeTyped, EnvelopeTells DEF Telling, Outcomes
  <2> QED BY <1>1, <2>1, <2>2, <2>3 DEF Interrupted
<1> QED BY <1>3, <1>4, <1>5

LEMMA TurnedNext == ProtocolAssumption /\ Types /\ Types' /\ Turned /\ [ProtocolNext]_protocolVars => Turned'
<1> SUFFICES ASSUME ProtocolAssumption, Types, Types', Turned, [ProtocolNext]_protocolVars PROVE Turned'
  OBVIOUS
<1>t. /\ pipe \in Seq(Atoms) /\ lines \in LinesType /\ host \in HostType /\ RecordType(record)
      /\ host.at \in {"cell", "ending", "done"} => host.exec \in Cells
      /\ active \in {NoExec} \cup Cells /\ (held => active # NoExec) /\ said \in [Cells -> Seq(Envs)]
  BY DEF Types
<1>e. /\ \A e \in Cells : e # NoExec
      /\ \A e \in Cells : Open(e) \in Atoms
  BY ExecsAre, AtomsTyped DEF Atoms
<1>w. host.at \in {"cell", "ending", "done"} =>
         active # NoExec /\ host.exec = active /\ stdin = NoExec /\ ~DoneTold
  BY DEF Turned, Turns, Tellings, Running
<1>0. CASE UNCHANGED protocolVars
  BY <1>0 DEF protocolVars, Turned, Turns, Tellings, Running, DoneTold, InPipe, DoneIsLast, NoPromptYet, IsDone
<1>1. CASE HostReads
  <2>1. /\ kind' = kind /\ active' = active /\ held' = held /\ lines' = lines /\ capture' = capture
        /\ record' = record /\ session' = session /\ pipe' = pipe
    BY <1>1 DEF HostReads, Untouched
  <2>2. stdin # NoExec /\ host.at = "idle" /\ stdin = active /\ stdin' = NoExec
    BY <1>1 DEF HostReads, Turned, Turns
  <2>3. host'.at = "cell" /\ host'.exec = stdin
    BY <1>t, <1>1 DEF HostReads, HostType
  <2>4. ~DoneTold
    BY <2>2 DEF Turned, Tellings
  <2>5. Turns'
    BY <2>1, <2>2, <2>3 DEF Turned, Turns, Running, IsDone
  <2>6. Tellings'
    BY <2>1, <2>2, <2>3, <2>4 DEF Turned, Tellings, DoneTold, InPipe, DoneIsLast
  <2> QED BY <2>5, <2>6 DEF Turned
<1>2. CASE Prints
  <2>1. Says("stdout") /\ host.exec \in Cells
    BY <1>t, <1>2 DEF Prints
  <2>2. PICK v \in Nat : Env("stdout", v) \in Envs /\ pipe' = pipe \o Envelope(host.exec, Env("stdout", v))
    BY <1>t, <2>1, SaysTyped
  <2>3. \A i \in DOMAIN Envelope(host.exec, Env("stdout", v)) : ~IsEnv(Envelope(host.exec, Env("stdout", v))[i], {"done"})
    BY <2>1, <2>2, EnvelopeTells DEF Env
  <2>4. host'.exec = host.exec /\ host'.at = "cell" /\ stdin' = stdin /\ Untouched
    <3>1. PICK h \in {host.holds, host.exec} : host' = [host EXCEPT !.prints = @ + 1, !.holds = h]
      BY <1>2 DEF Prints
    <3> QED BY <1>t, <1>2, <3>1 DEF Prints, HostType
  <2> QED BY <1>2, <2>1, <2>2, <2>3, <2>4, EnvelopeTyped, WritesTurned DEF Prints
<1>3. CASE CellEnds
  <2>1. host'.exec = host.exec /\ host'.at = "ending" /\ stdin' = stdin /\ pipe' = pipe /\ Untouched
    BY <1>t, <1>3 DEF CellEnds, HostType
  <2>2. <<>> \in Seq(Atoms) /\ pipe' = pipe \o <<>> /\ DOMAIN <<>> = {}
    BY <1>t, <2>1
  <2> QED BY <1>3, <2>1, <2>2, WritesTurned DEF CellEnds
<1>4. CASE CellFails
  <2>1. Says("error") /\ host.exec \in Cells
    BY <1>t, <1>4 DEF CellFails
  <2>2. PICK v \in Nat : Env("error", v) \in Envs /\ pipe' = pipe \o Envelope(host.exec, Env("error", v))
    BY <1>t, <2>1, SaysTyped
  <2>3. \A i \in DOMAIN Envelope(host.exec, Env("error", v)) : ~IsEnv(Envelope(host.exec, Env("error", v))[i], {"done"})
    BY <2>1, <2>2, EnvelopeTells DEF Env
  <2>4. host'.exec = host.exec /\ host'.at = "ending" /\ stdin' = stdin /\ Untouched
    BY <1>t, <1>4 DEF CellFails, HostType
  <2> QED BY <1>4, <2>1, <2>2, <2>3, <2>4, EnvelopeTyped, WritesTurned DEF CellFails
<1>5. CASE TellsCheckpoint
  <2>1. host.exec \in Cells /\ host.holds \in Nat /\ host.at = "ending"
    BY <1>t, <1>5 DEF TellsCheckpoint, HostType
  <2>2. PICK env \in {Env("checkpoint-preserved", NoExec), Env("checkpoint", host.holds)} : Writes(env)
    BY <1>5 DEF TellsCheckpoint
  <2>3. env \in Envs /\ env.kind # "done"
    <3>1. Env("checkpoint", host.holds) \in Envs /\ Env("checkpoint-preserved", NoExec) \in Envs
      BY <2>1, EnvTyped
    <3>2. Env("checkpoint", host.holds).kind = "checkpoint"
          /\ Env("checkpoint-preserved", NoExec).kind = "checkpoint-preserved"
      BY DEF Env
    <3> QED BY <2>2, <3>1, <3>2
  <2>4. pipe' = pipe \o Envelope(host.exec, env)
    BY <2>2 DEF Writes
  <2>5. \A i \in DOMAIN Envelope(host.exec, env) : ~IsEnv(Envelope(host.exec, env)[i], {"done"})
    BY <2>1, <2>3, EnvelopeTells
  <2>6. host'.exec = host.exec /\ host'.at = "done" /\ stdin' = stdin /\ Untouched
    BY <1>t, <1>5 DEF TellsCheckpoint, HostType
  <2> QED BY <2>1, <2>3, <2>4, <2>5, <2>6, EnvelopeTyped, WritesTurned
<1>6. CASE CheckpointFails
  <2>1. host.exec \in Cells /\ host.at = "ending"
    BY <1>t, <1>6 DEF CheckpointFails
  <2> DEFINE v == Len(said[host.exec]) + 1
             error == Env("error", v)
             kept == Env("checkpoint-preserved", NoExec)
             rest == IF PreservesOnFailure(kind) THEN Envelope(host.exec, kept) ELSE <<>>
             w == Envelope(host.exec, error) \o rest
  <2>2. v \in Nat
    BY <1>t, <2>1
  <2>3. pipe' = (pipe \o Envelope(host.exec, error)) \o rest
    BY <1>6 DEF CheckpointFails
  <2>4. error \in Envs /\ kept \in Envs /\ error.kind = "error" /\ kept.kind = "checkpoint-preserved"
    <3> HIDE DEF v
    <3> QED BY <2>2, EnvTyped DEF Env
  <2>5. Envelope(host.exec, error) \in Seq(Atoms) /\ rest \in Seq(Atoms)
    BY <2>1, <2>4, EnvelopeTyped
  <2>6. /\ \A i \in DOMAIN Envelope(host.exec, error) : ~IsEnv(Envelope(host.exec, error)[i], {"done"})
        /\ \A i \in DOMAIN rest : ~IsEnv(rest[i], {"done"})
    BY <2>1, <2>4, EnvelopeTells
  <2> HIDE DEF error, kept, rest, v
  <2>7. pipe' = pipe \o w /\ w \in Seq(Atoms)
    BY <1>t, <2>3, <2>5
  <2>8. \A i \in DOMAIN w : ~IsEnv(w[i], {"done"})
    <3> DEFINE a == Envelope(host.exec, error)
    <3> HIDE DEF a
    <3>1. \A i \in DOMAIN (a \o rest) : \/ i \in DOMAIN a /\ (a \o rest)[i] = a[i]
                                        \/ i - Len(a) \in DOMAIN rest /\ (a \o rest)[i] = rest[i - Len(a)]
      BY <2>5 DEF a
    <3> QED BY <2>6, <3>1 DEF a
  <2>9. host'.exec = host.exec /\ host'.at = "done" /\ stdin' = stdin /\ Untouched
    BY <1>t, <1>6 DEF CheckpointFails, HostType
  <2> QED BY <2>1, <2>7, <2>8, <2>9, WritesTurned
<1>7. CASE SaysDone
  <2> DEFINE w == Envelope(host.exec, Env("done", NoExec))
  <2>1. host.exec \in Cells /\ host.at = "done" /\ Env("done", NoExec) \in Envs /\ pipe' = pipe \o w
    BY <1>t, <1>7, EnvTyped DEF SaysDone, Writes
  <2>2. w \in Seq(Atoms) /\ Len(w) = 2 /\ \A i \in DOMAIN w : IsEnv(w[i], {"done"}) => i = 2
    BY <2>1, EnvelopeTyped, EnvelopeTells
  <2> HIDE DEF w
  <2>3. active # NoExec /\ host.exec = active /\ stdin = NoExec /\ ~lines.done /\ ~InPipe({"done"})
    BY <1>w, <2>1 DEF DoneTold
  <2>4. DoneIsLast' /\ \A i, j \in DOMAIN pipe' : i < j /\ IsEnv(pipe'[i], {"done"}) => pipe'[j] # Prompt
    BY <1>t, <2>1, <2>2, <2>3, FirstTold
  <2>5. /\ kind' = kind /\ active' = active /\ held' = held /\ lines' = lines /\ capture' = capture
        /\ record' = record /\ session' = session /\ stdin' = stdin
    BY <1>7 DEF SaysDone, Untouched
  <2>6. host'.at = "prompt" /\ host'.exec = host.exec
    BY <1>t, <1>7 DEF SaysDone, HostType
  <2>7. Turns'
    BY <2>3, <2>5, <2>6 DEF Turned, Turns, Running, IsDone
  <2>8. ~lines.prompted
    BY <2>3 DEF Turned, Turns
  <2>9. NoPromptYet'
    BY <2>3, <2>4, <2>5, <2>8 DEF NoPromptYet, IsEnv
  <2>10. Tellings'
    BY <2>3, <2>4, <2>5, <2>6, <2>9 DEF Tellings, DoneTold
  <2> QED BY <2>7, <2>10 DEF Turned
<1>8. CASE Prompts
  <2>1. /\ kind' = kind /\ active' = active /\ held' = held /\ lines' = lines /\ capture' = capture
        /\ record' = record /\ session' = session /\ stdin' = stdin
        /\ pipe' = Append(pipe, Prompt) /\ host.at = "prompt"
    BY <1>8 DEF Prompts, Untouched
  <2>2. pipe' = pipe \o <<Prompt>> /\ <<Prompt>> \in Seq(Atoms) /\ DOMAIN <<Prompt>> = {1} /\ <<Prompt>>[1] = Prompt
    BY <1>t, <2>1, AtomsTyped
  <2>3. \A i \in DOMAIN <<Prompt>> : ~IsEnv(<<Prompt>>[i], Telling)
    BY <2>2 DEF IsEnv, Prompt
  <2>4. /\ InPipe(Telling)' => InPipe(Telling)
        /\ InPipe({"done"})' => InPipe({"done"})
        /\ DoneIsLast => DoneIsLast'
    BY <1>t, <2>2, <2>3, NothingTold
  <2>5. host'.at = "idle" /\ host'.exec = NoExec
    BY <1>8 DEF Prompts, Fresh
  <2>6. Turns'
    BY <2>1, <2>5 DEF Turned, Turns, Running, IsDone, NoExec
  <2>7. Tellings'
    BY <2>1, <2>4, <2>5 DEF Turned, Tellings, DoneTold
  <2> QED BY <2>6, <2>7 DEF Turned
<1>9. CASE TakesSignal
  <2>0. /\ kind' = kind /\ active' = active /\ held' = held /\ lines' = lines /\ capture' = capture
        /\ record' = record /\ session' = session
    BY <1>9 DEF TakesSignal, Untouched
  <2>1. CASE /\ kind = "python" /\ host.at = "cell"
             /\ Says("error")
             /\ host' = [host EXCEPT !.at = "ending", !.failed = TRUE, !.signalled = FALSE]
             /\ UNCHANGED stdin
    <3>1. host.exec \in Cells
      BY <1>t, <2>1
    <3>2. PICK v \in Nat : Env("error", v) \in Envs /\ pipe' = pipe \o Envelope(host.exec, Env("error", v))
      BY <1>t, <2>1, <3>1, SaysTyped
    <3>3. \A i \in DOMAIN Envelope(host.exec, Env("error", v)) : ~IsEnv(Envelope(host.exec, Env("error", v))[i], {"done"})
      BY <3>1, <3>2, EnvelopeTells DEF Env
    <3>4. host'.exec = host.exec /\ host'.at = "ending" /\ stdin' = stdin /\ Untouched
      BY <1>t, <1>9, <2>1 DEF TakesSignal, HostType
    <3> QED BY <2>1, <3>1, <3>2, <3>3, <3>4, EnvelopeTyped, WritesTurned
  <2>2. CASE /\ kind = "bun" /\ host.at \in {"cell", "idle"}
             /\ host' = [host EXCEPT !.at = "prompt", !.signalled = FALSE]
             /\ stdin' = IF host.at = "idle" /\ stdin = intr THEN NoExec ELSE stdin
             /\ UNCHANGED <<pipe, said>>
    <3>1. host'.at = "prompt" /\ host'.exec = host.exec /\ pipe' = pipe /\ (stdin' = NoExec \/ stdin' = stdin)
      BY <1>t, <2>2 DEF HostType
    <3>2. Turns'
      BY <1>w, <2>0, <2>2, <3>1 DEF Turned, Turns, Running, IsDone
    <3>3. NoPromptYet \/ host.at # "cell"
      BY <1>w DEF Turned, Turns, DoneTold, InPipe, NoPromptYet
    <3>4. host.at = "idle" => host.exec = NoExec
      BY DEF Turned, Turns
    <3>5. Tellings'
      BY <2>0, <2>2, <3>1, <3>3, <3>4 DEF Turned, Tellings, DoneTold, InPipe, DoneIsLast, NoPromptYet
    <3> QED BY <3>2, <3>5 DEF Turned
  <2>3. CASE /\ kind = "dotnet" \/ (kind = "python" /\ host.at # "cell")
             /\ host' = Dead
             /\ UNCHANGED <<stdin, pipe, said>>
    <3>1. host'.at = "dead" /\ pipe' = pipe /\ stdin' = stdin
      BY <1>t, <2>3, DeadTyped
    <3>2. Turns'
      BY <2>0, <3>1 DEF Turned, Turns, Running, IsDone
    <3>3. Tellings'
      BY <2>0, <3>1 DEF Turned, Tellings, DoneTold, InPipe, DoneIsLast
    <3> QED BY <3>2, <3>3 DEF Turned
  <2> QED BY <1>9, <2>1, <2>2, <2>3 DEF TakesSignal
<1>10. CASE HostDies
  <2>0. /\ kind' = kind /\ active' = active /\ held' = held /\ lines' = lines /\ capture' = capture
        /\ record' = record /\ session' = session /\ host'.at = "dead" /\ pipe' = pipe /\ stdin' = stdin
    BY <1>t, <1>10, DeadTyped DEF HostDies, Untouched
  <2>2. Turns'
    BY <2>0 DEF Turned, Turns, Running, IsDone
  <2>3. Tellings'
    BY <2>0 DEF Turned, Tellings, DoneTold, InPipe, DoneIsLast
  <2> QED BY <2>2, <2>3 DEF Turned
<1>11. CASE LeftoverWrites
  <2>0. /\ kind' = kind /\ active' = active /\ held' = held /\ lines' = lines /\ capture' = capture
        /\ record' = record /\ session' = session /\ host' = host /\ stdin' = stdin
    BY <1>11 DEF LeftoverWrites, Untouched
  <2>1. PICK w \in Seq(Atoms) : /\ pipe' = pipe \o w /\ \A i \in DOMAIN w : ~IsEnv(w[i], Telling) /\ w[i] # Prompt
    BY <1>11, LeftoverIs
  <2>2. /\ InPipe(Telling)' => InPipe(Telling)
        /\ InPipe({"done"})' => InPipe({"done"})
        /\ DoneIsLast => DoneIsLast'
        /\ NoPromptYet => NoPromptYet'
    BY <1>t, <2>0, <2>1, NothingTold
  <2>3. Turns'
    BY <2>0 DEF Turned, Turns, Running, IsDone
  <2>4. Tellings'
    BY <2>0, <2>2 DEF Turned, Tellings, DoneTold
  <2> QED BY <2>3, <2>4 DEF Turned
<1>12. CASE \E e \in Cells : Start(e)
  <2>1. PICK e \in Cells : Start(e)
    BY <1>12
  <2>2. /\ kind' = kind /\ active' = e /\ held' = FALSE /\ lines' = NoLines /\ stdin' = e
        /\ session' = session /\ host' = host /\ pipe' = pipe /\ session = "live" /\ active = NoExec
    BY <2>1 DEF Start
  <2>3. record'[e].status = "running" /\ \A d \in Cells \ {e} : record'[d] = record[d]
    BY <1>t, <2>1, StatusTyped DEF Start
  <2>4. ~Running /\ ~InPipe(Telling) /\ ~InPipe({"done"}) /\ DoneIsLast
    BY <2>2 DEF Turned, Turns, Tellings, InPipe, Telling, IsEnv
  <2>5. Turns'
    <3>1. \A d \in Cells : record'[d].status = "running" => d = e
      BY <1>e, <2>2, <2>3 DEF Turned, Turns
    <3> QED BY <1>e, <2>2, <2>3, <2>4, <3>1 DEF Turned, Turns, Running, NoLines
  <2>6. Tellings'
    BY <1>e, <2>2, <2>4 DEF Tellings, DoneTold, InPipe, NoLines, Running, DoneIsLast
  <2> QED BY <2>5, <2>6 DEF Turned
<1>13. CASE ReadsChunk
  <2>1. PICK n \in 1..Len(pipe) : ReadsUpTo(n)
    BY <1>13, ReadsIs
  <2>2. pipe' = SubSeq(pipe, n + 1, Len(pipe))
    BY <2>1 DEF ReadsUpTo
  <2>3. CASE active = NoExec \/ held \/ session = "quarantined"
    <3>1. UNCHANGED <<kind, host, stdin, active, held, lines, capture, record, intr, store,
                       session, saved, spent, said, left, ended>>
      BY <2>1, <2>3 DEF ReadsUpTo
    <3>2. /\ DoneIsLast => DoneIsLast'
          /\ \A kinds : (\E i \in DOMAIN pipe' : IsEnv(pipe'[i], kinds)) => InPipe(kinds)
          /\ NoPromptYet => NoPromptYet'
      BY <1>t, <2>2, <3>1, LessTold
    <3>3. (InPipe(Telling)' => InPipe(Telling)) /\ (InPipe({"done"})' => InPipe({"done"}))
      BY <3>2 DEF InPipe, IsEnv
    <3>4. Turns'
      BY <3>1 DEF Turned, Turns, Running, IsDone
    <3>5. Tellings'
      BY <3>1, <3>2, <3>3 DEF Turned, Tellings, DoneTold
    <3> QED BY <3>4, <3>5 DEF Turned
  <2>4. CASE ~(active = NoExec \/ held \/ session = "quarantined")
    <3>1. PICK p, c :
             /\ p = Pushed(SubSeq(pipe, 1, n))
             /\ Unmessaged(c) \in CaptureType
             /\ \/ IsDone(p) /\ ~saved /\ EndsExec(c, c.messages)
                \/ /\ ~(IsDone(p) /\ ~saved)
                   /\ lines' = [p EXCEPT !.found = <<>>]
                   /\ capture' = Unmessaged(c)
                   /\ record' = [record EXCEPT ![active].messages = c.messages]
                   /\ held' = IsDone(p)
                   /\ UNCHANGED <<kind, host, stdin, active, intr, store, session,
                                  saved, spent, said, left, ended>>
      BY <2>1, <2>4 DEF ReadsUpTo
    <3>2. active # NoExec /\ active \in Cells
      BY <1>t, <2>4
    <3>3. /\ p \in LinesType /\ (p.prompted => p.done) /\ (p.done => DoneTold)
          /\ IsDone(p) => DoneTold /\ ~NoPromptYet
          /\ p.done => ~InPipe(Telling)'
          /\ DoneIsLast'
          /\ \A kinds : (\E i \in DOMAIN pipe' : IsEnv(pipe'[i], kinds)) => InPipe(kinds)
          /\ NoPromptYet /\ lines' = [p EXCEPT !.found = <<>>] => NoPromptYet'
      BY <2>2, <3>1, <3>2, ChunkTurned
    <3>4. CASE IsDone(p) /\ ~saved /\ EndsExec(c, c.messages)
      <4>1. p.done
        BY <3>3, <3>4 DEF IsDone
      <4> QED BY <3>1, <3>2, <3>3, <3>4, <4>1, EndsTurned
    <3>5. CASE /\ ~(IsDone(p) /\ ~saved)
               /\ lines' = [p EXCEPT !.found = <<>>]
               /\ capture' = Unmessaged(c)
               /\ record' = [record EXCEPT ![active].messages = c.messages]
               /\ held' = IsDone(p)
               /\ UNCHANGED <<kind, host, stdin, active, intr, store, session,
                              saved, spent, said, left, ended>>
      <4>1. /\ kind' = kind /\ active' = active /\ held' = IsDone(p) /\ host' = host /\ stdin' = stdin
            /\ session' = session
        BY <3>5
      <4>2. \A d \in Cells : record'[d].status = record[d].status
        BY <1>t, <3>2, <3>5, MessagesTyped
      <4>3. lines'.prompted = p.prompted /\ lines'.done = p.done /\ lines'.line = p.line
        BY <3>3, <3>5 DEF LinesType
      <4>4. held' => IsDone(lines')
        BY <4>1, <4>3 DEF IsDone
      <4>5. Turns'
        BY <3>2, <3>3, <4>1, <4>2, <4>3, <4>4 DEF Turned, Turns, Running
      <4>6. (InPipe(Telling)' => InPipe(Telling)) /\ (InPipe({"done"})' => InPipe({"done"}))
        BY <3>3 DEF InPipe, IsEnv
      <4>7. DoneTold' => DoneTold
        BY <3>3, <4>3, <4>6 DEF DoneTold
      <4>8. Tellings'
        BY <3>3, <3>5, <4>1, <4>3, <4>6, <4>7 DEF Turned, Tellings
      <4> QED BY <4>5, <4>8 DEF Turned
    <3> QED BY <3>1, <3>4, <3>5
  <2> QED BY <2>3, <2>4
<1>14. CASE EndsHeld
  <2>1. held /\ active # NoExec /\ EndsExec(capture, record[active].messages) /\ pipe' = pipe
    BY <1>t, <1>14 DEF EndsHeld
  <2>2. Unmessaged(capture) \in CaptureType
    BY DEF Types, Unmessaged, CaptureType
  <2>3. lines.done /\ IsDone(lines)
    BY <2>1 DEF Turned, Turns, IsDone
  <2>4. DoneTold /\ ~InPipe(Telling) /\ DoneIsLast
    BY <2>3 DEF Turned, Tellings, DoneTold
  <2>5. ~InPipe(Telling)' /\ DoneIsLast'
    BY <2>1, <2>4 DEF InPipe, DoneIsLast, IsEnv
  <2>6. ~NoPromptYet
    <3>1. lines.line = <<Prompt>> => \E k \in DOMAIN lines.line : lines.line[k] = Prompt
      BY Prompt = <<Prompt>>[1] /\ 1 \in DOMAIN <<Prompt>>
    <3> QED BY <2>3, <3>1 DEF IsDone, NoPromptYet
  <2> QED BY <2>1, <2>2, <2>4, <2>5, <2>6, EndsTurned
<1>15. CASE HearsOfExit
  <2>1. /\ host.at = "dead" /\ host'.at = "dead" /\ kind' = kind /\ stdin' = stdin /\ pipe' = pipe
    BY <1>t, <1>15 DEF HearsOfExit, HostType
  <2>2. CASE intr # NoExec \/ session = "quarantined"
    <3>1. /\ session' = session /\ active' = active /\ held' = held /\ lines' = lines
          /\ capture' = capture /\ record' = record
      BY <1>15, <2>2 DEF HearsOfExit
    <3>2. Turns'
      BY <2>1, <3>1 DEF Turned, Turns, Running, IsDone
    <3>3. Tellings'
      BY <2>1, <3>1 DEF Turned, Tellings, DoneTold, InPipe, DoneIsLast
    <3> QED BY <3>2, <3>3 DEF Turned
  <2>3. CASE ~(intr # NoExec \/ session = "quarantined")
    <3>1. Unset /\ session' = "quarantined"
      BY <1>15, <2>3 DEF HearsOfExit
    <3>2. active' = NoExec /\ held' = FALSE /\ lines' = NoLines /\ capture' = NoCapture
      BY <3>1, UnsetTyped
    <3>3. \A e \in Cells : record'[e].status # "running"
      <4>1. CASE active = NoExec
        BY <1>e, <1>15, <2>3, <4>1 DEF HearsOfExit, Turned, Turns
      <4>2. CASE active # NoExec
        <5>1. PICK ms : ms = Append(record[active].messages, Told("runtime exited"))
          OBVIOUS
        <5>2. record' = [record EXCEPT ![active] = [status |-> "error", messages |-> ms]]
          BY <1>15, <2>3, <4>2, <5>1 DEF HearsOfExit
        <5>3. record'[active].status = "error" /\ \A d \in Cells \ {active} : record'[d] = record[d]
          BY <1>t, <4>2, <5>2, RecordTyped
        <5> QED BY <5>3 DEF Turned, Turns
      <4> QED BY <4>1, <4>2
    <3>4. Turns'
      BY <2>1, <3>1, <3>2, <3>3 DEF Turned, Turns, Running, NoLines
    <3>5. Tellings'
      BY <2>1, <3>1, <3>2 DEF Turned, Tellings, DoneTold, InPipe, DoneIsLast, NoLines
    <3> QED BY <3>4, <3>5 DEF Turned
  <2> QED BY <2>2, <2>3
<1>16. CASE Interrupt
  <2>1. /\ kind' = kind /\ active' = active /\ held' = held /\ lines' = lines /\ active # NoExec
        /\ record' = record /\ session' = session /\ pipe' = pipe /\ stdin' = stdin
    BY <1>16 DEF Interrupt
  <2>2. host'.at = host.at /\ host'.exec = host.exec
    BY <1>t, <1>16 DEF Interrupt, HostType
  <2>3. Turns'
    BY <2>1, <2>2 DEF Turned, Turns, Running, IsDone
  <2>4. Tellings'
    BY <2>1, <2>2 DEF Turned, Tellings, DoneTold, InPipe, DoneIsLast, NoPromptYet
  <2> QED BY <2>3, <2>4 DEF Turned
<1>17. CASE SoftInterrupt
  <2>1. active \in Cells /\ Finalized /\ kind' = kind /\ host' = host /\ stdin' = stdin /\ pipe' = pipe
        /\ session' = session /\ pipe = <<>> /\ host.at = "idle" /\ stdin = NoExec /\ session = "live"
    BY <1>t, <1>17 DEF SoftInterrupt
  <2>2. record'[active].status = "interrupted" /\ \A d \in Cells \ {active} : record'[d] = record[d]
    BY <1>t, <2>1, StatusTyped DEF Finalized
  <2>3. active' = NoExec /\ held' = FALSE /\ lines' = NoLines /\ capture' = NoCapture
    BY <2>1, UnsetTyped DEF Finalized
  <2>4. DOMAIN pipe' = {}
    BY <2>1
  <2>5. Turns'
    BY <2>1, <2>2, <2>3 DEF Turned, Turns, Running, NoLines
  <2>6. Tellings'
    BY <2>1, <2>3, <2>4 DEF Tellings, DoneTold, InPipe, DoneIsLast, NoLines
  <2> QED BY <2>5, <2>6 DEF Turned
<1>18. CASE RecycleInterrupt
  <2>1. active \in Cells /\ Finalized /\ kind' = kind /\ host'.at = "idle" /\ host'.exec = NoExec
        /\ stdin' = NoExec /\ pipe' = <<>> /\ session' = session /\ session = "live"
    BY <1>t, <1>18 DEF RecycleInterrupt, NewHost, Fresh
  <2>2. record'[active].status = "interrupted" /\ \A d \in Cells \ {active} : record'[d] = record[d]
    BY <1>t, <2>1, StatusTyped DEF Finalized
  <2>3. active' = NoExec /\ held' = FALSE /\ lines' = NoLines /\ capture' = NoCapture
    BY <2>1, UnsetTyped DEF Finalized
  <2>4. DOMAIN pipe' = {}
    BY <2>1
  <2>5. Turns'
    BY <2>1, <2>2, <2>3 DEF Turned, Turns, Running, NoLines
  <2>6. Tellings'
    BY <2>1, <2>3, <2>4 DEF Tellings, DoneTold, InPipe, DoneIsLast, NoLines
  <2> QED BY <2>5, <2>6 DEF Turned
<1>19. CASE LateInterrupt
  BY <1>19 DEF LateInterrupt, Turned, Turns, Tellings, Running, DoneTold, InPipe, DoneIsLast, NoPromptYet, IsDone
<1>20. CASE ResetsHost
  <2>1. /\ kind' = kind /\ host'.at = "idle" /\ host'.exec = NoExec /\ stdin' = NoExec /\ pipe' = <<>>
        /\ session' = session /\ session = "live"
    BY <1>t, <1>20 DEF ResetsHost, NewHost, Fresh
  <2>2. DOMAIN pipe' = {}
    BY <2>1
  <2>3. CASE active # NoExec /\ Finalized
    <3>1. active \in Cells /\ Finalized
      BY <1>t, <2>3
    <3>2. record'[active].status = "interrupted" /\ \A d \in Cells \ {active} : record'[d] = record[d]
      BY <1>t, <3>1, StatusTyped DEF Finalized
    <3>3. active' = NoExec /\ held' = FALSE /\ lines' = NoLines /\ capture' = NoCapture
      BY <3>1, UnsetTyped DEF Finalized
    <3>4. Turns'
      BY <2>1, <3>2, <3>3 DEF Turned, Turns, Running, NoLines
    <3>5. Tellings'
      BY <2>1, <2>2, <3>3 DEF Tellings, DoneTold, InPipe, DoneIsLast, NoLines
    <3> QED BY <3>4, <3>5 DEF Turned
  <2>4. CASE active = NoExec /\ UNCHANGED <<active, held, lines, capture, record, ended>>
    <3>1. lines = NoLines
      BY <2>4 DEF Turned, Turns
    <3>2. Turns'
      BY <2>1, <2>4, <3>1 DEF Turned, Turns, Running, NoLines
    <3>3. Tellings'
      BY <2>1, <2>2, <2>4, <3>1 DEF Tellings, DoneTold, InPipe, DoneIsLast, NoLines
    <3> QED BY <3>2, <3>3 DEF Turned
  <2> QED BY <1>20, <2>3, <2>4 DEF ResetsHost
<1>21. CASE Save
  BY <1>21 DEF Save, Turned, Turns, Tellings, Running, DoneTold, InPipe, DoneIsLast, NoPromptYet, IsDone
<1>22. CASE RunsOn
  BY <1>22 DEF RunsOn, Turned, Turns, Tellings, Running, DoneTold, InPipe, DoneIsLast, NoPromptYet, IsDone
<1> QED BY <1>0, <1>1, <1>2, <1>3, <1>4, <1>5, <1>6, <1>7, <1>8, <1>9, <1>10, <1>11, <1>12,
           <1>13, <1>14, <1>15, <1>16, <1>17, <1>18, <1>19, <1>20, <1>21, <1>22 DEF ProtocolNext

\* An exec is written to a host that is at its prompt, and told one at a time.
THEOREM StartsThere == ProtocolSpec => []StartsAtThePrompt
<1>1. ProtocolAssumption
  BY ProtocolAssumption
<1>2. Types /\ Turned => StartsAtThePrompt
  <2> SUFFICES ASSUME Types, Turned, stdin # NoExec
               PROVE  \/ host.at \in {"idle", "dead"}
                      \/ kind = "bun" /\ host.at = "prompt" /\ host.exec = NoExec
    BY DEF StartsAtThePrompt
  <2>1. host.at \in {"idle", "cell", "ending", "done", "prompt", "dead"}
    BY DEF Types, HostType
  <2> QED BY <2>1 DEF Turned, Turns, Running
<1> QED BY <1>1, <1>2, TypesInit, TypesNext, TurnedInit, TurnedNext, PTL DEF ProtocolSpec

-----------------------------------------------------------------------------
(* The outcome of an exec's checkpoint.                                    *)

OneOutcome == \A i, j \in DOMAIN pipe : IsEnv(pipe[i], Outcomes) /\ IsEnv(pipe[j], Outcomes) => i = j

\* What is of no outcome in what is appended changes nothing of the outcomes in the pipe.
LEMMA NoOutcomeTold ==
  ASSUME pipe \in Seq(Atoms), NEW w \in Seq(Atoms), pipe' = pipe \o w,
         \A i \in DOMAIN w : ~IsEnv(w[i], Outcomes)
  PROVE  /\ OneOutcome => OneOutcome'
         /\ \A i \in DOMAIN pipe' : IsEnv(pipe'[i], Outcomes) => i \in DOMAIN pipe /\ pipe'[i] = pipe[i]
         /\ InPipe(Outcomes)' => InPipe(Outcomes)
         /\ InPipe({"checkpoint-preserved"})' => InPipe({"checkpoint-preserved"})
<1>1. \A i \in DOMAIN pipe' : i \in DOMAIN pipe
              \/ (i > Len(pipe) /\ i - Len(pipe) \in DOMAIN w /\ pipe'[i] = w[i - Len(pipe)])
  BY AppendIs
<1>2. \A i \in DOMAIN pipe : i \in DOMAIN pipe' /\ pipe'[i] = pipe[i]
  BY AppendIs
<1>3. \A i \in DOMAIN pipe' : IsEnv(pipe'[i], Outcomes) => i \in DOMAIN pipe /\ pipe'[i] = pipe[i]
  BY <1>1, <1>2
<1>4. OneOutcome => OneOutcome'
  BY <1>3 DEF OneOutcome, IsEnv
<1>5. InPipe(Outcomes)' => InPipe(Outcomes)
  BY <1>3 DEF InPipe, IsEnv
<1>6. \A i \in DOMAIN pipe' : IsEnv(pipe'[i], {"checkpoint-preserved"}) => IsEnv(pipe'[i], Outcomes)
  BY DEF IsEnv, Outcomes
<1>7. InPipe({"checkpoint-preserved"})' => InPipe({"checkpoint-preserved"})
  BY <1>3, <1>6 DEF InPipe, IsEnv
<1> QED BY <1>3, <1>4, <1>5, <1>7

LEMMA LessOutcome ==
  ASSUME pipe \in Seq(Atoms), NEW n \in 1..Len(pipe), pipe' = SubSeq(pipe, n + 1, Len(pipe)), OneOutcome
  PROVE  /\ OneOutcome'
         /\ \A k \in 1..n : IsEnv(pipe[k], Outcomes) => ~InPipe(Outcomes)'
         /\ \A i \in DOMAIN pipe' : i + n \in DOMAIN pipe /\ pipe'[i] = pipe[i + n]
         /\ InPipe(Outcomes)' => InPipe(Outcomes)
         /\ InPipe({"checkpoint-preserved"})' => InPipe({"checkpoint-preserved"})
<1>1. /\ Len(pipe) \in Nat /\ DOMAIN pipe = 1..Len(pipe)
      /\ \A i \in DOMAIN pipe' : i \in Nat /\ i >= 1 /\ i + n \in DOMAIN pipe /\ pipe'[i] = pipe[i + n]
  BY DropIs
<1>2. OneOutcome'
  <2> SUFFICES ASSUME NEW i \in DOMAIN pipe', NEW j \in DOMAIN pipe',
                      IsEnv(pipe'[i], Outcomes), IsEnv(pipe'[j], Outcomes)
               PROVE  i = j
    BY DEF OneOutcome, IsEnv
  <2>1. i + n = j + n
    BY <1>1 DEF OneOutcome
  <2> QED BY <1>1, <2>1
<1>3. ASSUME NEW k \in 1..n, IsEnv(pipe[k], Outcomes) PROVE ~InPipe(Outcomes)'
  <2> SUFFICES ASSUME NEW i \in DOMAIN pipe', IsEnv(pipe'[i], Outcomes) PROVE FALSE
    BY DEF InPipe, IsEnv
  <2>1. k \in DOMAIN pipe /\ k # i + n
    BY <1>1
  <2> QED BY <1>1, <1>3, <2>1 DEF OneOutcome
<1>4. (InPipe(Outcomes)' => InPipe(Outcomes)) /\ (InPipe({"checkpoint-preserved"})' => InPipe({"checkpoint-preserved"}))
  <2>1. \A kinds : (\E i \in DOMAIN pipe' : IsEnv(pipe'[i], kinds)) => InPipe(kinds)
    BY LessTold
  <2> QED BY <2>1 DEF InPipe, IsEnv
<1> QED BY <1>1, <1>2, <1>3, <1>4

\* Between execs no outcome is told.
LEMMA OutcomeBetween ==
  ASSUME ProtocolAssumption, Turned', active' = NoExec, OneOutcome'
  PROVE  OutcomeInv'
<1>1. capture' = NoCapture
  BY DEF Turned, Turns
<1>2. session' = "live" => ~InPipe(Telling)'
  BY DEF Turned, Tellings
<1>3. session' = "live" => \A i \in DOMAIN pipe' : ~IsEnv(pipe'[i], {"checkpoint"}) /\ ~IsEnv(pipe'[i], {"checkpoint-preserved"})
  BY <1>2 DEF InPipe, IsEnv, Telling, Outcomes
<1>4. capture'.outcome = "none"
  BY <1>1 DEF NoCapture
<1> QED BY <1>3, <1>4 DEF OutcomeInv, OneOutcome, InPipe, IsEnv

\* Nor is one before the cell ended.
LEMMA OutcomeUntold == ~OutcomeSaid' => OutcomeInv'
<1> SUFFICES ASSUME ~OutcomeSaid' PROVE OutcomeInv'
  OBVIOUS
<1>1. capture'.outcome = "none" /\ \A i \in DOMAIN pipe' : ~IsEnv(pipe'[i], Outcomes)
  BY DEF OutcomeSaid, InPipe, IsEnv
<1>2. \A i \in DOMAIN pipe' : ~IsEnv(pipe'[i], {"checkpoint"}) /\ ~IsEnv(pipe'[i], {"checkpoint-preserved"})
  BY <1>1 DEF IsEnv, Outcomes
<1> QED BY <1>1, <1>2 DEF OutcomeInv, OutcomeSaid, InPipe, IsEnv

\* What a chunk makes of the capture.
LEMMA ChunkCaptured ==
  ASSUME ProtocolAssumption, Types, Turned, OutcomeInv, active # NoExec, NEW n \in 1..Len(pipe),
         pipe' = SubSeq(pipe, n + 1, Len(pipe)), NEW p, p = Pushed(SubSeq(pipe, 1, n)), NEW messages,
         NEW c, c = AllConsumed(WithMessages(capture, messages), p.found)
  PROVE  /\ c.status = "interrupted" <=> capture.status = "interrupted"
         /\ capture.status # "ok" => c.status # "ok"
         /\ (\E q \in DOMAIN p.found : p.found[q].kind = "error") => c.status # "ok"
         /\ c.outcome \in {"none", "commit", "preserved"}
         /\ c.outcome # "none" => OutcomeSaid /\ ~InPipe(Outcomes)'
         /\ c.outcome = "commit" => c.commit = left[active] /\ (host.at # "dead" => left[active] = host.holds)
         /\ c.outcome = "preserved" => kind = "cpp"
<1>1. pipe \in Seq(Atoms) /\ lines \in LinesType /\ capture \in CaptureType /\ Len(pipe) \in Nat /\ DOMAIN pipe = 1..Len(pipe)
  BY DEF Types
<1>2. OneOutcome
  BY DEF OutcomeInv, OneOutcome
<1>3. /\ p.found \in Seq(Envs)
      /\ \A q \in DOMAIN p.found : \E k \in 1..n :
            pipe[k].a = "close" /\ p.found[q] = pipe[k].env /\ pipe[k].env.kind # "done"
      /\ \A q, r \in DOMAIN p.found :
            p.found[q].kind \in Outcomes /\ p.found[r].kind \in Outcomes => q = r
  BY <1>1, <1>2, FoundIs, SMTT(20) DEF OneOutcome
<1>4. \A q \in DOMAIN p.found : p.found[q].kind # "done"
  BY <1>3
<1>5. \A q \in DOMAIN p.found : p.found[q].kind \in Outcomes =>
        \E k \in 1..n : IsEnv(pipe[k], Outcomes) /\ p.found[q] = pipe[k].env /\ k \in DOMAIN pipe
  BY <1>1, <1>3, SMTT(20) DEF IsEnv
<1>6. capture.outcome # "none" => ~InPipe(Outcomes)
  BY DEF OutcomeInv
<1>7. capture.outcome # "none" => \A q \in DOMAIN p.found : p.found[q].kind \notin Outcomes
  BY <1>5, <1>6 DEF InPipe
<1>8. /\ \/ c.outcome = capture.outcome /\ c.commit = capture.commit
         \/ \E q \in DOMAIN p.found : /\ p.found[q].kind = "checkpoint"
                                      /\ c.outcome = "commit" /\ c.commit = p.found[q].val
         \/ \E q \in DOMAIN p.found : p.found[q].kind = "checkpoint-preserved" /\ c.outcome = "preserved"
      /\ c.status = "interrupted" <=> capture.status = "interrupted"
      /\ capture.status # "ok" => c.status # "ok"
      /\ (\E q \in DOMAIN p.found : p.found[q].kind = "error") => c.status # "ok"
  <2> DEFINE f == p.found
  <2>1. f \in Seq(Envs) /\ (\A q \in DOMAIN f : f[q].kind # "done")
        /\ (\A q, r \in DOMAIN f : f[q].kind \in Outcomes /\ f[r].kind \in Outcomes => q = r)
        /\ (capture.outcome # "none" => \A q \in DOMAIN f : f[q].kind \notin Outcomes)
    BY <1>3, <1>4, <1>7
  <2>2. c = AllConsumed(WithMessages(capture, messages), f)
    OBVIOUS
  <2> HIDE DEF f
  <2>3. LET d == AllConsumed(WithMessages(capture, messages), f) IN
         /\ \/ d.outcome = capture.outcome /\ d.commit = capture.commit
            \/ \E q \in DOMAIN f : /\ f[q].kind = "checkpoint"
                                   /\ d.outcome = "commit" /\ d.commit = f[q].val
            \/ \E q \in DOMAIN f : f[q].kind = "checkpoint-preserved" /\ d.outcome = "preserved"
         /\ d.status = "interrupted" <=> capture.status = "interrupted"
         /\ capture.status # "ok" => d.status # "ok"
         /\ (\E q \in DOMAIN f : f[q].kind = "error") => d.status # "ok"
    BY <1>1, <2>1, CapturedIs
  <2> QED BY <2>2, <2>3 DEF f
<1>9. session = "live"
  BY DEF Turned, Turns, Types
<1>10. CASE c.outcome = capture.outcome /\ c.commit = capture.commit
  <2>1. c.outcome # "none" => ~InPipe(Outcomes)'
    BY <1>1, <1>2, <1>6, <1>10, LessOutcome
  <2>2. capture.outcome \in {"none", "commit", "preserved"}
    BY <1>1 DEF OutcomeInv, CaptureType
  <2> QED BY <1>8, <1>9, <1>10, <2>1, <2>2 DEF OutcomeInv, OutcomeSaid
<1>11. ASSUME NEW q \in DOMAIN p.found, p.found[q].kind = "checkpoint",
              c.outcome = "commit", c.commit = p.found[q].val
       PROVE  /\ c.outcome # "none" => OutcomeSaid /\ ~InPipe(Outcomes)'
              /\ c.commit = left[active] /\ (host.at # "dead" => left[active] = host.holds)
  <2>1. PICK k \in 1..n : IsEnv(pipe[k], Outcomes) /\ p.found[q] = pipe[k].env /\ k \in DOMAIN pipe
    BY <1>5, <1>11 DEF Outcomes
  <2>2. IsEnv(pipe[k], {"checkpoint"})
    BY <1>11, <2>1 DEF IsEnv
  <2>3. ~InPipe(Outcomes)'
    BY <1>1, <1>2, <2>1, LessOutcome
  <2> QED BY <1>9, <1>11, <2>1, <2>2, <2>3 DEF OutcomeInv, OutcomeSaid, InPipe
<1>12. ASSUME NEW q \in DOMAIN p.found, p.found[q].kind = "checkpoint-preserved", c.outcome = "preserved"
       PROVE  /\ c.outcome # "none" => OutcomeSaid /\ ~InPipe(Outcomes)'
              /\ kind = "cpp"
  <2>1. PICK k \in 1..n : IsEnv(pipe[k], Outcomes) /\ p.found[q] = pipe[k].env /\ k \in DOMAIN pipe
    BY <1>5, <1>12 DEF Outcomes
  <2>2. IsEnv(pipe[k], {"checkpoint-preserved"})
    BY <1>12, <2>1 DEF IsEnv
  <2>3. ~InPipe(Outcomes)'
    BY <1>1, <1>2, <2>1, LessOutcome
  <2> QED BY <1>9, <2>1, <2>2, <2>3 DEF OutcomeInv, OutcomeSaid, InPipe
<1> QED BY <1>8, <1>10, <1>11, <1>12

LEMMA JoinIs ==
  pipe \in Seq(Atoms) =>
    \A x, y, u, z \in Atoms : (pipe \o <<x, y>>) \o <<u, z>> = pipe \o <<x, y, u, z>>
<1> SUFFICES ASSUME pipe \in Seq(Atoms), NEW x \in Atoms, NEW y \in Atoms, NEW u \in Atoms, NEW z \in Atoms
             PROVE  (pipe \o <<x, y>>) \o <<u, z>> = pipe \o <<x, y, u, z>>
  OBVIOUS
<1>1. /\ <<x, y, u, z>> \in Seq(Atoms) /\ DOMAIN <<x, y, u, z>> = 1..4 /\ <<x, y, u, z>>[1] = x
      /\ <<x, y, u, z>>[2] = y /\ <<x, y, u, z>>[3] = u /\ <<x, y, u, z>>[4] = z
  OBVIOUS
<1> QED OBVIOUS

LEMMA OutcomeInit == ProtocolAssumption /\ ProtocolInit => OutcomeInv
<1> SUFFICES ASSUME ProtocolAssumption, ProtocolInit PROVE OutcomeInv
  OBVIOUS
<1>1. pipe = <<>> /\ capture.outcome = "none" /\ DOMAIN <<>> = {}
  BY DEF ProtocolInit, NoCapture
<1> QED BY <1>1 DEF OutcomeInv, OutcomeSaid, InPipe

\* A step before the cell told its outcome, which tells none.
LEMMA UntoldStays ==
  ASSUME Types, Turned, OutcomeInv, active # NoExec,
         host.at \in {"cell", "ending"} \/ stdin # NoExec, capture' = capture,
         NEW w \in Seq(Atoms), pipe' = pipe \o w, \A i \in DOMAIN w : ~IsEnv(w[i], Outcomes)
  PROVE  OutcomeInv'
<1>1. ~OutcomeSaid
  BY DEF OutcomeInv
<1>2. InPipe(Outcomes)' => InPipe(Outcomes)
  BY NoOutcomeTold DEF Types
<1>3. ~OutcomeSaid'
  BY <1>1, <1>2 DEF OutcomeSaid
<1> QED BY <1>3, OutcomeUntold

\* A step that tells no outcome, and changes nothing of what the one told is of.
LEMMA OutcomeKept ==
  ASSUME Types, OutcomeInv, NEW w \in Seq(Atoms), pipe' = pipe \o w,
         \A i \in DOMAIN w : ~IsEnv(w[i], Outcomes),
         active' = active, stdin' = stdin \/ stdin' = NoExec, capture'.outcome = capture.outcome,
         capture'.commit = capture.commit,
         left' = left, kind' = kind, session' = session,
         host'.at = "dead" \/ host'.holds = host.holds,
         host.at = "dead" => host'.at = "dead",
         OutcomeSaid => host'.at \in {"done", "prompt", "idle", "dead"}
  PROVE  OutcomeInv'
<1>1. /\ OneOutcome => OneOutcome'
      /\ \A i \in DOMAIN pipe' : IsEnv(pipe'[i], Outcomes) => i \in DOMAIN pipe /\ pipe'[i] = pipe[i]
      /\ InPipe(Outcomes)' => InPipe(Outcomes)
      /\ InPipe({"checkpoint-preserved"})' => InPipe({"checkpoint-preserved"})
  BY NoOutcomeTold DEF Types
<1>2. OneOutcome'
  BY <1>1 DEF OutcomeInv, OneOutcome
<1>3. OutcomeSaid' => OutcomeSaid
  BY <1>1 DEF OutcomeSaid
<1>4. \A i \in DOMAIN pipe' : IsEnv(pipe'[i], {"checkpoint"}) => i \in DOMAIN pipe /\ pipe'[i] = pipe[i]
  <2>1. \A i \in DOMAIN pipe' : IsEnv(pipe'[i], {"checkpoint"}) => IsEnv(pipe'[i], Outcomes)
    BY DEF IsEnv, Outcomes
  <2> QED BY <1>1, <2>1
<1>5. ASSUME NEW i \in DOMAIN pipe', IsEnv(pipe'[i], {"checkpoint"}), session' = "live"
      PROVE  pipe'[i].env.val = left'[active'] /\ (host'.at # "dead" => left'[active'] = host'.holds)
  <2>1. i \in DOMAIN pipe /\ pipe'[i] = pipe[i]
    BY <1>4, <1>5
  <2> QED BY <1>5, <2>1 DEF OutcomeInv
<1> QED BY <1>1, <1>2, <1>3, <1>5 DEF OutcomeInv, OneOutcome, IsEnv

LEMMA OutcomeNext ==
  ProtocolAssumption /\ Types /\ Types' /\ Turned /\ Turned' /\ OutcomeInv /\ [ProtocolNext]_protocolVars => OutcomeInv'
<1> SUFFICES ASSUME ProtocolAssumption, Types, Types', Turned, Turned', OutcomeInv, [ProtocolNext]_protocolVars
             PROVE  OutcomeInv'
  OBVIOUS
<1>t. /\ pipe \in Seq(Atoms) /\ lines \in LinesType /\ host \in HostType /\ RecordType(record)
      /\ host.at \in {"cell", "ending", "done"} => host.exec \in Cells
      /\ active \in {NoExec} \cup Cells /\ (held => active # NoExec) /\ said \in [Cells -> Seq(Envs)]
      /\ left \in [Cells -> Nat] /\ host.holds \in Nat
  BY DEF Types, HostType
<1>e. <<>> \in Seq(Atoms) /\ DOMAIN <<>> = {} /\ \A i \in DOMAIN <<>> : ~IsEnv(<<>>[i], Outcomes)
  OBVIOUS
<1>s. pipe' = pipe => pipe' = pipe \o <<>>
  BY <1>t
<1>w. host.at \in {"cell", "ending", "done"} => active # NoExec /\ host.exec = active
  BY DEF Turned, Turns, Running
<1>o. OneOutcome
  BY DEF OutcomeInv, OneOutcome
<1>0. CASE UNCHANGED protocolVars
  BY <1>0 DEF protocolVars, OutcomeInv, OutcomeSaid, InPipe
<1>1. CASE HostReads
  <2>1. active # NoExec /\ stdin # NoExec /\ capture' = capture /\ pipe' = pipe
    BY <1>1 DEF HostReads, Turned, Turns, Untouched
  <2> QED BY <1>e, <1>s, <2>1, UntoldStays
<1>2. CASE Prints
  <2>1. Says("stdout") /\ host.exec \in Cells /\ host.at = "cell" /\ capture' = capture
    BY <1>t, <1>2 DEF Prints, Untouched
  <2>2. PICK v \in Nat : Env("stdout", v) \in Envs /\ pipe' = pipe \o Envelope(host.exec, Env("stdout", v))
    BY <1>t, <2>1, SaysTyped
  <2>3. \A i \in DOMAIN Envelope(host.exec, Env("stdout", v)) : ~IsEnv(Envelope(host.exec, Env("stdout", v))[i], Outcomes)
    BY <2>1, <2>2, EnvelopeTells DEF Env, Outcomes
  <2> QED BY <1>w, <2>1, <2>2, <2>3, EnvelopeTyped, UntoldStays
<1>3. CASE CellEnds
  <2>1. host.at = "cell" /\ capture' = capture /\ pipe' = pipe
    BY <1>3 DEF CellEnds, Untouched
  <2> QED BY <1>e, <1>s, <1>w, <2>1, UntoldStays
<1>4. CASE CellFails
  <2>1. Says("error") /\ host.exec \in Cells /\ host.at = "cell" /\ capture' = capture
    BY <1>t, <1>4 DEF CellFails, Untouched
  <2>2. PICK v \in Nat : Env("error", v) \in Envs /\ pipe' = pipe \o Envelope(host.exec, Env("error", v))
    BY <1>t, <2>1, SaysTyped
  <2>3. \A i \in DOMAIN Envelope(host.exec, Env("error", v)) : ~IsEnv(Envelope(host.exec, Env("error", v))[i], Outcomes)
    BY <2>1, <2>2, EnvelopeTells DEF Env, Outcomes
  <2> QED BY <1>w, <2>1, <2>2, <2>3, EnvelopeTyped, UntoldStays
<1>5. CASE TellsCheckpoint
  <2> DEFINE preserved == PreservesOnFailure(kind) /\ host.failed
             env == IF preserved THEN Env("checkpoint-preserved", NoExec) ELSE Env("checkpoint", host.holds)
             w == Envelope(host.exec, env)
  <2>1. host.exec \in Cells /\ host.at = "ending" /\ host.exec = active /\ active # NoExec
    BY <1>t, <1>w, <1>5 DEF TellsCheckpoint
  <2>2. pipe' = pipe \o w /\ left' = (IF preserved THEN left ELSE [left EXCEPT ![active] = host.holds])
    BY <1>5, <2>1 DEF TellsCheckpoint, Writes
  <2>3. env \in Envs
    BY <1>t, EnvTyped
  <2>4. env.kind = (IF preserved THEN "checkpoint-preserved" ELSE "checkpoint") /\ (~preserved => env.val = host.holds)
    BY DEF Env
  <2>5. preserved => kind = "cpp"
    BY DEF PreservesOnFailure
  <2> HIDE DEF env, preserved
  <2>6. /\ w \in Seq(Atoms) /\ Len(w) = 2 /\ DOMAIN w = 1..2 /\ w[2] = Closing(env)
        /\ \A kinds : \A i \in DOMAIN w : IsEnv(w[i], kinds) <=> i = 2 /\ env.kind \in kinds
    BY <2>1, <2>3, EnvelopeTyped, EnvelopeTells
  <2> HIDE DEF w
  <2>7. ~OutcomeSaid
    BY <2>1 DEF OutcomeInv
  <2>8. /\ active' = active /\ capture' = capture /\ kind' = kind /\ session' = session /\ stdin' = stdin
        /\ host'.at = "done" /\ host'.holds = host.holds
    BY <1>t, <1>5 DEF TellsCheckpoint, Untouched, HostType
  <2>9. \A i \in DOMAIN pipe' : \/ i \in DOMAIN pipe /\ pipe'[i] = pipe[i]
                                \/ i - Len(pipe) \in DOMAIN w /\ pipe'[i] = w[i - Len(pipe)]
    BY <1>t, <2>2, <2>6, AppendIs
  <2>10. \A i \in DOMAIN pipe' : IsEnv(pipe'[i], Outcomes) => i - Len(pipe) = 2 /\ pipe'[i] = Closing(env)
    BY <2>6, <2>7, <2>9 DEF OutcomeSaid, InPipe
  <2>11. DOMAIN pipe' = 1..Len(pipe') /\ Len(pipe) \in Nat /\ Len(pipe') \in Nat
    BY <1>t, SMTT(20) DEF Types
  <2>12. OneOutcome'
    <3> SUFFICES ASSUME NEW i \in DOMAIN pipe', NEW j \in DOMAIN pipe',
                        IsEnv(pipe'[i], Outcomes), IsEnv(pipe'[j], Outcomes)
                 PROVE  i = j
      BY DEF OneOutcome, IsEnv
    <3>1. i - Len(pipe) = 2 /\ j - Len(pipe) = 2
      BY <2>10
    <3> QED BY <2>11, <3>1
  <2>13. stdin = NoExec /\ capture.outcome = "none"
    BY <2>1, <2>7 DEF Turned, Turns, Running, OutcomeSaid
  <2>14. \A i \in DOMAIN pipe' : IsEnv(pipe'[i], {"checkpoint"}) =>
           ~preserved /\ pipe'[i].env.val = left'[active'] /\ left'[active'] = host'.holds
    <3> SUFFICES ASSUME NEW i \in DOMAIN pipe', IsEnv(pipe'[i], {"checkpoint"})
                 PROVE  ~preserved /\ pipe'[i].env.val = left'[active'] /\ left'[active'] = host'.holds
      OBVIOUS
    <3>1. IsEnv(pipe'[i], Outcomes)
      BY DEF IsEnv, Outcomes
    <3>2. pipe'[i] = Closing(env)
      BY <2>10, <3>1
    <3>3. pipe'[i].env = env /\ env.kind = "checkpoint"
      BY <3>2 DEF Closing, IsEnv
    <3>4. ~preserved
      BY <2>4, <3>3
    <3> QED BY <1>t, <2>1, <2>2, <2>4, <2>8, <3>3, <3>4
  <2>15. InPipe({"checkpoint-preserved"})' => kind' = "cpp"
    <3> SUFFICES ASSUME NEW i \in DOMAIN pipe', IsEnv(pipe'[i], {"checkpoint-preserved"}) PROVE kind' = "cpp"
      BY DEF InPipe, IsEnv
    <3>1. IsEnv(pipe'[i], Outcomes)
      BY DEF IsEnv, Outcomes
    <3>2. pipe'[i] = Closing(env)
      BY <2>10, <3>1
    <3>3. env.kind = "checkpoint-preserved"
      BY <3>2 DEF Closing, IsEnv
    <3> QED BY <2>4, <2>5, <2>8, <3>3
  <2> QED BY <2>1, <2>8, <2>12, <2>13, <2>14, <2>15 DEF OutcomeInv, OneOutcome, IsEnv
<1>6. CASE CheckpointFails
  <2> DEFINE v == Len(said[host.exec]) + 1
             error == Env("error", v)
             kept == Env("checkpoint-preserved", NoExec)
             a == Envelope(host.exec, error)
             b == Envelope(host.exec, kept)
  <2>1. host.exec \in Cells /\ host.at = "ending" /\ host.exec = active /\ active # NoExec /\ ~OutcomeSaid /\ stdin = NoExec
    BY <1>t, <1>w, <1>6 DEF CheckpointFails, OutcomeInv, Turned, Turns, Running
  <2>2. v \in Nat
    BY <1>t, <2>1
  <2>3. pipe' = (pipe \o a) \o (IF PreservesOnFailure(kind) THEN b ELSE <<>>)
    BY <1>6 DEF CheckpointFails
  <2>4. error \in Envs /\ kept \in Envs /\ error.kind = "error" /\ kept.kind = "checkpoint-preserved"
    <3> HIDE DEF v
    <3> QED BY <2>2, EnvTyped DEF Env
  <2>5. /\ a \in Seq(Atoms) /\ b \in Seq(Atoms) /\ Len(a) = 2 /\ Len(b) = 2 /\ DOMAIN b = 1..2 /\ DOMAIN a = 1..2
        /\ \A kinds : \A i \in DOMAIN a : IsEnv(a[i], kinds) <=> i = 2 /\ error.kind \in kinds
        /\ \A kinds : \A i \in DOMAIN b : IsEnv(b[i], kinds) <=> i = 2 /\ kept.kind \in kinds
    BY <2>1, <2>4, EnvelopeTyped, EnvelopeTells
  <2>6. /\ active' = active /\ capture' = capture /\ kind' = kind /\ session' = session /\ stdin' = stdin
        /\ host'.at = "done" /\ host'.holds = host.holds /\ left' = left
    BY <1>t, <1>6 DEF CheckpointFails, Untouched, HostType
  <2>j. /\ a = <<Open(host.exec), Closing(error)>> /\ b = <<Open(host.exec), Closing(kept)>>
        /\ Open(host.exec) \in Atoms /\ Closing(error) \in Atoms /\ Closing(kept) \in Atoms
    BY <2>1, <2>4, EnvelopeTyped
  <2> HIDE DEF error, kept, v, a, b
  <2>7. CASE ~PreservesOnFailure(kind)
    <3>1. pipe' = pipe \o a
      BY <1>t, <2>3, <2>5, <2>7
    <3>2. \A i \in DOMAIN a : ~IsEnv(a[i], Outcomes)
      BY <2>4, <2>5 DEF Outcomes
    <3> QED BY <2>1, <2>5, <2>6, <3>1, <3>2, UntoldStays
  <2>8. CASE PreservesOnFailure(kind)
    <3> DEFINE w == <<Open(host.exec), Closing(error), Open(host.exec), Closing(kept)>>
    <3>1. pipe' = (pipe \o a) \o b
      BY <2>3, <2>8
    <3>2. pipe' = pipe \o w
      <4>2. \A x, y, u, z \in Atoms : (pipe \o <<x, y>>) \o <<u, z>> = pipe \o <<x, y, u, z>>
        BY <1>t, JoinIs
      <4>1. (pipe \o <<Open(host.exec), Closing(error)>>) \o <<Open(host.exec), Closing(kept)>> = pipe \o w
        BY <2>j, <4>2, Zenon
      <4> QED BY <2>j, <3>1, <4>1, Zenon
    <3>3. w \in Seq(Atoms) /\ DOMAIN w = 1..4 /\ w[1] = Open(host.exec) /\ w[2] = Closing(error)
          /\ w[3] = Open(host.exec) /\ w[4] = Closing(kept)
      BY <2>j
    <3>s. \A i \in 1..4 : i = 1 \/ i = 2 \/ i = 3 \/ i = 4
      OBVIOUS
    <3>k. Open(host.exec).a = "open" /\ Closing(error).env = error /\ Closing(kept).env = kept
      BY DEF Open, Closing
    <3> HIDE DEF w
    <3>4. \A i \in DOMAIN w : IsEnv(w[i], Outcomes) => i = 4
      BY <2>4, <3>3, <3>s, <3>k DEF IsEnv, Outcomes
    <3>5. \A i \in DOMAIN w : ~IsEnv(w[i], {"checkpoint"})
      BY <2>4, <3>3, <3>s, <3>k DEF IsEnv
    <3>6. \A i \in DOMAIN pipe' : \/ i \in DOMAIN pipe /\ pipe'[i] = pipe[i]
                                  \/ i - Len(pipe) \in DOMAIN w /\ pipe'[i] = w[i - Len(pipe)]
      BY <1>t, <3>2, <3>3, AppendIs
    <3>7. \A i \in DOMAIN pipe' : IsEnv(pipe'[i], Outcomes) => i - Len(pipe) = 4
      BY <2>1, <3>4, <3>6 DEF OutcomeSaid, InPipe
    <3>8. OneOutcome'
      <4> SUFFICES ASSUME NEW i \in DOMAIN pipe', NEW j \in DOMAIN pipe',
                          IsEnv(pipe'[i], Outcomes), IsEnv(pipe'[j], Outcomes)
                   PROVE  i = j
        BY DEF OneOutcome, IsEnv
      <4>1. i - Len(pipe) = 4 /\ j - Len(pipe) = 4
        BY <3>7
      <4>2. DOMAIN pipe' = 1..Len(pipe') /\ Len(pipe) \in Nat /\ Len(pipe') \in Nat
        BY <1>t, SMTT(20) DEF Types
      <4> QED BY <4>1, <4>2
    <3>9. \A i \in DOMAIN pipe' : ~IsEnv(pipe'[i], {"checkpoint"})
      <4>1. \A i \in DOMAIN pipe : ~IsEnv(pipe[i], {"checkpoint"})
        BY <2>1 DEF OutcomeSaid, InPipe, IsEnv, Outcomes
      <4> QED BY <3>5, <3>6, <4>1
    <3>10. kind = "cpp" /\ capture.outcome = "none"
      BY <2>1, <2>8 DEF PreservesOnFailure, OutcomeSaid
    <3> QED BY <2>1, <2>6, <3>8, <3>9, <3>10 DEF OutcomeInv, OneOutcome, IsEnv
  <2> QED BY <2>7, <2>8
<1>7. CASE SaysDone
  <2> DEFINE w == Envelope(host.exec, Env("done", NoExec))
  <2>1. host.exec \in Cells /\ host.at = "done" /\ Env("done", NoExec) \in Envs /\ pipe' = pipe \o w
    BY <1>t, <1>7, EnvTyped DEF SaysDone, Writes
  <2>2. Env("done", NoExec).kind = "done"
    BY DEF Env
  <2>3. w \in Seq(Atoms) /\ \A i \in DOMAIN w : ~IsEnv(w[i], Outcomes)
    BY <2>1, <2>2, EnvelopeTyped, EnvelopeTells DEF Outcomes
  <2> HIDE DEF w
  <2>4. /\ active' = active /\ stdin' = stdin /\ capture' = capture /\ left' = left /\ kind' = kind
        /\ session' = session /\ host'.holds = host.holds /\ host'.at = "prompt"
    BY <1>t, <1>7 DEF SaysDone, Untouched, HostType
  <2> QED BY <2>1, <2>3, <2>4, OutcomeKept
<1>8. CASE Prompts
  <2>1. pipe' = pipe \o <<Prompt>> /\ <<Prompt>> \in Seq(Atoms) /\ DOMAIN <<Prompt>> = {1} /\ <<Prompt>>[1] = Prompt
    <3>1. pipe' = Append(pipe, Prompt)
      BY <1>8 DEF Prompts
    <3> QED BY <1>t, <3>1, AtomsTyped
  <2>2. \A i \in DOMAIN <<Prompt>> : ~IsEnv(<<Prompt>>[i], Outcomes)
    BY <2>1 DEF IsEnv, Prompt
  <2>4. /\ active' = active /\ stdin' = stdin /\ capture' = capture /\ left' = left /\ kind' = kind
        /\ session' = session /\ host'.holds = host.holds /\ host'.at = "idle" /\ host.at = "prompt"
    BY <1>t, <1>8 DEF Prompts, Untouched, HostType, Fresh
  <2> QED BY <2>1, <2>2, <2>4, OutcomeKept
<1>9. CASE TakesSignal
  <2>0. /\ active' = active /\ capture' = capture /\ left' = left /\ kind' = kind /\ session' = session
    BY <1>9 DEF TakesSignal, Untouched
  <2>1. CASE /\ kind = "python" /\ host.at = "cell"
             /\ Says("error")
             /\ host' = [host EXCEPT !.at = "ending", !.failed = TRUE, !.signalled = FALSE]
             /\ UNCHANGED stdin
    <3>1. host.exec \in Cells
      BY <1>t, <2>1
    <3>2. PICK v \in Nat : Env("error", v) \in Envs /\ pipe' = pipe \o Envelope(host.exec, Env("error", v))
      BY <1>t, <2>1, <3>1, SaysTyped
    <3>3. \A i \in DOMAIN Envelope(host.exec, Env("error", v)) : ~IsEnv(Envelope(host.exec, Env("error", v))[i], Outcomes)
      BY <3>1, <3>2, EnvelopeTells, ZenonT(40) DEF Env, Outcomes
    <3> QED BY <1>w, <2>0, <2>1, <3>1, <3>2, <3>3, EnvelopeTyped, UntoldStays
  <2>2. CASE /\ kind = "bun" /\ host.at \in {"cell", "idle"}
             /\ host' = [host EXCEPT !.at = "prompt", !.signalled = FALSE]
             /\ stdin' = IF host.at = "idle" /\ stdin = intr THEN NoExec ELSE stdin
             /\ UNCHANGED <<pipe, said>>
    <3>1. host'.at = "prompt" /\ host'.holds = host.holds /\ pipe' = pipe /\ (stdin' = NoExec \/ stdin' = stdin)
      BY <1>t, <2>2 DEF HostType
    <3> QED BY <1>e, <1>s, <2>0, <2>2, <3>1, OutcomeKept
  <2>3. CASE /\ kind = "dotnet" \/ (kind = "python" /\ host.at # "cell")
             /\ host' = Dead
             /\ UNCHANGED <<stdin, pipe, said>>
    <3>1. host'.at = "dead" /\ pipe' = pipe /\ stdin' = stdin
      BY <1>t, <2>3, DeadTyped
    <3> QED BY <1>e, <1>s, <2>0, <3>1, OutcomeKept
  <2> QED BY <1>9, <2>1, <2>2, <2>3 DEF TakesSignal
<1>10. CASE HostDies
  <2>0. /\ active' = active /\ capture' = capture /\ left' = left /\ kind' = kind /\ session' = session
        /\ host'.at = "dead" /\ pipe' = pipe /\ stdin' = stdin
    BY <1>t, <1>10, DeadTyped DEF HostDies, Untouched
  <2> QED BY <1>e, <1>s, <2>0, OutcomeKept
<1>11. CASE LeftoverWrites
  <2>0. /\ active' = active /\ capture' = capture /\ left' = left /\ kind' = kind /\ session' = session
        /\ host' = host /\ stdin' = stdin
    BY <1>11 DEF LeftoverWrites, Untouched
  <2>1. PICK w \in Seq(Atoms) : pipe' = pipe \o w /\ \A i \in DOMAIN w : ~IsEnv(w[i], Telling)
    BY <1>11, LeftoverIs
  <2>2. \A i \in DOMAIN w : ~IsEnv(w[i], Outcomes)
    BY <2>1 DEF IsEnv, Telling
  <2>3. CASE OutcomeSaid /\ active # NoExec
    <3>1. host'.at \in {"done", "prompt", "idle", "dead"}
      BY <2>0, <2>3 DEF OutcomeInv
    <3> QED BY <2>0, <2>1, <2>2, <3>1, OutcomeKept
  <2>4. CASE ~OutcomeSaid
    <3> QED BY <2>0, <2>1, <2>2, <2>4, OutcomeKept
  <2>5. CASE active = NoExec
    <3>1. OneOutcome'
      BY <1>t, <1>o, <2>1, <2>2, NoOutcomeTold
    <3>2. active' = NoExec
      BY <2>0, <2>5
    <3> QED BY <3>1, <3>2, OutcomeBetween
  <2> QED BY <2>3, <2>4, <2>5
<1>12. CASE \E e \in Cells : Start(e)
  <2>1. session = "live" /\ active = NoExec /\ pipe' = pipe /\ capture' = NoCapture
    BY <1>12 DEF Start
  <2>2. ~InPipe(Telling)
    BY <2>1 DEF Turned, Tellings
  <2>3. ~InPipe(Outcomes)
    BY <2>2 DEF InPipe, IsEnv, Telling
  <2>4. ~OutcomeSaid'
    BY <2>1, <2>3 DEF OutcomeSaid, InPipe, NoCapture
  <2> QED BY <2>4, OutcomeUntold
<1>13. CASE ReadsChunk
  <2>1. PICK n \in 1..Len(pipe) : ReadsUpTo(n)
    BY <1>13, ReadsIs
  <2>2. pipe' = SubSeq(pipe, n + 1, Len(pipe))
    BY <2>1 DEF ReadsUpTo
  <2>3. /\ OneOutcome'
        /\ \A i \in DOMAIN pipe' : i + n \in DOMAIN pipe /\ pipe'[i] = pipe[i + n]
        /\ InPipe(Outcomes)' => InPipe(Outcomes)
        /\ InPipe({"checkpoint-preserved"})' => InPipe({"checkpoint-preserved"})
    BY <1>t, <1>o, <2>2, LessOutcome
  <2>4. CASE active' = NoExec
    BY <2>3, <2>4, OutcomeBetween
  <2>5. CASE active' # NoExec
    <3>1. /\ kind' = kind /\ host' = host /\ stdin' = stdin /\ session' = session /\ left' = left
          /\ active' = active /\ active # NoExec /\ session = "live"
      <4>1. CASE active = NoExec \/ held \/ session = "quarantined"
        BY <2>1, <2>5, <4>1 DEF ReadsUpTo, Types, Turned, Turns
      <4>2. CASE ~(active = NoExec \/ held \/ session = "quarantined")
        BY <2>1, <2>5, <4>2 DEF ReadsUpTo, EndsExec, Unset, Types
      <4> QED BY <4>1, <4>2
    <3>2. /\ capture'.outcome \in {"none", "commit", "preserved"}
          /\ capture'.outcome # "none" => OutcomeSaid /\ ~InPipe(Outcomes)'
          /\ capture'.outcome = "commit" => capture'.commit = left[active] /\ (host.at # "dead" => left[active] = host.holds)
          /\ capture'.outcome = "preserved" => kind = "cpp"
      <4>1. CASE held
        <5>1. capture' = capture
          BY <2>1, <4>1 DEF ReadsUpTo
        <5> QED BY <2>3, <3>1, <5>1 DEF OutcomeInv, OutcomeSaid, Types, CaptureType
      <4>2. CASE ~held
        <5>1. PICK p, c :
                /\ p = Pushed(SubSeq(pipe, 1, n))
                /\ c = AllConsumed(WithMessages(capture, record[active].messages), p.found)
                /\ (EndsExec(c, c.messages) \/ capture' = Unmessaged(c))
          BY <2>1, <3>1, <4>2 DEF ReadsUpTo
        <5>2. capture' = Unmessaged(c)
          BY <2>5, <5>1 DEF EndsExec, Unset
        <5>3. capture'.outcome = c.outcome /\ capture'.commit = c.commit
          BY <5>2 DEF Unmessaged
        <5>4. p = Pushed(SubSeq(pipe, 1, n))
          BY <5>1
        <5>5. c = AllConsumed(WithMessages(capture, record[active].messages), p.found)
          BY <5>1
        <5>6. active # NoExec
          BY <3>1
        <5>7. /\ c.outcome \in {"none", "commit", "preserved"}
              /\ c.outcome # "none" => OutcomeSaid /\ ~InPipe(Outcomes)'
              /\ c.outcome = "commit" =>
                    c.commit = left[active] /\ (host.at # "dead" => left[active] = host.holds)
              /\ c.outcome = "preserved" => kind = "cpp"
          BY <2>2, <5>4, <5>5, <5>6, ChunkCaptured
        <5> QED BY <5>3, <5>7
      <4> QED BY <4>1, <4>2, <1>t DEF Types
    <3>3. OutcomeSaid' => OutcomeSaid
      BY <2>3, <3>2 DEF OutcomeSaid
    <3>4. ASSUME NEW i \in DOMAIN pipe', IsEnv(pipe'[i], {"checkpoint"}), session' = "live"
          PROVE  pipe'[i].env.val = left'[active'] /\ (host'.at # "dead" => left'[active'] = host'.holds)
      <4>1. i + n \in DOMAIN pipe /\ pipe'[i] = pipe[i + n]
        BY <2>3
      <4> QED BY <3>1, <3>4, <4>1 DEF OutcomeInv
    <3> QED BY <2>3, <3>1, <3>2, <3>3, <3>4 DEF OutcomeInv, OneOutcome, IsEnv
  <2> QED BY <2>4, <2>5
<1>14. CASE EndsHeld
  <2>1. pipe' = pipe /\ active' = NoExec
    BY <1>14 DEF EndsHeld, EndsExec, Unset
  <2>2. OneOutcome'
    BY <1>o, <2>1 DEF OneOutcome, IsEnv
  <2> QED BY <2>1, <2>2, OutcomeBetween
<1>15. CASE HearsOfExit
  <2>1. pipe' = <<>> /\ pipe = <<>>
    BY <1>15 DEF HearsOfExit
  <2>2. OneOutcome'
    BY <2>1 DEF OneOutcome
  <2>3. CASE active' = NoExec
    BY <2>2, <2>3, OutcomeBetween
  <2>4. CASE active' # NoExec
    <3>1. /\ session' = session /\ active' = active /\ capture' = capture
      BY <1>15, <2>4 DEF HearsOfExit, Unset
    <3>2. host'.at = "dead" /\ kind' = kind /\ stdin' = stdin /\ left' = left
      BY <1>t, <1>15 DEF HearsOfExit, HostType
    <3> QED BY <1>e, <1>s, <2>1, <3>1, <3>2, OutcomeKept
  <2> QED BY <2>3, <2>4
<1>16. CASE Interrupt
  <2>1. /\ active' = active /\ left' = left /\ kind' = kind /\ session' = session /\ pipe' = pipe
        /\ stdin' = stdin /\ active # NoExec
    BY <1>16 DEF Interrupt
  <2>2. host'.at = host.at /\ host'.holds = host.holds
    BY <1>t, <1>16 DEF Interrupt, HostType
  <2>3. capture'.outcome = capture.outcome /\ capture'.commit = capture.commit
    BY <1>16 DEF Interrupt, Types, CaptureType
  <2>4. OutcomeSaid => host'.at \in {"done", "prompt", "idle", "dead"}
    BY <2>1, <2>2 DEF OutcomeInv
  <2> QED BY <1>e, <1>s, <2>1, <2>2, <2>3, <2>4, OutcomeKept
<1>17. CASE SoftInterrupt
  <2>1. active' = NoExec /\ pipe' = <<>>
    BY <1>17 DEF SoftInterrupt, Finalized, Unset
  <2>2. OneOutcome'
    BY <2>1 DEF OneOutcome
  <2> QED BY <2>1, <2>2, OutcomeBetween
<1>18. CASE RecycleInterrupt
  <2>1. active' = NoExec /\ pipe' = <<>>
    BY <1>18 DEF RecycleInterrupt, Finalized, Unset, NewHost
  <2>2. OneOutcome'
    BY <2>1 DEF OneOutcome
  <2> QED BY <2>1, <2>2, OutcomeBetween
<1>19. CASE LateInterrupt
  BY <1>19 DEF LateInterrupt, OutcomeInv, OutcomeSaid, InPipe
<1>20. CASE ResetsHost
  <2>1. pipe' = <<>> /\ active' = NoExec
    BY <1>20 DEF ResetsHost, Finalized, Unset, NewHost
  <2>2. OneOutcome'
    BY <2>1 DEF OneOutcome
  <2> QED BY <2>1, <2>2, OutcomeBetween
<1>21. CASE Save
  BY <1>21 DEF Save, OutcomeInv, OutcomeSaid, InPipe
<1>22. CASE RunsOn
  BY <1>22 DEF RunsOn, OutcomeInv, OutcomeSaid, InPipe
<1> QED BY <1>0, <1>1, <1>2, <1>3, <1>4, <1>5, <1>6, <1>7, <1>8, <1>9, <1>10, <1>11, <1>12,
           <1>13, <1>14, <1>15, <1>16, <1>17, <1>18, <1>19, <1>20, <1>21, <1>22 DEF ProtocolNext

-----------------------------------------------------------------------------
(* Interrupts.                                                             *)

\* A step that starts and ends no exec, nor an interrupt.
LEMMA IntrKept ==
  ASSUME IntrInv, active' = active, intr' = intr, kind' = kind, capture'.status = capture.status,
         \A e \in Cells : record'[e].status = record[e].status, intr # NoExec => intr \in Cells,
         host'.signalled => host.signalled /\ host'.at # "dead",
         host'.signalled => stdin' = stdin \/ intr = active,
         host'.at = "prompt" /\ host'.exec = NoExec /\ active # NoExec /\ intr # active => stdin' # NoExec,
         host'.at = "dead" \/ host'.signalled = host.signalled \/ kind # "dotnet",
         host.at = "dead" => host'.at = "dead"
  PROVE  IntrInv'
BY DEF IntrInv

\* What ends the exec of itself.
LEMMA EndsIntr ==
  ASSUME ProtocolAssumption, Types, Turned, IntrInv, active # NoExec, NEW c, NEW messages,
         Unmessaged(c) \in CaptureType, EndsExec(c, messages),
         c.status = "interrupted" <=> capture.status = "interrupted"
  PROVE  IntrInv' /\ active' = NoExec /\ capture' = NoCapture
<1>1. active \in Cells /\ RecordType(record) /\ host \in HostType /\ intr \in {NoExec} \cup Cells
  BY DEF Types
<1>2. PICK failed \in BOOLEAN :
       /\ failed => Commits(c)
       /\ LET bad == Unsettled(c) \/ failed IN
          /\ record' = [record EXCEPT ![active] =
                          [status |-> IF bad THEN "error" ELSE c.status,
                           messages |-> IF bad THEN Append(messages, Told("checkpoint"))
                                        ELSE messages]]
          /\ host' = IF bad THEN Dead ELSE host
       /\ Unset
       /\ UNCHANGED <<kind, stdin, intr>>
  BY DEF EndsExec
<1> DEFINE bad == Unsettled(c) \/ failed
           s == IF bad THEN "error" ELSE c.status
           ms == IF bad THEN Append(messages, Told("checkpoint")) ELSE messages
<1>3. s \in {"ok", "error", "interrupted"}
  BY DEF Unmessaged, CaptureType
<1>4. c.status = "interrupted" => s = "interrupted"
  BY <1>2 DEF Unsettled, Commits
<1>5. record' = [record EXCEPT ![active] = [status |-> s, messages |-> ms]]
  BY <1>2
<1>6. host' = Dead \/ host' = host
  BY <1>2
<1> HIDE DEF s, ms
<1>7. record'[active].status = s /\ \A d \in Cells \ {active} : record'[d] = record[d]
  BY <1>1, <1>3, <1>5, RecordTyped
<1>8. active' = NoExec /\ held' = FALSE /\ lines' = NoLines /\ capture' = NoCapture
  BY <1>2, UnsetTyped
<1>9. kind' = kind /\ stdin' = stdin /\ intr' = intr
  BY <1>2
<1>10. host'.signalled => host.signalled /\ host' = host
  BY <1>1, <1>6, DeadTyped
<1>11. host'.at = "dead" \/ host' = host
  BY <1>1, <1>6, DeadTyped
<1>12. intr # NoExec => record'[intr].status = "interrupted"
  <2>1. CASE intr = active
    BY <1>1, <1>4, <1>7, <2>1 DEF IntrInv
  <2>2. CASE intr # active
    BY <1>1, <1>7, <2>2 DEF IntrInv
  <2> QED BY <2>1, <2>2
<1>13. \A e \in Cells : (record'[e].status # "none") <=> (record[e].status # "none")
  <2>1. record[active].status = "running"
    BY DEF Turned, Turns
  <2> QED BY <1>3, <1>7, <2>1
<1>14. \A d, e \in Cells : d < e /\ record'[e].status # "none" => record'[d].status # "none"
  BY <1>13 DEF IntrInv
<1>15. capture'.status # "interrupted"
  BY <1>8 DEF NoCapture
<1> QED BY <1>8, <1>9, <1>10, <1>11, <1>12, <1>14, <1>15 DEF IntrInv

LEMMA IntrInit == ProtocolAssumption /\ ProtocolInit => IntrInv
<1> SUFFICES ASSUME ProtocolAssumption, ProtocolInit PROVE IntrInv
  OBVIOUS
<1>1. host.at = "idle" /\ host.signalled = FALSE /\ active = NoExec /\ intr = NoExec /\ capture.status = "ok"
      /\ \A e \in Cells : record[e].status = "none"
  BY DEF ProtocolInit, Fresh, NoCapture
<1> QED BY <1>1 DEF IntrInv

LEMMA IntrNext ==
  ProtocolAssumption /\ Types /\ Types' /\ Turned /\ Turned' /\ OutcomeInv /\ IntrInv /\ [ProtocolNext]_protocolVars => IntrInv'
<1> SUFFICES ASSUME ProtocolAssumption, Types, Types', Turned, Turned', OutcomeInv, IntrInv, [ProtocolNext]_protocolVars
             PROVE  IntrInv'
  OBVIOUS
<1>t. /\ host \in HostType /\ RecordType(record) /\ capture \in CaptureType
      /\ host.at \in {"cell", "ending", "done"} => host.exec \in Cells
      /\ active \in {NoExec} \cup Cells /\ intr \in {NoExec} \cup Cells /\ (held => active # NoExec)
  BY DEF Types
<1>e. \A e \in Cells : e # NoExec /\ e \in Nat
  BY ExecsAre
<1>u. ASSUME Untouched
      PROVE  /\ active' = active /\ intr' = intr /\ kind' = kind /\ capture'.status = capture.status
             /\ \A e \in Cells : record'[e].status = record[e].status
  BY <1>u DEF Untouched
<1>0. CASE UNCHANGED protocolVars
  BY <1>0 DEF protocolVars, IntrInv
<1>1. CASE HostReads
  <2>1. Untouched /\ host.at = "idle" /\ stdin # NoExec /\ (host.signalled => stdin = intr)
    BY <1>1 DEF HostReads
  <2>2. stdin = active
    BY <2>1 DEF Turned, Turns
  <2>3. host'.at = "cell" /\ host'.signalled = host.signalled
    BY <1>t, <1>1 DEF HostReads, HostType
  <2> QED BY <1>t, <1>u, <2>1, <2>2, <2>3, IntrKept
<1>2. CASE Prints
  <2>1. Untouched /\ host.at = "cell" /\ stdin' = stdin
    BY <1>2 DEF Prints
  <2>2. host'.at = "cell" /\ host'.signalled = host.signalled
    <3>1. PICK h \in {host.holds, host.exec} : host' = [host EXCEPT !.prints = @ + 1, !.holds = h]
      BY <1>2 DEF Prints
    <3> QED BY <1>t, <2>1, <3>1 DEF HostType
  <2> QED BY <1>t, <1>u, <2>1, <2>2, IntrKept
<1>3. CASE CellEnds
  <2>1. Untouched /\ host.at = "cell" /\ stdin' = stdin
    BY <1>3 DEF CellEnds
  <2>2. host'.at = "ending" /\ host'.signalled = host.signalled
    BY <1>t, <1>3 DEF CellEnds, HostType
  <2> QED BY <1>t, <1>u, <2>1, <2>2, IntrKept
<1>4. CASE CellFails
  <2>1. Untouched /\ host.at = "cell" /\ stdin' = stdin
    BY <1>4 DEF CellFails
  <2>2. host'.at = "ending" /\ host'.signalled = host.signalled
    BY <1>t, <1>4 DEF CellFails, HostType
  <2> QED BY <1>t, <1>u, <2>1, <2>2, IntrKept
<1>5. CASE TellsCheckpoint
  <2>1. Untouched /\ host.at = "ending" /\ stdin' = stdin
    BY <1>5 DEF TellsCheckpoint
  <2>2. host'.at = "done" /\ host'.signalled = host.signalled
    BY <1>t, <1>5 DEF TellsCheckpoint, HostType
  <2> QED BY <1>t, <1>u, <2>1, <2>2, IntrKept
<1>6. CASE CheckpointFails
  <2>1. Untouched /\ host.at = "ending" /\ stdin' = stdin
    BY <1>6 DEF CheckpointFails
  <2>2. host'.at = "done" /\ host'.signalled = host.signalled
    BY <1>t, <1>6 DEF CheckpointFails, HostType
  <2> QED BY <1>t, <1>u, <2>1, <2>2, IntrKept
<1>7. CASE SaysDone
  <2>1. Untouched /\ host.at = "done" /\ stdin' = stdin
    BY <1>7 DEF SaysDone
  <2>2. host'.at = "prompt" /\ host'.signalled = host.signalled /\ host'.exec # NoExec
    BY <1>t, <1>e, <1>7 DEF SaysDone, HostType
  <2> QED BY <1>t, <1>u, <2>1, <2>2, IntrKept
<1>8. CASE Prompts
  <2>1. Untouched /\ host.at = "prompt" /\ stdin' = stdin
    BY <1>8 DEF Prompts
  <2>2. host'.at = "idle" /\ host'.signalled = host.signalled
    BY <1>8 DEF Prompts, Fresh
  <2> QED BY <1>t, <1>u, <2>1, <2>2, IntrKept
<1>9. CASE TakesSignal
  <2>0. Untouched /\ host.signalled
    BY <1>9 DEF TakesSignal
  <2>1. CASE /\ kind = "python" /\ host.at = "cell"
             /\ Says("error")
             /\ host' = [host EXCEPT !.at = "ending", !.failed = TRUE, !.signalled = FALSE]
             /\ UNCHANGED stdin
    <3>1. host'.at = "ending" /\ host'.signalled = FALSE /\ stdin' = stdin
      BY <1>t, <2>1 DEF HostType
    <3> QED BY <1>t, <1>u, <2>0, <2>1, <3>1, IntrKept
  <2>2. CASE /\ kind = "bun" /\ host.at \in {"cell", "idle"}
             /\ host' = [host EXCEPT !.at = "prompt", !.signalled = FALSE]
             /\ stdin' = IF host.at = "idle" /\ stdin = intr THEN NoExec ELSE stdin
             /\ UNCHANGED <<pipe, said>>
    <3>1. host'.at = "prompt" /\ host'.signalled = FALSE /\ host'.exec = host.exec
      BY <1>t, <2>2 DEF HostType
    <3>2. host.exec = NoExec => host.at = "idle"
      BY <1>t, <1>e, <2>2
    <3>3. host'.exec = NoExec /\ active # NoExec /\ intr # active => stdin' # NoExec
      BY <2>0, <2>2, <3>1, <3>2 DEF IntrInv, Turned, Turns
    <3> QED BY <1>t, <1>u, <2>0, <2>2, <3>1, <3>3, IntrKept
  <2>3. CASE /\ kind = "dotnet" \/ (kind = "python" /\ host.at # "cell")
             /\ host' = Dead
             /\ UNCHANGED <<stdin, pipe, said>>
    <3>1. host'.at = "dead" /\ host'.signalled = FALSE
      BY <1>t, <2>3, DeadTyped
    <3> QED BY <1>t, <1>u, <2>0, <3>1, IntrKept
  <2> QED BY <1>9, <2>1, <2>2, <2>3 DEF TakesSignal
<1>10. CASE HostDies
  <2>1. Untouched /\ host'.at = "dead" /\ host'.signalled = FALSE
    BY <1>t, <1>10, DeadTyped DEF HostDies
  <2> QED BY <1>t, <1>u, <2>1, IntrKept
<1>11. CASE LeftoverWrites
  <2>1. /\ active' = active /\ intr' = intr /\ kind' = kind /\ capture' = capture /\ record' = record
        /\ host' = host /\ stdin' = stdin
    BY <1>11 DEF LeftoverWrites, Untouched
  <2> QED BY <2>1 DEF IntrInv
<1>12. CASE \E e \in Cells : Start(e)
  <2>1. PICK e \in Cells : Start(e)
    BY <1>12
  <2>2. /\ active = NoExec /\ active' = e /\ stdin' = e /\ intr' = intr /\ host' = host /\ kind' = kind
        /\ record[e].status = "none" /\ \A d \in 1..(e - 1) : record[d].status # "none"
        /\ capture'.status = "ok"
    BY <2>1 DEF Start, NoCapture
  <2>3. record'[e].status = "running" /\ \A d \in Cells \ {e} : record'[d] = record[d]
    BY <1>t, <2>1, StatusTyped DEF Start
  <2>4. intr # NoExec => intr # e /\ record'[intr].status = "interrupted"
    BY <1>t, <2>2, <2>3 DEF IntrInv
  <2>5. \A d, f \in Cells : d < f /\ record'[f].status # "none" => record'[d].status # "none"
    <3> SUFFICES ASSUME NEW d \in Cells, NEW f \in Cells, d < f, record'[f].status # "none"
                 PROVE  record'[d].status # "none"
      OBVIOUS
    <3>1. CASE f = e
      <4>1. d \in 1..(e - 1)
        BY <3>1 DEF Cells, ProtocolAssumption
      <4> QED BY <2>2, <2>3, <3>1, <4>1, <1>e
    <3>2. CASE f # e
      BY <2>3, <3>2 DEF IntrInv
    <3> QED BY <3>1, <3>2
  <2>6. \A f \in Cells : record'[f].status # "none" => f <= e
    <3> SUFFICES ASSUME NEW f \in Cells, record'[f].status # "none", ~(f <= e) PROVE FALSE
      OBVIOUS
    <3>1. e < f /\ f # e
      BY <1>e
    <3> QED BY <2>2, <2>3, <3>1 DEF IntrInv
  <2>7. host.signalled => intr # NoExec /\ host.at # "dead"
    BY DEF IntrInv
  <2> QED BY <1>e, <2>2, <2>4, <2>5, <2>6, <2>7 DEF IntrInv
<1>13. CASE ReadsChunk
  <2>1. PICK n \in 1..Len(pipe) : ReadsUpTo(n)
    BY <1>13, ReadsIs
  <2>2. pipe' = SubSeq(pipe, n + 1, Len(pipe))
    BY <2>1 DEF ReadsUpTo
  <2>3. CASE active = NoExec \/ held \/ session = "quarantined"
    <3>1. UNCHANGED <<kind, host, stdin, active, held, lines, capture, record, intr, store,
                       session, saved, spent, said, left, ended>>
      BY <2>1, <2>3 DEF ReadsUpTo
    <3> QED BY <3>1 DEF IntrInv
  <2>4. CASE ~(active = NoExec \/ held \/ session = "quarantined")
    <3>1. PICK p, c :
             /\ p = Pushed(SubSeq(pipe, 1, n))
             /\ c = AllConsumed(WithMessages(capture, record[active].messages), p.found)
             /\ Unmessaged(c) \in CaptureType
             /\ \/ IsDone(p) /\ ~saved /\ EndsExec(c, c.messages)
                \/ /\ capture' = Unmessaged(c)
                   /\ record' = [record EXCEPT ![active].messages = c.messages]
                   /\ UNCHANGED <<kind, host, stdin, active, intr, store, session,
                                  saved, spent, said, left, ended>>
      BY <2>1, <2>4 DEF ReadsUpTo
    <3>2. active # NoExec /\ active \in Cells
      BY <1>t, <2>4
    <3>3. c.status = "interrupted" <=> capture.status = "interrupted"
      BY <2>2, <3>1, <3>2, ChunkCaptured
    <3>4. CASE EndsExec(c, c.messages)
      BY <3>1, <3>2, <3>3, <3>4, EndsIntr
    <3>5. CASE /\ capture' = Unmessaged(c)
               /\ record' = [record EXCEPT ![active].messages = c.messages]
               /\ UNCHANGED <<kind, host, stdin, active, intr, store, session,
                              saved, spent, said, left, ended>>
      <4>1. kind' = kind /\ active' = active /\ host' = host /\ stdin' = stdin /\ intr' = intr
        BY <3>5
      <4>2. \A d \in Cells : record'[d].status = record[d].status
        BY <1>t, <3>2, <3>5, MessagesTyped
      <4>3. capture'.status = c.status
        BY <3>5 DEF Unmessaged
      <4> QED BY <1>t, <3>3, <4>1, <4>2, <4>3 DEF IntrInv
    <3> QED BY <3>1, <3>4, <3>5
  <2> QED BY <2>3, <2>4
<1>14. CASE EndsHeld
  <2>1. active # NoExec /\ EndsExec(capture, record[active].messages)
    BY <1>t, <1>14 DEF EndsHeld
  <2>2. Unmessaged(capture) \in CaptureType
    BY DEF Types, Unmessaged, CaptureType
  <2> QED BY <2>1, <2>2, EndsIntr
<1>15. CASE HearsOfExit
  <2>1. /\ host.at = "dead" /\ host'.at = "dead" /\ kind' = kind /\ stdin' = stdin /\ intr' = intr
        /\ host'.signalled = host.signalled
    BY <1>t, <1>15 DEF HearsOfExit, HostType
  <2>s. ~host.signalled
    BY <2>1 DEF IntrInv
  <2>2. CASE intr # NoExec \/ session = "quarantined"
    <3>1. active' = active /\ capture' = capture /\ record' = record
      BY <1>15, <2>2 DEF HearsOfExit
    <3> QED BY <1>t, <2>1, <2>s, <3>1 DEF IntrInv
  <2>3. CASE ~(intr # NoExec \/ session = "quarantined")
    <3>1. Unset
      BY <1>15, <2>3 DEF HearsOfExit
    <3>2. active' = NoExec /\ capture'.status = "ok"
      BY <3>1, UnsetTyped DEF NoCapture
    <3>3. \A e \in Cells : (record'[e].status # "none") <=> (record[e].status # "none")
      <4>1. CASE active = NoExec
        BY <1>15, <2>3, <4>1 DEF HearsOfExit
      <4>2. CASE active # NoExec
        <5>1. PICK ms : ms = Append(record[active].messages, Told("runtime exited"))
          OBVIOUS
        <5>2. record' = [record EXCEPT ![active] = [status |-> "error", messages |-> ms]]
          BY <1>15, <2>3, <4>2, <5>1 DEF HearsOfExit
        <5>3. record'[active].status = "error" /\ \A d \in Cells \ {active} : record'[d] = record[d]
          BY <1>t, <4>2, <5>2, RecordTyped
        <5>4. record[active].status = "running"
          BY <4>2 DEF Turned, Turns
        <5> QED BY <5>3, <5>4
      <4> QED BY <4>1, <4>2
    <3>4. \A d, e \in Cells : d < e /\ record'[e].status # "none" => record'[d].status # "none"
      BY <3>3 DEF IntrInv
    <3> QED BY <2>1, <2>3, <2>s, <3>2, <3>4 DEF IntrInv
  <2> QED BY <2>2, <2>3
<1>16. CASE Interrupt
  <2>1. /\ kind' = kind /\ active' = active /\ active # NoExec /\ intr = NoExec /\ intr' = active
        /\ record' = record /\ stdin' = stdin
    BY <1>16 DEF Interrupt
  <2>2. host'.at = host.at /\ host'.signalled = (Signals(kind) /\ host.at # "dead") /\ capture'.status = "interrupted"
    BY <1>t, <1>16 DEF Interrupt, HostType, CaptureType
  <2> QED BY <2>1, <2>2 DEF IntrInv, Signals
<1>17. CASE SoftInterrupt
  <2>1. active \in Cells /\ Finalized /\ kind' = kind /\ host' = host /\ intr' = NoExec /\ ~host.signalled
    BY <1>t, <1>17 DEF SoftInterrupt
  <2>2. record'[active].status = "interrupted" /\ \A d \in Cells \ {active} : record'[d] = record[d]
    BY <1>t, <2>1, StatusTyped DEF Finalized
  <2>3. active' = NoExec /\ capture'.status = "ok"
    BY <2>1, UnsetTyped DEF Finalized, NoCapture
  <2>4. record[active].status = "running"
    BY <1>e, <2>1 DEF Turned, Turns
  <2>5. \A d, e \in Cells : d < e /\ record'[e].status # "none" => record'[d].status # "none"
    BY <2>2, <2>4 DEF IntrInv
  <2> QED BY <2>1, <2>3, <2>5 DEF IntrInv
<1>18. CASE RecycleInterrupt
  <2>1. active \in Cells /\ Finalized /\ host'.signalled = FALSE /\ intr' = NoExec /\ host'.at = "idle"
    BY <1>t, <1>18 DEF RecycleInterrupt, NewHost, Fresh
  <2>2. record'[active].status = "interrupted" /\ \A d \in Cells \ {active} : record'[d] = record[d]
    BY <1>t, <2>1, StatusTyped DEF Finalized
  <2>3. active' = NoExec /\ capture'.status = "ok"
    BY <2>1, UnsetTyped DEF Finalized, NoCapture
  <2>4. record[active].status = "running"
    BY <1>e, <2>1 DEF Turned, Turns
  <2>5. \A d, e \in Cells : d < e /\ record'[e].status # "none" => record'[d].status # "none"
    BY <2>2, <2>4 DEF IntrInv
  <2> QED BY <2>1, <2>3, <2>5 DEF IntrInv
<1>19. CASE LateInterrupt
  <2>1. /\ intr # active /\ ~host.signalled /\ intr' = NoExec /\ active' = active /\ host' = host /\ stdin' = stdin
        /\ kind' = kind /\ capture' = capture /\ record' = record
    BY <1>19 DEF LateInterrupt
  <2> QED BY <2>1 DEF IntrInv
<1>20. CASE ResetsHost
  <2>1. host'.signalled = FALSE /\ intr' = NoExec /\ host'.at = "idle"
    BY <1>t, <1>20 DEF ResetsHost, NewHost, Fresh
  <2>2. CASE active # NoExec /\ Finalized
    <3>1. active \in Cells /\ Finalized
      BY <1>t, <2>2
    <3>2. record'[active].status = "interrupted" /\ \A d \in Cells \ {active} : record'[d] = record[d]
      BY <1>t, <3>1, StatusTyped DEF Finalized
    <3>3. active' = NoExec /\ capture'.status = "ok"
      BY <3>1, UnsetTyped DEF Finalized, NoCapture
    <3>4. record[active].status = "running"
      BY <1>e, <3>1 DEF Turned, Turns
    <3>5. \A d, e \in Cells : d < e /\ record'[e].status # "none" => record'[d].status # "none"
      BY <3>2, <3>4 DEF IntrInv
    <3> QED BY <2>1, <3>3, <3>5 DEF IntrInv
  <2>3. CASE active = NoExec /\ UNCHANGED <<active, held, lines, capture, record, ended>>
    BY <2>1, <2>3 DEF IntrInv
  <2> QED BY <1>20, <2>2, <2>3 DEF ResetsHost
<1>21. CASE Save
  BY <1>21 DEF Save, IntrInv
<1>22. CASE RunsOn
  BY <1>22 DEF RunsOn, IntrInv
<1> QED BY <1>0, <1>1, <1>2, <1>3, <1>4, <1>5, <1>6, <1>7, <1>8, <1>9, <1>10, <1>11, <1>12,
           <1>13, <1>14, <1>15, <1>16, <1>17, <1>18, <1>19, <1>20, <1>21, <1>22 DEF ProtocolNext

-----------------------------------------------------------------------------
(* The committed checkpoint.                                               *)

\* What ends the exec of itself.
LEMMA EndsStore ==
  ASSUME ProtocolAssumption, Types, Turned, IntrInv, CommittedInv, active # NoExec, NEW c, NEW messages,
         Unmessaged(c) \in CaptureType, EndsExec(c, messages),
         c.outcome = "commit" => c.commit = left[active]
  PROVE  CommittedInv'
<1>1. active \in Cells /\ RecordType(record) /\ store.by \in {NoExec} \cup Cells
      /\ ended \in [Cells -> {"no", "done", "cut"}]
  BY DEF Types
<1>2. PICK failed \in BOOLEAN :
       /\ failed => Commits(c)
       /\ LET bad == Unsettled(c) \/ failed IN
          /\ record' = [record EXCEPT ![active] =
                          [status |-> IF bad THEN "error" ELSE c.status,
                           messages |-> IF bad THEN Append(messages, Told("checkpoint"))
                                        ELSE messages]]
          /\ store' = IF Commits(c) /\ ~bad THEN [by |-> active, holds |-> c.commit] ELSE store
       /\ ended' = [ended EXCEPT ![active] = "done"]
       /\ left' = left
  BY DEF EndsExec
<1> DEFINE bad == Unsettled(c) \/ failed
           s == IF bad THEN "error" ELSE c.status
           ms == IF bad THEN Append(messages, Told("checkpoint")) ELSE messages
<1>3. s \in {"ok", "error", "interrupted"} /\ c.outcome \in {"none", "commit", "preserved", "invalid"}
      /\ c.status \in {"ok", "error", "interrupted"}
  BY DEF Unmessaged, CaptureType
<1>4. s = "ok" => Commits(c) /\ ~bad
  BY <1>2, <1>3 DEF Unsettled, Commits
<1>5. Commits(c) /\ ~bad => s \in {"ok", "error"} /\ c.commit = left[active]
  BY <1>3 DEF Commits
<1>6. store' = IF Commits(c) /\ ~bad THEN [by |-> active, holds |-> c.commit] ELSE store
  BY <1>2
<1>7. record' = [record EXCEPT ![active] = [status |-> s, messages |-> ms]]
  BY <1>2
<1> HIDE DEF s, ms, bad
<1>8. record'[active].status = s /\ \A d \in Cells \ {active} : record'[d] = record[d]
  BY <1>1, <1>3, <1>7, RecordTyped
<1>9. ended'[active] = "done" /\ \A d \in Cells \ {active} : ended'[d] = ended[d]
  BY <1>1, <1>2
<1>10. record[active].status = "running"
  BY DEF Turned, Turns
<1>11. \A e \in Cells : record[e].status = "ok" => e <= active
  BY DEF IntrInv
<1>12. CASE Commits(c) /\ ~bad
  <2>1. store'.by = active /\ store'.holds = c.commit
    BY <1>6, <1>12
  <2>2. \A e \in Cells : record'[e].status = "ok" => active >= e
    BY <1>1, <1>8, <1>11, ExecsAre
  <2> QED BY <1>2, <1>5, <1>8, <1>9, <1>12, <2>1, <2>2 DEF CommittedInv
<1>13. CASE ~(Commits(c) /\ ~bad)
  <2>1. store' = store
    BY <1>6, <1>13
  <2>2. store.by # NoExec => store.by # active
    BY <1>10 DEF CommittedInv
  <2> QED BY <1>1, <1>2, <1>4, <1>8, <1>9, <1>13, <2>1, <2>2 DEF CommittedInv
<1> QED BY <1>12, <1>13

LEMMA CommittedInit == ProtocolAssumption /\ ProtocolInit => CommittedInv
BY DEF ProtocolInit, CommittedInv

LEMMA CommittedNext ==
  ProtocolAssumption /\ Types /\ Types' /\ Turned /\ OutcomeInv /\ IntrInv /\ CommittedInv /\ [ProtocolNext]_protocolVars => CommittedInv'
<1> SUFFICES ASSUME ProtocolAssumption, Types, Types', Turned, OutcomeInv, IntrInv, CommittedInv, [ProtocolNext]_protocolVars
             PROVE  CommittedInv'
  OBVIOUS
<1>t. /\ RecordType(record) /\ store.by \in {NoExec} \cup Cells /\ active \in {NoExec} \cup Cells
      /\ (held => active # NoExec) /\ ended \in [Cells -> {"no", "done", "cut"}] /\ left \in [Cells -> Nat]
      /\ (host.at \in {"cell", "ending", "done"} => host.exec \in Cells)
  BY DEF Types
<1>e. \A e \in Cells : e # NoExec
  BY ExecsAre
<1>0. CASE UNCHANGED <<record, store, left, ended>>
  BY <1>0 DEF CommittedInv
<1>u. CASE UNCHANGED protocolVars
  BY <1>0, <1>u DEF protocolVars
<1>1. CASE HostReads
  BY <1>0, <1>1 DEF HostReads, Untouched
<1>2. CASE Prints
  BY <1>0, <1>2 DEF Prints, Untouched
<1>3. CASE CellEnds
  BY <1>0, <1>3 DEF CellEnds, Untouched
<1>4. CASE CellFails
  BY <1>0, <1>4 DEF CellFails, Untouched
<1>5. CASE TellsCheckpoint
  <2>1. host.exec = active /\ active \in Cells /\ record[active].status = "running"
    BY <1>t, <1>5 DEF TellsCheckpoint, Turned, Turns, Running
  <2>2. left' = left \/ left' = [left EXCEPT ![active] = host.holds]
    BY <1>5, <2>1 DEF TellsCheckpoint
  <2>3. \A e \in Cells \ {active} : left'[e] = left[e]
    BY <1>t, <2>1, <2>2
  <2>4. record' = record /\ store' = store /\ ended' = ended
    BY <1>5 DEF TellsCheckpoint, Untouched
  <2> QED BY <1>t, <2>1, <2>3, <2>4 DEF CommittedInv
<1>6. CASE CheckpointFails
  BY <1>0, <1>6 DEF CheckpointFails, Untouched
<1>7. CASE SaysDone
  BY <1>0, <1>7 DEF SaysDone, Untouched
<1>8. CASE Prompts
  BY <1>0, <1>8 DEF Prompts, Untouched
<1>9. CASE TakesSignal
  BY <1>0, <1>9 DEF TakesSignal, Untouched
<1>10. CASE HostDies
  BY <1>0, <1>10 DEF HostDies, Untouched
<1>11. CASE LeftoverWrites
  BY <1>0, <1>11 DEF LeftoverWrites, Untouched
<1>12. CASE \E e \in Cells : Start(e)
  <2>1. PICK e \in Cells : Start(e)
    BY <1>12
  <2>2. record'[e].status = "running" /\ \A d \in Cells \ {e} : record'[d] = record[d]
    BY <1>t, <2>1, StatusTyped DEF Start
  <2>3. store' = store /\ ended' = ended /\ left' = left /\ record[e].status = "none"
    BY <2>1 DEF Start
  <2> QED BY <1>t, <2>2, <2>3 DEF CommittedInv
<1>13. CASE ReadsChunk
  <2>1. PICK n \in 1..Len(pipe) : ReadsUpTo(n)
    BY <1>13, ReadsIs
  <2>2. pipe' = SubSeq(pipe, n + 1, Len(pipe))
    BY <2>1 DEF ReadsUpTo
  <2>3. CASE active = NoExec \/ held \/ session = "quarantined"
    BY <1>0, <2>1, <2>3 DEF ReadsUpTo
  <2>4. CASE ~(active = NoExec \/ held \/ session = "quarantined")
    <3>1. PICK p, c :
             /\ p = Pushed(SubSeq(pipe, 1, n))
             /\ c = AllConsumed(WithMessages(capture, record[active].messages), p.found)
             /\ Unmessaged(c) \in CaptureType
             /\ \/ IsDone(p) /\ ~saved /\ EndsExec(c, c.messages)
                \/ /\ record' = [record EXCEPT ![active].messages = c.messages]
                   /\ UNCHANGED <<kind, host, stdin, active, intr, store, session,
                                  saved, spent, said, left, ended>>
      BY <2>1, <2>4 DEF ReadsUpTo
    <3>2. active # NoExec /\ active \in Cells
      BY <1>t, <2>4
    <3>3. c.outcome = "commit" => c.commit = left[active]
      BY <2>2, <3>1, <3>2, ChunkCaptured
    <3>4. CASE EndsExec(c, c.messages)
      BY <3>1, <3>2, <3>3, <3>4, EndsStore
    <3>5. CASE /\ record' = [record EXCEPT ![active].messages = c.messages]
               /\ UNCHANGED <<kind, host, stdin, active, intr, store, session,
                              saved, spent, said, left, ended>>
      <4>1. \A d \in Cells : record'[d].status = record[d].status
        BY <1>t, <3>2, <3>5, MessagesTyped
      <4>2. store' = store /\ ended' = ended /\ left' = left
        BY <3>5
      <4> QED BY <1>t, <4>1, <4>2 DEF CommittedInv
    <3> QED BY <3>1, <3>4, <3>5
  <2> QED BY <2>3, <2>4
<1>14. CASE EndsHeld
  <2>1. active # NoExec /\ EndsExec(capture, record[active].messages)
    BY <1>t, <1>14 DEF EndsHeld
  <2>2. Unmessaged(capture) \in CaptureType
    BY DEF Types, Unmessaged, CaptureType
  <2>3. capture.outcome = "commit" => capture.commit = left[active]
    BY DEF OutcomeInv
  <2> QED BY <2>1, <2>2, <2>3, EndsStore
<1>15. CASE HearsOfExit
  <2>1. store' = store /\ left' = left
    BY <1>15 DEF HearsOfExit
  <2>2. CASE record' = record /\ ended' = ended
    BY <1>0, <2>1, <2>2
  <2>3. CASE ~(record' = record /\ ended' = ended)
    <3>1. active # NoExec
      BY <1>15, <2>3 DEF HearsOfExit
    <3>2. PICK ms : ms = Append(record[active].messages, Told("runtime exited"))
      OBVIOUS
    <3>3. record' = [record EXCEPT ![active] = [status |-> "error", messages |-> ms]]
          /\ ended' = [ended EXCEPT ![active] = "cut"]
      BY <1>15, <2>3, <3>2 DEF HearsOfExit
    <3>4. record'[active].status = "error" /\ \A d \in Cells \ {active} : record'[d] = record[d]
      BY <1>t, <3>1, <3>3, RecordTyped
    <3>5. record[active].status = "running" /\ active \in Cells
      BY <1>t, <3>1 DEF Turned, Turns
    <3>6. \A d \in Cells \ {active} : ended'[d] = ended[d]
      BY <1>t, <3>3
    <3> QED BY <1>t, <2>1, <3>4, <3>5, <3>6 DEF CommittedInv
  <2> QED BY <2>2, <2>3
<1>16. CASE Interrupt
  BY <1>0, <1>16 DEF Interrupt
<1>17. CASE active # NoExec /\ Finalized /\ store' = store /\ left' = left
  <2>1. active \in Cells /\ Finalized /\ store' = store /\ left' = left
    BY <1>t, <1>17
  <2>2. record'[active].status = "interrupted" /\ \A d \in Cells \ {active} : record'[d] = record[d]
    BY <1>t, <2>1, StatusTyped DEF Finalized
  <2>3. record[active].status = "running"
    BY <1>e, <2>1 DEF Turned, Turns
  <2>4. \A d \in Cells \ {active} : ended'[d] = ended[d]
    BY <1>t, <2>1 DEF Finalized
  <2> QED BY <1>t, <2>1, <2>2, <2>3, <2>4 DEF CommittedInv
<1>19. CASE LateInterrupt
  BY <1>0, <1>19 DEF LateInterrupt
<1>18. CASE SoftInterrupt \/ RecycleInterrupt
  BY <1>17, <1>18 DEF SoftInterrupt, RecycleInterrupt
<1>20. CASE ResetsHost
  BY <1>0, <1>17, <1>20 DEF ResetsHost
<1>21. CASE Save
  BY <1>0, <1>21 DEF Save
<1>22. CASE RunsOn
  BY <1>0, <1>22 DEF RunsOn
<1> QED BY <1>u, <1>1, <1>2, <1>3, <1>4, <1>5, <1>6, <1>7, <1>8, <1>9, <1>10, <1>11, <1>12,
           <1>13, <1>14, <1>15, <1>16, <1>18, <1>19, <1>20, <1>21, <1>22 DEF ProtocolNext

-----------------------------------------------------------------------------
(* What a host's checkpoint holds.                                         *)

DotnetSignalled == kind = "dotnet" /\ intr # NoExec /\ intr # active
HeldByHost == host.holds = store.holds \/ (kind = "bun" /\ Interrupted) \/ DotnetSignalled

\* What holds of no host that runs a cell, nor is written to.
LEMMA HoldsIdle ==
  ASSUME host'.at \notin {"cell", "ending", "done"}, host'.at # "prompt" \/ host'.loaded,
         Running' => host'.loaded,
         active' # NoExec /\ DoneTold' /\ host'.at # "dead" => host'.loaded,
         host'.signalled /\ intr' # active' => host'.loaded,
         /\ host'.loaded /\ kind' \in {"bun", "dotnet"} /\ session' = "live" /\ host'.at # "dead"
         /\ active' = NoExec \/ stdin' # NoExec
         => HeldByHost'
  PROVE  HoldsInv'
BY DEF HoldsInv, HeldByHost, DotnetSignalled

LEMMA HoldsInit == ProtocolAssumption /\ ProtocolInit => HoldsInv
<1> SUFFICES ASSUME ProtocolAssumption, ProtocolInit PROVE HoldsInv
  OBVIOUS
<1>1. host.at = "idle" /\ host.loaded = FALSE /\ host.signalled = FALSE /\ active = NoExec
  BY DEF ProtocolInit, Fresh
<1> QED BY <1>1 DEF HoldsInv, Running

\* A step of the host's while it runs an exec.
LEMMA RunsHolds ==
  ASSUME Turned, HoldsInv, Running, Untouched, stdin' = stdin, host'.loaded = host.loaded,
         host'.at \in {"cell", "ending", "done", "prompt"}, host'.exec = host.exec, host.exec # NoExec,
         host'.at \in {"cell", "ending"} =>
           host.at \in {"cell", "ending"} /\ (host'.holds = host.holds \/ host'.holds = host.exec)
  PROVE  HoldsInv'
<1>1. active # NoExec /\ stdin = NoExec /\ host.loaded
  BY DEF Turned, Turns, HoldsInv
<1>2. active' = active /\ store' = store /\ kind' = kind /\ record' = record /\ stdin' = NoExec
  BY <1>1 DEF Untouched
<1>3. Interrupted' <=> Interrupted
  BY <1>2 DEF Interrupted
<1> QED BY <1>1, <1>2, <1>3 DEF HoldsInv

\* What ends the exec of itself.
LEMMA EndsHolds ==
  ASSUME ProtocolAssumption, Types, Turned, Turned', OutcomeInv, IntrInv, HoldsInv, active # NoExec, NEW c, NEW messages,
         Unmessaged(c) \in CaptureType, EndsExec(c, messages), DoneTold,
         c.status = "interrupted" <=> capture.status = "interrupted",
         c.outcome \in {"none", "commit", "preserved"},
         c.outcome = "commit" => c.commit = left[active] /\ (host.at # "dead" => left[active] = host.holds),
         c.outcome = "preserved" => kind = "cpp"
  PROVE  HoldsInv'
<1>1. active \in Cells /\ RecordType(record) /\ host \in HostType /\ intr \in {NoExec} \cup Cells
  BY DEF Types
<1>2. PICK failed \in BOOLEAN :
       /\ failed => Commits(c)
       /\ LET bad == Unsettled(c) \/ failed IN
          /\ record' = [record EXCEPT ![active] =
                          [status |-> IF bad THEN "error" ELSE c.status,
                           messages |-> IF bad THEN Append(messages, Told("checkpoint"))
                                        ELSE messages]]
          /\ store' = IF Commits(c) /\ ~bad THEN [by |-> active, holds |-> c.commit] ELSE store
          /\ host' = IF bad THEN Dead ELSE host
       /\ Unset
       /\ UNCHANGED <<kind, stdin, intr>>
  BY DEF EndsExec
<1> DEFINE bad == Unsettled(c) \/ failed
<1>3. active' = NoExec /\ kind' = kind /\ stdin' = stdin /\ intr' = intr
  BY <1>2, UnsetTyped
<1>4. stdin = NoExec /\ host.at \in {"prompt", "idle", "dead"}
  BY DEF Turned, Tellings
<1>5. CASE bad
  <2>1. host'.at = "dead" /\ host'.signalled = FALSE
    BY <1>1, <1>2, <1>5, DeadTyped
  <2> QED BY <2>1 DEF HoldsInv, Running
<1>6. CASE ~bad
  <2>1. host' = host
    BY <1>2, <1>6
  <2>2. CASE host.at = "dead"
    BY <2>1, <2>2 DEF HoldsInv, Running, IntrInv
  <2>3. CASE host.at # "dead"
    <3>1. host.loaded
      BY <2>3 DEF HoldsInv
    <3>2. c.status = "interrupted" => Interrupted' /\ intr' # NoExec /\ intr' # active'
      <4>1. CASE c.status = "interrupted"
        <5>1. intr = active
          BY <4>1 DEF IntrInv
        <5>2. record' = [record EXCEPT ![active] = [status |-> "interrupted", messages |-> messages]]
          BY <1>2, <1>6, <4>1
        <5>3. record'[active].status = "interrupted"
          BY <1>1, <5>2, RecordTyped
        <5> QED BY <1>1, <1>3, <5>1, <5>3 DEF Interrupted
      <4> QED BY <4>1
    <3>3. c.status # "interrupted" /\ kind # "cpp" => store'.holds = host.holds
      <4>1. CASE c.status # "interrupted" /\ kind # "cpp"
        <5>1. c.outcome = "commit"
          BY <1>6, <4>1 DEF Unsettled
        <5>2. store' = [by |-> active, holds |-> c.commit]
          BY <1>2, <1>6, <4>1, <5>1 DEF Commits
        <5> QED BY <2>3, <5>1, <5>2
      <4> QED BY <4>1
    <3>4. kind' \in {"bun", "dotnet"} => HeldByHost'
      BY <1>3, <2>1, <3>2, <3>3 DEF HeldByHost, DotnetSignalled
    <3> QED BY <1>3, <1>4, <2>1, <3>1, <3>4, HoldsIdle
  <2> QED BY <2>2, <2>3
<1> QED BY <1>5, <1>6

LEMMA HoldsNext ==
  ProtocolAssumption /\ Types /\ Types' /\ Turned /\ Turned' /\ OutcomeInv /\ IntrInv /\ IntrInv' /\ HoldsInv
    /\ [ProtocolNext]_protocolVars => HoldsInv'
<1> SUFFICES ASSUME ProtocolAssumption, Types, Types', Turned, Turned', OutcomeInv, IntrInv, IntrInv', HoldsInv,
                    [ProtocolNext]_protocolVars
             PROVE  HoldsInv'
  OBVIOUS
<1>t. /\ host \in HostType /\ RecordType(record) /\ capture \in CaptureType
      /\ (host.at \in {"cell", "ending", "done"} => host.exec \in Cells)
      /\ active \in {NoExec} \cup Cells /\ intr \in {NoExec} \cup Cells /\ (held => active # NoExec)
      /\ pipe \in Seq(Atoms) /\ lines \in LinesType /\ session \in {"live", "quarantined"}
      /\ kind \in {"python", "bun", "dotnet", "cpp"}
  BY DEF Types, ProtocolAssumption
<1>e. \A e \in Cells : e # NoExec /\ e \in Nat
  BY ExecsAre
<1>0. CASE UNCHANGED protocolVars
  BY <1>0 DEF protocolVars, HoldsInv, Running, DoneTold, InPipe, Interrupted
<1>1. CASE HostReads
  <2>1. /\ host.at = "idle" /\ stdin # NoExec /\ (host.signalled => stdin = intr) /\ stdin' = NoExec
        /\ active' = active /\ kind' = kind /\ store' = store /\ record' = record /\ intr' = intr
    BY <1>1 DEF HostReads, Untouched
  <2>2. stdin = active /\ active # NoExec /\ session = "live"
    BY <1>t, <2>1 DEF Turned, Turns
  <2>3. host'.at = "cell" /\ host'.loaded = TRUE /\ host'.exec = stdin /\ host'.signalled = host.signalled
        /\ host'.holds = IF RereadsCheckpoint(kind) \/ ~host.loaded THEN store.holds ELSE host.holds
    BY <1>t, <1>1 DEF HostReads, HostType
  <2>4. ~RereadsCheckpoint(kind) => kind \in {"bun", "dotnet"}
    BY <1>t DEF RereadsCheckpoint
  <2>5. ~DotnetSignalled
    BY <2>1, <2>2 DEF DotnetSignalled, IntrInv
  <2>6. host'.holds = store.holds \/ (kind = "bun" /\ Interrupted)
    BY <2>1, <2>2, <2>3, <2>4, <2>5 DEF HoldsInv, DotnetSignalled
  <2>7. Interrupted' <=> Interrupted
    BY <2>1 DEF Interrupted
  <2> QED BY <2>1, <2>2, <2>3, <2>6, <2>7 DEF HoldsInv
<1>2. CASE Prints
  <2>1. PICK h \in {host.holds, host.exec} : host' = [host EXCEPT !.prints = @ + 1, !.holds = h]
    BY <1>2 DEF Prints
  <2>2. Untouched /\ host.at = "cell" /\ stdin' = stdin
    BY <1>2 DEF Prints
  <2>3. host'.at = "cell" /\ host'.loaded = host.loaded /\ host'.exec = host.exec /\ host'.holds = h
    BY <1>t, <2>1, <2>2 DEF HostType
  <2> QED BY <1>t, <1>e, <2>2, <2>3, RunsHolds DEF Running
<1>3. CASE CellEnds
  <2>1. Untouched /\ host.at = "cell" /\ stdin' = stdin
    BY <1>3 DEF CellEnds
  <2>2. host'.at = "ending" /\ host'.loaded = host.loaded /\ host'.exec = host.exec /\ host'.holds = host.holds
    BY <1>t, <1>3 DEF CellEnds, HostType
  <2> QED BY <1>t, <1>e, <2>1, <2>2, RunsHolds DEF Running
<1>4. CASE CellFails
  <2>1. Untouched /\ host.at = "cell" /\ stdin' = stdin
    BY <1>4 DEF CellFails
  <2>2. host'.at = "ending" /\ host'.loaded = host.loaded /\ host'.exec = host.exec /\ host'.holds = host.holds
    BY <1>t, <1>4 DEF CellFails, HostType
  <2> QED BY <1>t, <1>e, <2>1, <2>2, RunsHolds DEF Running
<1>5. CASE TellsCheckpoint
  <2>1. Untouched /\ host.at = "ending" /\ stdin' = stdin
    BY <1>5 DEF TellsCheckpoint
  <2>2. host'.at = "done" /\ host'.loaded = host.loaded /\ host'.exec = host.exec
    BY <1>t, <1>5 DEF TellsCheckpoint, HostType
  <2> QED BY <1>t, <1>e, <2>1, <2>2, RunsHolds DEF Running
<1>6. CASE CheckpointFails
  <2>1. Untouched /\ host.at = "ending" /\ stdin' = stdin
    BY <1>6 DEF CheckpointFails
  <2>2. host'.at = "done" /\ host'.loaded = host.loaded /\ host'.exec = host.exec
    BY <1>t, <1>6 DEF CheckpointFails, HostType
  <2> QED BY <1>t, <1>e, <2>1, <2>2, RunsHolds DEF Running
<1>7. CASE SaysDone
  <2>1. Untouched /\ host.at = "done" /\ stdin' = stdin
    BY <1>7 DEF SaysDone
  <2>2. host'.at = "prompt" /\ host'.loaded = host.loaded /\ host'.exec = host.exec
    BY <1>t, <1>7 DEF SaysDone, HostType
  <2> QED BY <1>t, <1>e, <2>1, <2>2, RunsHolds DEF Running
<1>8. CASE Prompts
  <2>1. /\ host.at = "prompt" /\ stdin' = stdin /\ active' = active /\ kind' = kind /\ store' = store
        /\ record' = record /\ intr' = intr /\ session' = session
    BY <1>8 DEF Prompts, Untouched
  <2>2. host'.at = "idle" /\ host'.loaded = TRUE /\ host'.exec = NoExec /\ host'.holds = host.holds
    BY <1>8 DEF Prompts, Fresh
  <2>3. Interrupted' <=> Interrupted
    BY <2>1 DEF Interrupted
  <2>4. ASSUME kind \in {"bun", "dotnet"}, session = "live", active = NoExec \/ stdin # NoExec PROVE HeldByHost
    <3>1. host.exec = NoExec
      BY <2>1, <2>4 DEF Turned, Turns, Running
    <3>2. host.loaded
      BY <2>1, <2>4, <3>1 DEF HoldsInv
    <3> QED BY <2>1, <2>4, <3>2 DEF HoldsInv, HeldByHost, DotnetSignalled
  <2>5. ASSUME kind' \in {"bun", "dotnet"}, session' = "live", active' = NoExec \/ stdin' # NoExec PROVE HeldByHost'
    BY <2>1, <2>2, <2>3, <2>4, <2>5 DEF HeldByHost, DotnetSignalled
  <2> QED BY <2>2, <2>5, HoldsIdle
<1>9. CASE TakesSignal
  <2>0. /\ active' = active /\ kind' = kind /\ store' = store /\ record' = record /\ intr' = intr
        /\ session' = session /\ Untouched /\ host.signalled /\ lines' = lines
    BY <1>9 DEF TakesSignal, Untouched
  <2>i. Interrupted' <=> Interrupted
    BY <2>0 DEF Interrupted
  <2>1. CASE /\ kind = "python" /\ host.at = "cell"
             /\ Says("error")
             /\ host' = [host EXCEPT !.at = "ending", !.failed = TRUE, !.signalled = FALSE]
             /\ UNCHANGED stdin
    <3>1. host'.at = "ending" /\ host'.loaded = host.loaded /\ host'.exec = host.exec /\ host'.holds = host.holds
      BY <1>t, <2>1 DEF HostType
    <3> QED BY <1>t, <1>e, <2>0, <2>1, <3>1, RunsHolds DEF Running
  <2>2. CASE /\ kind = "bun" /\ host.at \in {"cell", "idle"}
             /\ host' = [host EXCEPT !.at = "prompt", !.signalled = FALSE]
             /\ stdin' = IF host.at = "idle" /\ stdin = intr THEN NoExec ELSE stdin
             /\ UNCHANGED <<pipe, said>>
    <3>1. host'.at = "prompt" /\ host'.loaded = host.loaded /\ host'.exec = host.exec /\ host'.holds = host.holds
          /\ host'.signalled = FALSE
      BY <1>t, <2>2 DEF HostType
    <3>2. CASE host.at = "cell"
      BY <1>t, <1>e, <2>0, <2>2, <3>1, <3>2, RunsHolds DEF Running
    <3>3. CASE host.at = "idle"
      <4>1. host.exec = NoExec /\ (stdin' = NoExec \/ stdin' = stdin) /\ pipe' = pipe
        BY <2>2, <3>3 DEF Turned, Turns
      <4>2. ~host.loaded => active # NoExec /\ intr = active /\ stdin' = NoExec
        <5>1. intr # NoExec
          BY <2>0 DEF IntrInv
        <5>2. stdin # NoExec => stdin = active
          BY <3>3 DEF Turned, Turns
        <5> QED BY <2>0, <2>2, <3>3, <5>1, <5>2 DEF HoldsInv
      <4>3. DoneTold' <=> DoneTold
        BY <2>0, <4>1 DEF DoneTold, InPipe
      <4>4. ~Running'
        BY <3>1, <4>1 DEF Running
      <4>5. host.at # "dead"
        BY <3>3
      <4> QED BY <2>0, <2>2, <2>i, <3>1, <4>1, <4>2, <4>3, <4>4, <4>5 DEF HoldsInv
    <3> QED BY <2>2, <3>2, <3>3
  <2>3. CASE /\ kind = "dotnet" \/ (kind = "python" /\ host.at # "cell")
             /\ host' = Dead
             /\ UNCHANGED <<stdin, pipe, said>>
    <3>1. host'.at = "dead" /\ host'.signalled = FALSE
      BY <1>t, <2>3, DeadTyped
    <3> QED BY <3>1 DEF HoldsInv, Running
  <2> QED BY <1>9, <2>1, <2>2, <2>3 DEF TakesSignal
<1>10. CASE HostDies
  <2>1. host'.at = "dead" /\ host'.signalled = FALSE
    BY <1>t, <1>10, DeadTyped DEF HostDies
  <2> QED BY <2>1 DEF HoldsInv, Running
<1>11. CASE LeftoverWrites
  <2>1. /\ active' = active /\ kind' = kind /\ store' = store /\ record' = record /\ intr' = intr
        /\ session' = session /\ host' = host /\ stdin' = stdin /\ lines' = lines
    BY <1>11 DEF LeftoverWrites, Untouched
  <2>2. PICK w \in Seq(Atoms) : pipe' = pipe \o w /\ \A i \in DOMAIN w : ~IsEnv(w[i], Telling) /\ w[i] # Prompt
    BY <1>11, LeftoverIs
  <2>3. InPipe({"done"})' => InPipe({"done"})
    BY <1>t, <2>2, NothingTold
  <2>4. DoneTold' => DoneTold
    BY <2>1, <2>3 DEF DoneTold
  <2>5. (Running' <=> Running) /\ (Interrupted' <=> Interrupted)
    BY <2>1 DEF Running, Interrupted
  <2> QED BY <2>1, <2>4, <2>5 DEF HoldsInv
<1>12. CASE \E e \in Cells : Start(e)
  <2>1. PICK e \in Cells : Start(e)
    BY <1>12
  <2>2. /\ session = "live" /\ active = NoExec /\ active' = e /\ stdin' = e /\ intr' = intr /\ host' = host
        /\ kind' = kind /\ store' = store /\ pipe' = pipe /\ lines' = NoLines /\ session' = session
    BY <2>1 DEF Start
  <2>3. record'[e].status = "running" /\ record[e].status = "none" /\ \A d \in Cells \ {e} : record'[d] = record[d]
    BY <1>t, <2>1, StatusTyped DEF Start
  <2>4. Interrupted' <=> Interrupted
    BY <2>3 DEF Interrupted
  <2>5. ~Running /\ ~Running'
    BY <2>2 DEF Turned, Turns, Running
  <2>6. ~DoneTold'
    <3>1. ~InPipe(Telling)
      BY <2>2 DEF Turned, Tellings
    <3> QED BY <2>2, <3>1 DEF DoneTold, NoLines, InPipe, IsEnv, Telling
  <2>7. host.signalled => host.loaded
    BY <2>2 DEF HoldsInv, IntrInv
  <2>8. intr # NoExec => intr # e
    BY <1>t, <2>2, <2>3 DEF IntrInv
  <2>9. host.at = "prompt" => host.loaded
    BY <2>2, <2>5 DEF HoldsInv, Running
  <2>10. host.at \notin {"cell", "ending", "done"}
    BY <2>5 DEF Running
  <2>11. /\ host'.loaded /\ kind' \in {"bun", "dotnet"} /\ session' = "live" /\ host'.at # "dead"
         => HeldByHost'
    BY <1>e, <2>2, <2>4, <2>8 DEF HoldsInv, HeldByHost, DotnetSignalled
  <2> QED BY <2>2, <2>5, <2>6, <2>7, <2>9, <2>10, <2>11, HoldsIdle
<1>13. CASE ReadsChunk
  <2>1. PICK n \in 1..Len(pipe) : ReadsUpTo(n)
    BY <1>13, ReadsIs
  <2>2. pipe' = SubSeq(pipe, n + 1, Len(pipe))
    BY <2>1 DEF ReadsUpTo
  <2>3. CASE active = NoExec \/ held \/ session = "quarantined"
    <3>1. UNCHANGED <<kind, host, stdin, active, held, lines, capture, record, intr, store,
                       session, saved, spent, said, left, ended>>
      BY <2>1, <2>3 DEF ReadsUpTo
    <3>2. \A kinds : (\E i \in DOMAIN pipe' : IsEnv(pipe'[i], kinds)) => InPipe(kinds)
      BY <1>t, <2>2, LessTold
    <3>3. DoneTold' => DoneTold
      BY <3>1, <3>2 DEF DoneTold, InPipe, IsEnv
    <3>4. (Running' <=> Running) /\ (Interrupted' <=> Interrupted)
      BY <3>1 DEF Running, Interrupted
    <3> QED BY <3>1, <3>3, <3>4 DEF HoldsInv
  <2>4. CASE ~(active = NoExec \/ held \/ session = "quarantined")
    <3>1. PICK p, c :
             /\ p = Pushed(SubSeq(pipe, 1, n))
             /\ c = AllConsumed(WithMessages(capture, record[active].messages), p.found)
             /\ p \in LinesType
             /\ Unmessaged(c) \in CaptureType
             /\ \/ IsDone(p) /\ ~saved /\ EndsExec(c, c.messages)
                \/ /\ lines' = [p EXCEPT !.found = <<>>]
                   /\ record' = [record EXCEPT ![active].messages = c.messages]
                   /\ UNCHANGED <<kind, host, stdin, active, intr, store, session,
                                  saved, spent, said, left, ended>>
      BY <2>1, <2>4 DEF ReadsUpTo
    <3>2. active # NoExec /\ active \in Cells
      BY <1>t, <2>4
    <3>3. /\ p.done => DoneTold
          /\ IsDone(p) => DoneTold
          /\ \A kinds : (\E i \in DOMAIN pipe' : IsEnv(pipe'[i], kinds)) => InPipe(kinds)
      BY <2>2, <3>1, <3>2, ChunkTurned
    <3>4. CASE IsDone(p) /\ EndsExec(c, c.messages)
      <4>1. /\ c.status = "interrupted" <=> capture.status = "interrupted"
            /\ c.outcome \in {"none", "commit", "preserved"}
            /\ c.outcome = "commit" => c.commit = left[active] /\ (host.at # "dead" => left[active] = host.holds)
            /\ c.outcome = "preserved" => kind = "cpp"
        BY <2>2, <3>1, <3>2, ChunkCaptured, ZenonT(40)
      <4> QED BY <3>1, <3>2, <3>3, <3>4, <4>1, EndsHolds
    <3>5. CASE /\ lines' = [p EXCEPT !.found = <<>>]
               /\ record' = [record EXCEPT ![active].messages = c.messages]
               /\ UNCHANGED <<kind, host, stdin, active, intr, store, session,
                              saved, spent, said, left, ended>>
      <4>1. kind' = kind /\ active' = active /\ host' = host /\ stdin' = stdin /\ intr' = intr /\ store' = store
            /\ session' = session
        BY <3>5
      <4>2. \A d \in Cells : record'[d].status = record[d].status
        BY <1>t, <3>2, <3>5, MessagesTyped
      <4>3. lines'.done = p.done
        BY <3>1, <3>5 DEF LinesType
      <4>4. DoneTold' => DoneTold
        BY <3>3, <4>3 DEF DoneTold, InPipe, IsEnv
      <4>5. (Running' <=> Running) /\ (Interrupted' <=> Interrupted)
        BY <4>1, <4>2 DEF Running, Interrupted
      <4> QED BY <4>1, <4>4, <4>5 DEF HoldsInv
    <3> QED BY <3>1, <3>4, <3>5
  <2> QED BY <2>3, <2>4
<1>14. CASE EndsHeld
  <2>1. active # NoExec /\ EndsExec(capture, record[active].messages) /\ held
    BY <1>t, <1>14 DEF EndsHeld
  <2>2. Unmessaged(capture) \in CaptureType
    BY DEF Types, Unmessaged, CaptureType
  <2>3. DoneTold
    BY <2>1 DEF Turned, Turns, IsDone, DoneTold
  <2>4. session = "live"
    BY <1>t, <2>1 DEF Turned, Turns
  <2>5. /\ capture.outcome \in {"none", "commit", "preserved"}
        /\ capture.outcome = "commit" => capture.commit = left[active] /\ (host.at # "dead" => left[active] = host.holds)
        /\ capture.outcome = "preserved" => kind = "cpp"
    BY <1>t, <2>4 DEF OutcomeInv, CaptureType
  <2> QED BY <2>1, <2>2, <2>3, <2>5, EndsHolds
<1>15. CASE HearsOfExit
  <2>1. host.at = "dead" /\ host'.at = "dead" /\ host'.signalled = host.signalled
    BY <1>t, <1>15 DEF HearsOfExit, HostType
  <2> QED BY <2>1 DEF HoldsInv, Running, IntrInv
<1>16. CASE Interrupt
  <2>1. /\ kind' = kind /\ active' = active /\ active # NoExec /\ intr = NoExec /\ intr' = active
        /\ record' = record /\ stdin' = stdin /\ store' = store /\ session' = session /\ pipe' = pipe
        /\ lines' = lines
    BY <1>16 DEF Interrupt
  <2>2. host'.at = host.at /\ host'.loaded = host.loaded /\ host'.holds = host.holds /\ host'.exec = host.exec
    BY <1>t, <1>16 DEF Interrupt, HostType
  <2>3. (Running' <=> Running) /\ (Interrupted' <=> Interrupted) /\ (DoneTold' <=> DoneTold)
    BY <2>1, <2>2 DEF Running, Interrupted, DoneTold, InPipe
  <2> QED BY <2>1, <2>2, <2>3 DEF HoldsInv
<1>17. CASE SoftInterrupt
  <2>1. /\ active \in Cells /\ Finalized /\ kind' = kind /\ host' = host /\ intr' = NoExec /\ ~host.signalled
        /\ host.at = "idle" /\ intr # NoExec
    BY <1>t, <1>17 DEF SoftInterrupt
  <2>2. record'[active].status = "interrupted"
    BY <1>t, <2>1, StatusTyped DEF Finalized
  <2>3. active' = NoExec
    BY <2>1, UnsetTyped DEF Finalized
  <2>4. Interrupted' /\ kind # "dotnet"
    BY <2>1, <2>2 DEF Interrupted, IntrInv
  <2>5. ~Running'
    BY <2>1 DEF Running
  <2> QED BY <2>1, <2>3, <2>4, <2>5, HoldsIdle DEF HeldByHost
<1>18. CASE RecycleInterrupt
  <2>1. host'.at = "idle" /\ host'.loaded = FALSE /\ host'.signalled = FALSE /\ Finalized
    BY <1>18 DEF RecycleInterrupt, NewHost, Fresh
  <2>2. active' = NoExec
    BY <2>1, UnsetTyped DEF Finalized
  <2> QED BY <2>1, <2>2 DEF HoldsInv, Running
<1>19. CASE LateInterrupt
  <2>1. /\ intr # NoExec /\ intr # active /\ ~host.signalled /\ intr' = NoExec /\ active' = active /\ host' = host /\ stdin' = stdin
        /\ kind' = kind /\ record' = record /\ store' = store /\ session' = session /\ pipe' = pipe /\ lines' = lines
    BY <1>19 DEF LateInterrupt
  <2>2. kind = "dotnet" => host.at = "dead"
    BY <2>1 DEF IntrInv
  <2>3. (Running' <=> Running) /\ (Interrupted' <=> Interrupted) /\ (DoneTold' <=> DoneTold)
    BY <2>1 DEF Running, Interrupted, DoneTold, InPipe
  <2> QED BY <2>1, <2>2, <2>3 DEF HoldsInv
<1>20. CASE ResetsHost
  <2>1. host'.at = "idle" /\ host'.loaded = FALSE /\ host'.signalled = FALSE
    BY <1>20 DEF ResetsHost, NewHost, Fresh
  <2>2. active' = NoExec
    BY <1>20, UnsetTyped DEF ResetsHost, Finalized
  <2> QED BY <2>1, <2>2 DEF HoldsInv, Running
<1>21. CASE Save
  BY <1>21 DEF Save, HoldsInv, Running, DoneTold, InPipe, Interrupted
<1>22. CASE RunsOn
  BY <1>22 DEF RunsOn, HoldsInv, Running, DoneTold, InPipe, Interrupted
<1> QED BY <1>0, <1>1, <1>2, <1>3, <1>4, <1>5, <1>6, <1>7, <1>8, <1>9, <1>10, <1>11, <1>12,
           <1>13, <1>14, <1>15, <1>16, <1>17, <1>18, <1>19, <1>20, <1>21, <1>22 DEF ProtocolNext

ProtocolInv == Turned /\ OutcomeInv /\ IntrInv /\ CommittedInv /\ HoldsInv

LEMMA InvInit == ProtocolAssumption /\ ProtocolInit => ProtocolInv
BY TurnedInit, OutcomeInit, IntrInit, CommittedInit, HoldsInit DEF ProtocolInv

LEMMA InvNext == ProtocolAssumption /\ Types /\ Types' /\ ProtocolInv /\ [ProtocolNext]_protocolVars => ProtocolInv'
BY TurnedNext, OutcomeNext, IntrNext, CommittedNext, HoldsNext DEF ProtocolInv

\* A cell starts from the committed checkpoint, but for Bun's after an interrupt.
THEOREM CellSees == ProtocolSpec => []CellSeesTheStore
<1>1. ProtocolAssumption
  BY ProtocolAssumption
<1>2. ProtocolAssumption /\ Types /\ ProtocolInv => CellSeesTheStore
  <2> SUFFICES ASSUME ProtocolAssumption, Types, ProtocolInv,
                      host.at = "cell", active = host.exec, host.holds # host.exec, host.holds # store.holds
               PROVE  kind = "bun" /\ \E e \in 1..(host.exec - 1) : record[e].status = "interrupted"
    BY DEF CellSeesTheStore
  <2>1. kind = "bun" /\ Interrupted /\ host.exec \in Cells
    BY DEF ProtocolInv, HoldsInv, Types
  <2>2. PICK e \in Cells : record[e].status = "interrupted"
    BY <2>1 DEF Interrupted
  <2>3. active # NoExec /\ e <= active /\ e # active
    BY <2>1, <2>2, ExecsAre DEF ProtocolInv, IntrInv, Turned, Turns
  <2>4. e \in 1..(host.exec - 1)
    BY <2>1, <2>3, ExecsAre
  <2> QED BY <2>1, <2>2, <2>4
<1> QED BY <1>1, <1>2, TypesInit, TypesNext, InvInit, InvNext, PTL DEF ProtocolSpec

-----------------------------------------------------------------------------
(* What an exec's host wrote is heard.                                     *)

Places == OpensClose /\ (~held => OpensEnd)

\* What is appended leaves what comes before an atom.
LEMMA BeforeKept ==
  ASSUME pipe \in Seq(Atoms), NEW w \in Seq(Atoms), pipe' = pipe \o w, lines' = lines
  PROVE  \A i \in DOMAIN pipe : i \in DOMAIN pipe' /\ pipe'[i] = pipe[i] /\ Before(i)' = Before(i)
<1>1. /\ Len(pipe) \in Nat /\ DOMAIN pipe = 1..Len(pipe)
      /\ \A i \in DOMAIN pipe : i \in DOMAIN pipe' /\ pipe'[i] = pipe[i]
  BY AppendIs
<1> SUFFICES ASSUME NEW i \in DOMAIN pipe PROVE Before(i)' = Before(i)
  BY <1>1
<1>2. i > 1 => i - 1 \in DOMAIN pipe
  BY <1>1
<1>3. i > 1 => pipe'[i - 1] = pipe[i - 1]
  BY <1>1, <1>2
<1> QED BY <1>3 DEF Before

\* What is left of a chunk keeps what comes before it.
LEMMA BeforeLeft ==
  ASSUME ProtocolAssumption, pipe \in Seq(Atoms), lines \in LinesType, NEW n \in 1..Len(pipe),
         pipe' = SubSeq(pipe, n + 1, Len(pipe)), lines' = [Pushed(SubSeq(pipe, 1, n)) EXCEPT !.found = <<>>],
         NEW i \in DOMAIN pipe, i > n, NEW e, Before(i) = Open(e)
  PROVE  i - n \in DOMAIN pipe' /\ pipe'[i - n] = pipe[i] /\ Before(i - n)' = Open(e)
<1>1. /\ Len(pipe) \in Nat /\ DOMAIN pipe = 1..Len(pipe) /\ DOMAIN pipe' = 1..(Len(pipe) - n)
      /\ \A k \in DOMAIN pipe' : k + n \in DOMAIN pipe /\ pipe'[k] = pipe[k + n]
  BY DropIs
<1>2. i - n \in DOMAIN pipe' /\ (i - n) + n = i
  BY <1>1
<1>3. pipe'[i - n] = pipe[i]
  BY <1>1, <1>2
<1>4. i > 1 /\ pipe[i - 1] = Open(e)
  BY <1>1 DEF Before
<1>5. CASE i - n > 1
  <2>1. (i - n) - 1 \in DOMAIN pipe' /\ ((i - n) - 1) + n = i - 1
    BY <1>1, <1>2, <1>5, SMTT(20)
  <2>2. pipe'[(i - n) - 1] = pipe[i - 1]
    BY <1>1, <2>1
  <2> QED BY <1>2, <1>3, <1>4, <1>5, <2>2 DEF Before
<1>6. CASE ~(i - n > 1)
  <2>1. i - 1 = n
    BY <1>1, <1>2, <1>6
  <2>2. pipe[n].a = "open"
    BY <1>4, <2>1 DEF Open
  <2> DEFINE p == Pushed(SubSeq(pipe, 1, n))
  <2>3. p.line # <<>> /\ p.line[Len(p.line)] = pipe[n] /\ p \in LinesType
    BY <2>2, LineIs, PushedIs
  <2>4. lines' = [p EXCEPT !.found = <<>>]
    OBVIOUS
  <2> HIDE DEF p
  <2>5. lines'.line = p.line
    BY <2>3, <2>4 DEF LinesType
  <2> QED BY <1>2, <1>3, <1>4, <1>6, <2>1, <2>3, <2>5 DEF Before
<1> QED BY <1>5, <1>6

LEMMA PlacesInit == ProtocolAssumption /\ ProtocolInit => Places
<1> SUFFICES ASSUME ProtocolAssumption, ProtocolInit PROVE Places
  OBVIOUS
<1>1. DOMAIN pipe = {} /\ DOMAIN lines.line = {}
  BY DEF ProtocolInit, NoLines
<1> QED BY <1>1 DEF Places, OpensClose, OpensEnd

\* What is appended is of whole envelopes, or opens none.
LEMMA PlacesAppend ==
  ASSUME Types, Places, NEW w \in Seq(Atoms), pipe' = pipe \o w, lines' = lines, held' = held,
         \A i \in DOMAIN w : w[i].a = "open" => i + 1 \in DOMAIN w /\ w[i + 1].a = "close"
  PROVE  Places'
<1>1. /\ Len(pipe) \in Nat /\ DOMAIN pipe = 1..Len(pipe) /\ DOMAIN pipe' = 1..(Len(pipe) + Len(w))
      /\ \A i \in DOMAIN pipe : i \in DOMAIN pipe' /\ pipe'[i] = pipe[i]
      /\ \A i \in DOMAIN pipe' : i \in DOMAIN pipe
              \/ (i > Len(pipe) /\ i - Len(pipe) \in DOMAIN w /\ pipe'[i] = w[i - Len(pipe)])
  BY AppendIs DEF Types
<1>2. Len(w) \in Nat /\ DOMAIN w = 1..Len(w)
  OBVIOUS
<1>3. OpensClose'
  <2> SUFFICES ASSUME NEW i \in DOMAIN pipe', pipe'[i].a = "open"
               PROVE  i + 1 \in DOMAIN pipe' /\ pipe'[i + 1].a = "close"
    BY DEF OpensClose
  <2>1. CASE i \in DOMAIN pipe
    BY <1>1, <2>1 DEF Places, OpensClose
  <2>2. CASE i \notin DOMAIN pipe
    <3> DEFINE k == i - Len(pipe)
    <3>1. k \in DOMAIN w /\ w[k].a = "open" /\ i > Len(pipe)
      BY <1>1, <2>2
    <3>2. k + 1 \in DOMAIN w /\ w[k + 1].a = "close"
      BY <3>1
    <3>3. i + 1 \in DOMAIN pipe' /\ i + 1 \notin DOMAIN pipe /\ (i + 1) - Len(pipe) = k + 1
      BY <1>1, <1>2, <3>1, <3>2
    <3>4. pipe'[i + 1] = w[(i + 1) - Len(pipe)]
      BY <1>1, <3>3
    <3> QED BY <3>2, <3>3, <3>4
  <2> QED BY <2>1, <2>2
<1>4. pipe # <<>> => pipe' # <<>> /\ pipe'[1] = pipe[1]
  <2>1. pipe # <<>> => 1 \in DOMAIN pipe
    BY DEF Types
  <2>2. 1 \in DOMAIN pipe' => pipe' # <<>>
    OBVIOUS
  <2> QED BY <1>1, <2>1, <2>2
<1>5. held' \/ OpensEnd'
  BY <1>4 DEF Places, OpensEnd
<1> QED BY <1>3, <1>5 DEF Places

\* Where no exec is active, its collector holds nothing.
LEMMA PlacesNoLines ==
  ASSUME OpensClose', lines' = NoLines
  PROVE  Places'
<1>1. DOMAIN lines'.line = {}
  BY DEF NoLines
<1> QED BY <1>1 DEF Places, OpensEnd

LEMMA PlacesDrop ==
  ASSUME pipe \in Seq(Atoms), OpensClose, NEW n \in 1..Len(pipe), pipe' = SubSeq(pipe, n + 1, Len(pipe))
  PROVE  OpensClose'
<1>1. /\ Len(pipe) \in Nat /\ DOMAIN pipe = 1..Len(pipe) /\ DOMAIN pipe' = 1..(Len(pipe) - n)
      /\ \A k \in DOMAIN pipe' : k + n \in DOMAIN pipe /\ pipe'[k] = pipe[k + n]
  BY DropIs
<1> SUFFICES ASSUME NEW i \in DOMAIN pipe', pipe'[i].a = "open"
             PROVE  i + 1 \in DOMAIN pipe' /\ pipe'[i + 1].a = "close"
  BY DEF OpensClose
<1>2. i + n \in DOMAIN pipe /\ pipe[i + n].a = "open"
  BY <1>1
<1>3. (i + n) + 1 \in DOMAIN pipe /\ pipe[(i + n) + 1].a = "close"
  BY <1>2 DEF OpensClose
<1>4. i + 1 \in DOMAIN pipe' /\ (i + 1) + n = (i + n) + 1
  BY <1>1, <1>3, SMTT(20)
<1> QED BY <1>1, <1>3, <1>4

\* An envelope of an exec's.
LEMMA EnvelopePlaces ==
  ASSUME NEW e \in Cells, NEW env \in Envs
  PROVE  LET w == Envelope(e, env) IN
         \A i \in DOMAIN w : w[i].a = "open" => i + 1 \in DOMAIN w /\ w[i + 1].a = "close"
<1> DEFINE w == Envelope(e, env)
<1>1. DOMAIN w = 1..2 /\ w[1] = Open(e) /\ w[2] = Closing(env)
  BY EnvelopeTells
<1> HIDE DEF w
<1>2. w[1].a = "open" /\ w[2].a = "close"
  BY <1>1 DEF Open, Closing
<1>3. \A i \in DOMAIN w : w[i].a = "open" => i + 1 \in DOMAIN w /\ w[i + 1].a = "close"
  <2> SUFFICES ASSUME NEW i \in DOMAIN w, w[i].a = "open" PROVE i + 1 \in DOMAIN w /\ w[i + 1].a = "close"
    OBVIOUS
  <2>1. i = 1 \/ i = 2
    BY <1>1
  <2>2. i = 1
    BY <1>2, <2>1
  <2> QED BY <1>1, <1>2, <2>2
<1> QED BY <1>3 DEF w

\* What a host writes: envelopes of the exec it runs, one after another, and its prompt.
LEMMA WritesPlaces ==
  ASSUME Types, Places, lines' = lines, held' = held, host.exec \in Cells, NEW env \in Envs,
         pipe' = pipe \o Envelope(host.exec, env)
  PROVE  Places'
<1>1. Envelope(host.exec, env) \in Seq(Atoms)
  BY EnvelopeTyped
<1> QED BY <1>1, EnvelopePlaces, PlacesAppend

LEMMA PlacesNext == ProtocolAssumption /\ Types /\ Types' /\ Turned /\ Turned' /\ Places /\ [ProtocolNext]_protocolVars => Places'
<1> SUFFICES ASSUME ProtocolAssumption, Types, Types', Turned, Turned', Places, [ProtocolNext]_protocolVars PROVE Places'
  OBVIOUS
<1>t. /\ pipe \in Seq(Atoms) /\ lines \in LinesType /\ host \in HostType /\ active \in {NoExec} \cup Cells
      /\ (host.at \in {"cell", "ending", "done"} => host.exec \in Cells) /\ said \in [Cells -> Seq(Envs)]
      /\ (held => active # NoExec) /\ host.holds \in Nat
  BY DEF Types, HostType
<1>u. Untouched => lines' = lines /\ held' = held
  BY DEF Untouched
<1>k. CASE UNCHANGED <<pipe, lines, held>>
  BY <1>k DEF Places, OpensClose, OpensEnd
<1>n. CASE pipe' = pipe /\ lines' = NoLines
  <2>1. OpensClose'
    BY <1>n DEF Places, OpensClose
  <2> QED BY <1>n, <2>1, PlacesNoLines
<1>m. CASE pipe' = <<>> /\ lines' = NoLines
  <2>1. OpensClose'
    BY <1>m DEF OpensClose
  <2> QED BY <1>m, <2>1, PlacesNoLines
<1>0. CASE UNCHANGED protocolVars
  BY <1>k, <1>0 DEF protocolVars
<1>1. CASE HostReads
  BY <1>k, <1>1 DEF HostReads, Untouched
<1>2. CASE Prints
  <2>1. Says("stdout") /\ host.exec \in Cells /\ lines' = lines /\ held' = held
    BY <1>t, <1>u, <1>2 DEF Prints
  <2>2. PICK v \in Nat : Env("stdout", v) \in Envs /\ pipe' = pipe \o Envelope(host.exec, Env("stdout", v))
    BY <1>t, <2>1, SaysTyped
  <2> QED BY <2>1, <2>2, WritesPlaces
<1>3. CASE CellEnds
  BY <1>k, <1>3 DEF CellEnds, Untouched
<1>4. CASE CellFails
  <2>1. Says("error") /\ host.exec \in Cells /\ lines' = lines /\ held' = held
    BY <1>t, <1>u, <1>4 DEF CellFails
  <2>2. PICK v \in Nat : Env("error", v) \in Envs /\ pipe' = pipe \o Envelope(host.exec, Env("error", v))
    BY <1>t, <2>1, SaysTyped
  <2> QED BY <2>1, <2>2, WritesPlaces
<1>5. CASE TellsCheckpoint
  <2>1. host.exec \in Cells /\ lines' = lines /\ held' = held
    BY <1>t, <1>u, <1>5 DEF TellsCheckpoint
  <2>2. PICK env \in {Env("checkpoint-preserved", NoExec), Env("checkpoint", host.holds)} : Writes(env)
    BY <1>5 DEF TellsCheckpoint
  <2>3. env \in Envs
    BY <1>t, <2>2, EnvTyped
  <2>4. pipe' = pipe \o Envelope(host.exec, env)
    BY <2>2 DEF Writes
  <2> QED BY <2>1, <2>3, <2>4, WritesPlaces
<1>6. CASE CheckpointFails
  <2> DEFINE v == Len(said[host.exec]) + 1
             error == Env("error", v)
             kept == Env("checkpoint-preserved", NoExec)
             a == Envelope(host.exec, error)
             b == Envelope(host.exec, kept)
  <2>1. host.exec \in Cells /\ lines' = lines /\ held' = held
    BY <1>t, <1>u, <1>6 DEF CheckpointFails
  <2>2. v \in Nat
    BY <1>t, <2>1
  <2>3. pipe' = (pipe \o a) \o (IF PreservesOnFailure(kind) THEN b ELSE <<>>)
    BY <1>6 DEF CheckpointFails
  <2>4. error \in Envs /\ kept \in Envs
    <3> HIDE DEF v
    <3> QED BY <2>2, EnvTyped
  <2>5. a \in Seq(Atoms) /\ b \in Seq(Atoms)
    BY <2>1, <2>4, EnvelopeTyped
  <2>j. /\ a = <<Open(host.exec), Closing(error)>> /\ b = <<Open(host.exec), Closing(kept)>>
        /\ Open(host.exec) \in Atoms /\ Closing(error) \in Atoms /\ Closing(kept) \in Atoms
    BY <2>1, <2>4, EnvelopeTyped
  <2>a. a = Envelope(host.exec, error)
    OBVIOUS
  <2> HIDE DEF error, kept, v, a, b
  <2>7. CASE ~PreservesOnFailure(kind)
    <3>1. pipe' = pipe \o a
      BY <1>t, <2>3, <2>5, <2>7
    <3> QED BY <2>1, <2>4, <2>a, <3>1, WritesPlaces
  <2>8. CASE PreservesOnFailure(kind)
    <3> DEFINE w == <<Open(host.exec), Closing(error), Open(host.exec), Closing(kept)>>
    <3>1. pipe' = (pipe \o a) \o b
      BY <2>3, <2>8
    <3>2. pipe' = pipe \o w
      <4>2. \A x, y, u, z \in Atoms : (pipe \o <<x, y>>) \o <<u, z>> = pipe \o <<x, y, u, z>>
        BY <1>t, JoinIs
      <4>1. (pipe \o <<Open(host.exec), Closing(error)>>) \o <<Open(host.exec), Closing(kept)>> = pipe \o w
        BY <2>j, <4>2, Zenon
      <4> QED BY <2>j, <3>1, <4>1, Zenon
    <3>3. w \in Seq(Atoms) /\ DOMAIN w = 1..4 /\ w[1] = Open(host.exec) /\ w[2] = Closing(error)
          /\ w[3] = Open(host.exec) /\ w[4] = Closing(kept)
      BY <2>j
    <3>k. Open(host.exec).a = "open" /\ Closing(error).a = "close" /\ Closing(kept).a = "close"
      BY DEF Open, Closing
    <3> HIDE DEF w
    <3>4. \A i \in DOMAIN w : w[i].a = "open" => i + 1 \in DOMAIN w /\ w[i + 1].a = "close"
      <4> SUFFICES ASSUME NEW i \in DOMAIN w, w[i].a = "open" PROVE i + 1 \in DOMAIN w /\ w[i + 1].a = "close"
        OBVIOUS
      <4>1. i = 1 \/ i = 2 \/ i = 3 \/ i = 4
        BY <3>3
      <4>2. i = 1 \/ i = 3
        BY <3>3, <3>k, <4>1
      <4> QED BY <3>3, <3>k, <4>2
    <3> QED BY <2>1, <3>2, <3>3, <3>4, PlacesAppend
  <2> QED BY <2>7, <2>8
<1>7. CASE SaysDone
  <2>1. host.exec \in Cells /\ Env("done", NoExec) \in Envs /\ lines' = lines /\ held' = held
    BY <1>t, <1>u, <1>7, EnvTyped DEF SaysDone
  <2>2. pipe' = pipe \o Envelope(host.exec, Env("done", NoExec))
    BY <1>7 DEF SaysDone, Writes
  <2> QED BY <2>1, <2>2, WritesPlaces
<1>8. CASE Prompts
  <2>1. pipe' = pipe \o <<Prompt>> /\ <<Prompt>> \in Seq(Atoms) /\ DOMAIN <<Prompt>> = {1} /\ <<Prompt>>[1] = Prompt
    <3>1. pipe' = Append(pipe, Prompt)
      BY <1>8 DEF Prompts
    <3> QED BY <1>t, <3>1, AtomsTyped
  <2>2. \A i \in DOMAIN <<Prompt>> : <<Prompt>>[i].a # "open"
    BY <2>1 DEF Prompt
  <2>3. lines' = lines /\ held' = held
    BY <1>8 DEF Prompts, Untouched
  <2> QED BY <2>1, <2>2, <2>3, PlacesAppend
<1>9. CASE TakesSignal
  <2>1. lines' = lines /\ held' = held
    BY <1>u, <1>9 DEF TakesSignal
  <2>2. CASE host.at = "cell" /\ Says("error")
    <3>1. host.exec \in Cells
      BY <1>t, <2>2
    <3>2. PICK v \in Nat : Env("error", v) \in Envs /\ pipe' = pipe \o Envelope(host.exec, Env("error", v))
      BY <1>t, <2>2, <3>1, SaysTyped
    <3> QED BY <2>1, <3>1, <3>2, WritesPlaces
  <2>3. CASE pipe' = pipe
    BY <1>k, <2>1, <2>3
  <2> QED BY <1>9, <2>2, <2>3 DEF TakesSignal
<1>10. CASE HostDies
  BY <1>k, <1>10 DEF HostDies, Untouched
<1>11. CASE LeftoverWrites
  <2>1. PICK w \in Seq(Atoms) :
            /\ pipe' = pipe \o w
            /\ \/ \A i \in DOMAIN w : w[i].a \notin {"open", "close"}
               \/ \E b \in Cells, env \in Envs : w = Envelope(b, env)
    BY <1>11, LeftoverIs
  <2>2. \A i \in DOMAIN w : w[i].a = "open" => i + 1 \in DOMAIN w /\ w[i + 1].a = "close"
    BY <2>1, EnvelopePlaces
  <2>3. lines' = lines /\ held' = held
    BY <1>11 DEF LeftoverWrites, Untouched
  <2> QED BY <2>1, <2>2, <2>3, PlacesAppend
<1>12. CASE \E e \in Cells : Start(e)
  BY <1>n, <1>12 DEF Start
<1>13. CASE ReadsChunk
  <2>1. PICK n \in 1..Len(pipe) : ReadsUpTo(n)
    BY <1>13, ReadsIs
  <2>2. pipe' = SubSeq(pipe, n + 1, Len(pipe))
    BY <2>1 DEF ReadsUpTo
  <2>3. OpensClose'
    BY <1>t, <2>2, PlacesDrop DEF Places
  <2>4. CASE held' \/ lines' = NoLines
    BY <2>3, <2>4, PlacesNoLines DEF Places
  <2>5. CASE ~(held' \/ lines' = NoLines)
    <3>1. active # NoExec /\ ~held /\ session # "quarantined"
      BY <2>1, <2>5 DEF ReadsUpTo, Turned, Turns
    <3>2. PICK p, c : p = Pushed(SubSeq(pipe, 1, n)) /\ p \in LinesType
                        /\ (EndsExec(c, c.messages) \/ lines' = [p EXCEPT !.found = <<>>])
      BY <2>1, <3>1 DEF ReadsUpTo
    <3>3. lines' = [p EXCEPT !.found = <<>>]
      BY <2>5, <3>2 DEF EndsExec, Unset
    <3>4. lines'.line = p.line
      BY <3>2, <3>3 DEF LinesType
    <3>5. \A k \in DOMAIN p.line : p.line[k].a = "open" =>
              k = Len(p.line) /\ n + 1 \in DOMAIN pipe /\ pipe[n + 1].a = "close"
      BY <1>t, <3>1, <3>2, HeardIs DEF Places
    <3>6. /\ Len(pipe) \in Nat /\ DOMAIN pipe = 1..Len(pipe) /\ DOMAIN pipe' = 1..(Len(pipe) - n)
          /\ \A k \in DOMAIN pipe' : k + n \in DOMAIN pipe /\ pipe'[k] = pipe[k + n]
      BY <1>t, <2>2, DropIs
    <3>7. n + 1 \in DOMAIN pipe => pipe' # <<>> /\ pipe'[1] = pipe[n + 1]
      <4>1. n + 1 \in DOMAIN pipe => 1 \in DOMAIN pipe'
        BY <3>6
      <4>2. 1 \in DOMAIN pipe' => pipe' # <<>>
        OBVIOUS
      <4> QED BY <3>6, <4>1, <4>2
    <3> QED BY <2>3, <3>4, <3>5, <3>7 DEF Places, OpensEnd
  <2> QED BY <2>4, <2>5
<1>14. CASE EndsHeld
  BY <1>n, <1>14 DEF EndsHeld, EndsExec, Unset
<1>15. CASE HearsOfExit
  BY <1>k, <1>n, <1>15 DEF HearsOfExit, Unset
<1>16. CASE Interrupt
  BY <1>k, <1>16 DEF Interrupt
<1>17. CASE SoftInterrupt
  BY <1>n, <1>17 DEF SoftInterrupt, Finalized, Unset
<1>18. CASE RecycleInterrupt
  BY <1>m, <1>18 DEF RecycleInterrupt, Finalized, Unset, NewHost
<1>19. CASE LateInterrupt
  BY <1>k, <1>19 DEF LateInterrupt
<1>20. CASE ResetsHost
  <2>1. pipe' = <<>> /\ lines' = NoLines
    BY <1>20 DEF ResetsHost, NewHost, Finalized, Unset, Turned, Turns
  <2> QED BY <1>m, <2>1
<1>21. CASE Save
  BY <1>k, <1>21 DEF Save
<1>22. CASE RunsOn
  BY <1>k, <1>22 DEF RunsOn
<1> QED BY <1>0, <1>1, <1>2, <1>3, <1>4, <1>5, <1>6, <1>7, <1>8, <1>9, <1>10, <1>11, <1>12,
           <1>13, <1>14, <1>15, <1>16, <1>17, <1>18, <1>19, <1>20, <1>21, <1>22 DEF ProtocolNext

-----------------------------------------------------------------------------
(* The errors a host wrote.                                                *)

ErrorComes == \E i \in DOMAIN pipe : IsEnv(pipe[i], {"error"}) /\ Before(i) = Open(active)

\* What is appended leaves the error to come.
LEMMA ErrorKept ==
  ASSUME pipe \in Seq(Atoms), NEW w \in Seq(Atoms), pipe' = pipe \o w, lines' = lines, active' = active, ErrorComes
  PROVE  ErrorComes'
<1>1. PICK i \in DOMAIN pipe : IsEnv(pipe[i], {"error"}) /\ Before(i) = Open(active)
  BY DEF ErrorComes
<1>2. i \in DOMAIN pipe' /\ pipe'[i] = pipe[i] /\ Before(i)' = Before(i)
  BY BeforeKept
<1>3. Before(i)' = Open(active')
  BY <1>1, <1>2
<1> QED BY <1>1, <1>2, <1>3 DEF ErrorComes, IsEnv, Before

\* A step that tells no error, and changes no exec's status.
LEMMA ErrorQuiet ==
  ASSUME Types, ErrorInv, active' = active, lines' = lines, capture'.status = "ok" => capture.status = "ok",
         NEW w \in Seq(Atoms), pipe' = pipe \o w,
         \A e \in Cells : record'[e].status = record[e].status, active # NoExec => record[active].status = "running",
         \A e \in Cells : said'[e] = said[e]
            \/ /\ e = active /\ active # NoExec
               /\ (\E k \in DOMAIN said'[e] : said'[e][k].kind = "error") => SaidError(e)
  PROVE  ErrorInv'
<1>1. active \in {NoExec} \cup Cells /\ pipe \in Seq(Atoms)
  BY DEF Types
<1>2. \A e \in Cells : SaidError(e)' => SaidError(e)
  BY DEF SaidError
<1>3. \A e \in Cells : said'[e] = said[e] \/ (e = active /\ active # NoExec)
  OBVIOUS
<1>4. ErrorComes => ErrorComes'
  BY <1>1, ErrorKept
<1>5. ErrorInv = /\ \A e \in Cells : record[e].status = "none" => said[e] = <<>>
                 /\ active # NoExec /\ SaidError(active) => capture.status # "ok" \/ ErrorComes
                 /\ \A e \in Cells : record[e].status = "ok" => ~SaidError(e)
  BY DEF ErrorInv, ErrorComes
<1> QED BY <1>1, <1>2, <1>3, <1>4 DEF ErrorInv, ErrorComes, SaidError

\* The exec's host writes an error of it.
LEMMA ErrorWritten ==
  ASSUME Types, ErrorInv, active # NoExec, record[active].status = "running", active' = active, lines' = lines,
         record' = record, NEW w \in Seq(Atoms), pipe' = pipe \o w, 2 \in DOMAIN w, w[1] = Open(active),
         IsEnv(w[2], {"error"}), \A e \in Cells \ {active} : said'[e] = said[e]
  PROVE  ErrorInv'
<1>1. active \in Cells /\ pipe \in Seq(Atoms)
  BY DEF Types
<1>2. Len(pipe) \in Nat /\ Len(w) \in Nat /\ DOMAIN w = 1..Len(w) /\ DOMAIN pipe' = 1..(Len(pipe) + Len(w))
  BY <1>1, AppendIs
<1>i. PICK i \in Nat : i = Len(pipe) + 2
  BY <1>2
<1>3. i \in DOMAIN pipe' /\ i > 1
  BY <1>2, <1>i
<1>4. pipe'[i] = w[2] /\ pipe'[i - 1] = w[1]
  BY <1>1, <1>2, <1>i
<1>5. Before(i)' = Open(active)
  BY <1>3, <1>4 DEF Before
<1>6. ErrorComes'
  BY <1>3, <1>4, <1>5 DEF ErrorComes, IsEnv
<1> QED BY <1>1, <1>6 DEF ErrorInv, ErrorComes, SaidError

\* The active exec is over.
LEMMA ErrorOver ==
  ASSUME Types, ErrorInv, active # NoExec, active' = NoExec, said' = said,
         \A d \in Cells \ {active} : record'[d].status = record[d].status,
         record'[active].status # "none", record'[active].status = "ok" => ~SaidError(active)
  PROVE  ErrorInv'
<1>1. active \in Cells
  BY DEF Types
<1> QED BY <1>1 DEF ErrorInv, SaidError

LEMMA ErrorEnds ==
  ASSUME ProtocolAssumption, Types, ErrorInv, active # NoExec, NEW c, NEW messages,
         Unmessaged(c) \in CaptureType, EndsExec(c, messages), SaidError(active) => c.status # "ok"
  PROVE  ErrorInv'
<1>1. active \in Cells /\ RecordType(record)
  BY DEF Types
<1>2. PICK failed \in BOOLEAN :
        LET bad == Unsettled(c) \/ failed IN
        record' = [record EXCEPT ![active] =
                     [status |-> IF bad THEN "error" ELSE c.status,
                      messages |-> IF bad THEN Append(messages, Told("checkpoint")) ELSE messages]]
  BY DEF EndsExec
<1>3. c.status \in {"ok", "error", "interrupted"}
  BY DEF Unmessaged, CaptureType
<1> DEFINE bad == Unsettled(c) \/ failed
           s == IF bad THEN "error" ELSE c.status
           ms == IF bad THEN Append(messages, Told("checkpoint")) ELSE messages
<1>4. s \in {"none", "running", "ok", "error", "interrupted"} /\ s # "none" /\ (s = "ok" => c.status = "ok")
  BY <1>3
<1>5. record' = [record EXCEPT ![active] = [status |-> s, messages |-> ms]]
  BY <1>2
<1> HIDE DEF s, ms
<1>6. record'[active].status = s /\ \A d \in Cells \ {active} : record'[d] = record[d]
  BY <1>1, <1>4, <1>5, RecordTyped
<1>7. active' = NoExec /\ said' = said
  BY DEF EndsExec, Unset
<1> QED BY <1>4, <1>6, <1>7, ErrorOver

\* An error a chunk does not hold is still to come, and one it holds is heard.
LEMMA ErrorHeard ==
  ASSUME ProtocolAssumption, Types, Turned, OutcomeInv, Places, ErrorInv, active # NoExec, ~held,
         NEW n \in 1..Len(pipe), pipe' = SubSeq(pipe, n + 1, Len(pipe)),
         NEW p, p = Pushed(SubSeq(pipe, 1, n)), NEW messages,
         NEW c, c = AllConsumed(WithMessages(capture, messages), p.found), SaidError(active)
  PROVE  \/ c.status # "ok"
         \/ \E i \in DOMAIN pipe : i > n /\ IsEnv(pipe[i], {"error"}) /\ Before(i) = Open(active)
<1>1. pipe \in Seq(Atoms) /\ lines \in LinesType /\ Len(pipe) \in Nat /\ DOMAIN pipe = 1..Len(pipe)
  BY DEF Types
<1>2. /\ capture.status # "ok" => c.status # "ok"
      /\ (\E q \in DOMAIN p.found : p.found[q].kind = "error") => c.status # "ok"
  BY ChunkCaptured
<1>3. CASE capture.status # "ok"
  BY <1>2, <1>3
<1>4. CASE capture.status = "ok"
  <2>1. PICK i \in DOMAIN pipe : IsEnv(pipe[i], {"error"}) /\ Before(i) = Open(active)
    BY <1>4 DEF ErrorInv
  <2>2. CASE i > n
    BY <2>1, <2>2
  <2>3. CASE ~(i > n)
    <3>1. i \in 1..n /\ pipe[i].a = "close" /\ pipe[i].env.kind = "error"
      BY <1>1, <2>1, <2>3 DEF IsEnv
    <3>2. \A k \in 1..n : pipe[k].a = "close" /\ Before(k) = Open(active) =>
              IF pipe[k].env.kind = "done" THEN p.done
              ELSE \E q \in DOMAIN p.found : p.found[q] = pipe[k].env
      BY <1>1, HeardIs DEF Places
    <3>3. \E q \in DOMAIN p.found : p.found[q] = pipe[i].env
      BY <2>1, <3>1, <3>2
    <3> QED BY <1>2, <3>1, <3>3
  <2> QED BY <2>2, <2>3
<1> QED BY <1>3, <1>4

LEMMA ErrorInit == ProtocolAssumption /\ ProtocolInit => ErrorInv
<1> SUFFICES ASSUME ProtocolInit PROVE ErrorInv
  OBVIOUS
<1>1. \A e \in Cells : said[e] = <<>> /\ record[e].status = "none"
  BY DEF ProtocolInit
<1> QED BY <1>1 DEF ErrorInv, ProtocolInit, SaidError

LEMMA JoinedIs ==
  \A a, b \in Seq(Atoms) : \A i \in DOMAIN a : i \in DOMAIN (a \o b) /\ (a \o b)[i] = a[i]
OBVIOUS

LEMMA ErrorNext ==
  ProtocolAssumption /\ Types /\ Types' /\ Turned /\ OutcomeInv /\ IntrInv /\ Places /\ ErrorInv /\ [ProtocolNext]_protocolVars
    => ErrorInv'
<1> SUFFICES ASSUME ProtocolAssumption, Types, Types', Turned, OutcomeInv, IntrInv, Places, ErrorInv, [ProtocolNext]_protocolVars
             PROVE  ErrorInv'
  OBVIOUS
<1>t. /\ pipe \in Seq(Atoms) /\ lines \in LinesType /\ host \in HostType /\ RecordType(record)
      /\ host.at \in {"cell", "ending", "done"} => host.exec \in Cells
      /\ active \in {NoExec} \cup Cells /\ (held => active # NoExec) /\ said \in [Cells -> Seq(Envs)]
  BY DEF Types
<1>e. <<>> \in Seq(Atoms) /\ pipe = pipe \o <<>>
  BY <1>t
<1>r. active # NoExec => active \in Cells /\ record[active].status = "running"
  BY <1>t DEF Turned, Turns
<1>w. host.at \in {"cell", "ending", "done"} => active # NoExec /\ host.exec = active
  BY DEF Turned, Turns, Running
<1>u. Untouched => active' = active /\ lines' = lines /\ capture' = capture /\ record' = record
  BY DEF Untouched
<1>k. ASSUME active' = active, lines' = lines, capture' = capture, record' = record, said' = said,
             NEW w \in Seq(Atoms), pipe' = pipe \o w
      PROVE  ErrorInv'
  BY <1>k, <1>r, ErrorQuiet
<1>p. active' = active /\ lines' = lines /\ capture' = capture /\ record' = record /\ said' = said /\ pipe' = pipe
        => ErrorInv'
  BY <1>e, <1>k
<1>s. ASSUME host.at \in {"cell", "ending", "done"}, Says("error"), Untouched PROVE ErrorInv'
  <2>1. host.exec \in Cells
    BY <1>t, <1>s
  <2>2. PICK v \in Nat : /\ Env("error", v) \in Envs /\ pipe' = pipe \o Envelope(host.exec, Env("error", v))
                         /\ said' = [said EXCEPT ![host.exec] = Append(@, Env("error", v))]
    BY <1>t, <1>s, <2>1, SaysTyped
  <2> DEFINE w == Envelope(host.exec, Env("error", v))
  <2>3. w \in Seq(Atoms) /\ 2 \in DOMAIN w /\ w[1] = Open(host.exec) /\ IsEnv(w[2], {"error"})
    <3>1. Env("error", v).kind = "error"
      BY DEF Env
    <3>2. w \in Seq(Atoms) /\ DOMAIN w = 1..2 /\ w[1] = Open(host.exec) /\ w[2] = Closing(Env("error", v))
          /\ \A kinds : \A i \in DOMAIN w : IsEnv(w[i], kinds) <=> i = 2 /\ Env("error", v).kind \in kinds
      BY <2>1, <2>2, EnvelopeTyped, EnvelopeTells
    <3> HIDE DEF w
    <3> QED BY <3>1, <3>2
  <2>4. pipe' = pipe \o w
    BY <2>2
  <2> HIDE DEF w
  <2>5. \A e \in Cells \ {active} : said'[e] = said[e]
    BY <1>s, <1>t, <1>w, <2>2
  <2> QED BY <1>r, <1>s, <1>u, <1>w, <2>3, <2>4, <2>5, ErrorWritten
<1>0. CASE UNCHANGED protocolVars
  BY <1>p, <1>0 DEF protocolVars
<1>1. CASE HostReads
  BY <1>p, <1>1, <1>u DEF HostReads
<1>2. CASE Prints
  <2>1. Says("stdout") /\ host.exec \in Cells /\ host.exec = active /\ active # NoExec
    BY <1>t, <1>w, <1>2 DEF Prints
  <2>2. PICK v \in Nat : /\ Env("stdout", v) \in Envs /\ pipe' = pipe \o Envelope(host.exec, Env("stdout", v))
                         /\ said' = [said EXCEPT ![host.exec] = Append(@, Env("stdout", v))]
    BY <1>t, <2>1, SaysTyped
  <2>3. Envelope(host.exec, Env("stdout", v)) \in Seq(Atoms)
    BY <2>1, <2>2, EnvelopeTyped
  <2>4. active' = active /\ lines' = lines /\ capture' = capture /\ record' = record
    BY <1>2, <1>u DEF Prints
  <2>5. (\E k \in DOMAIN said'[active] : said'[active][k].kind = "error") => SaidError(active)
    <3>1. Env("stdout", v).kind = "stdout"
      BY DEF Env
    <3> DEFINE x == Env("stdout", v)
               s == said[active]
    <3>2. s \in Seq(Envs) /\ x \in Envs /\ x.kind = "stdout"
      BY <1>t, <2>1, <2>2, <3>1
    <3>3. said'[active] = Append(s, x)
      BY <1>t, <2>1, <2>2
    <3> HIDE DEF s, x
    <3>4. \A k \in DOMAIN Append(s, x) : Append(s, x)[k].kind = "error" => k \in DOMAIN s /\ s[k].kind = "error"
      BY <3>2
    <3> QED BY <3>3, <3>4 DEF SaidError, s
  <2>6. \A e \in Cells : said'[e] = said[e] \/ e = active
    BY <1>t, <2>1, <2>2
  <2> DEFINE w == Envelope(host.exec, Env("stdout", v))
  <2>7. w \in Seq(Atoms) /\ pipe' = pipe \o w
    BY <2>2, <2>3
  <2> HIDE DEF w
  <2>8. \A e \in Cells : said'[e] = said[e]
            \/ /\ e = active /\ active # NoExec
               /\ (\E k \in DOMAIN said'[e] : said'[e][k].kind = "error") => SaidError(e)
    BY <2>1, <2>5, <2>6
  <2> QED BY <1>r, <2>4, <2>7, <2>8, ErrorQuiet
<1>3. CASE CellEnds
  BY <1>p, <1>3, <1>u DEF CellEnds
<1>4. CASE CellFails
  BY <1>s, <1>4 DEF CellFails
<1>5. CASE TellsCheckpoint
  <2>1. host.exec \in Cells /\ host.holds \in Nat
    BY <1>t, <1>5 DEF TellsCheckpoint, HostType
  <2>2. PICK env \in {Env("checkpoint-preserved", NoExec), Env("checkpoint", host.holds)} : Writes(env)
    BY <1>5 DEF TellsCheckpoint
  <2>3. env \in Envs
    BY <2>1, <2>2, EnvTyped
  <2>4. pipe' = pipe \o Envelope(host.exec, env) /\ said' = said /\ Envelope(host.exec, env) \in Seq(Atoms)
    BY <2>1, <2>2, <2>3, EnvelopeTyped DEF Writes
  <2> QED BY <1>k, <1>5, <1>u, <2>4 DEF TellsCheckpoint
<1>6. CASE CheckpointFails
  <2> DEFINE v == Len(said[host.exec]) + 1
             error == Env("error", v)
             kept == Env("checkpoint-preserved", NoExec)
             a == Envelope(host.exec, error)
             rest == IF PreservesOnFailure(kind) THEN Envelope(host.exec, kept) ELSE <<>>
             w == a \o rest
  <2>1. host.exec \in Cells /\ host.exec = active /\ active # NoExec /\ host.at = "ending"
    BY <1>t, <1>w, <1>6 DEF CheckpointFails
  <2>2. v \in Nat
    BY <1>t, <2>1
  <2>3. pipe' = (pipe \o a) \o rest /\ said' = [said EXCEPT ![host.exec] = Append(@, error)]
    BY <1>6 DEF CheckpointFails
  <2>4. error \in Envs /\ kept \in Envs /\ error.kind = "error"
    <3> HIDE DEF v
    <3> QED BY <2>2, EnvTyped DEF Env
  <2>5. /\ a \in Seq(Atoms) /\ rest \in Seq(Atoms) /\ Len(a) = 2 /\ DOMAIN a = 1..2 /\ a[1] = Open(active)
        /\ IsEnv(a[2], {"error"})
    <3>1. a \in Seq(Atoms) /\ Envelope(host.exec, kept) \in Seq(Atoms)
      BY <2>1, <2>4, EnvelopeTyped
    <3>2. Len(a) = 2 /\ DOMAIN a = 1..2 /\ a[1] = Open(host.exec)
          /\ \A kinds : \A i \in DOMAIN a : IsEnv(a[i], kinds) <=> i = 2 /\ error.kind \in kinds
      BY <2>1, <2>4, EnvelopeTells
    <3> HIDE DEF a, error, kept
    <3>3. IsEnv(a[2], {"error"})
      BY <2>4, <3>2
    <3> QED BY <2>1, <3>1, <3>2, <3>3
  <2> HIDE DEF error, kept, v, a, rest
  <2>6. /\ pipe' = pipe \o w /\ w \in Seq(Atoms) /\ 2 \in DOMAIN w /\ w[1] = a[1] /\ w[2] = a[2]
    <3>1. pipe' = pipe \o w /\ w \in Seq(Atoms)
      BY <1>t, <2>3, <2>5
    <3>4. a \in Seq(Atoms) /\ rest \in Seq(Atoms)
      BY <2>5
    <3>0. \A i \in DOMAIN a : i \in DOMAIN (a \o rest) /\ (a \o rest)[i] = a[i]
      BY <3>4, JoinedIs, Zenon
    <3>2. \A i \in DOMAIN a : i \in DOMAIN w /\ w[i] = a[i]
      BY <3>0
    <3>3. 1 \in DOMAIN a /\ 2 \in DOMAIN a
      BY <2>5
    <3> QED BY <3>1, <3>2, <3>3
  <2>7. \A e \in Cells \ {active} : said'[e] = said[e]
    BY <1>t, <2>1, <2>3
  <2>8. active' = active /\ lines' = lines /\ record' = record
    BY <1>6, <1>u DEF CheckpointFails
  <2> HIDE DEF w
  <2> QED BY <1>r, <2>1, <2>5, <2>6, <2>7, <2>8, ErrorWritten
<1>7. CASE SaysDone
  <2>1. host.exec \in Cells /\ Env("done", NoExec) \in Envs
    BY <1>t, <1>7, EnvTyped DEF SaysDone
  <2>2. pipe' = pipe \o Envelope(host.exec, Env("done", NoExec)) /\ said' = said
        /\ Envelope(host.exec, Env("done", NoExec)) \in Seq(Atoms)
    BY <1>7, <2>1, EnvelopeTyped DEF SaysDone, Writes
  <2> QED BY <1>k, <1>7, <1>u, <2>2 DEF SaysDone
<1>8. CASE Prompts
  <2>1. pipe' = pipe \o <<Prompt>> /\ <<Prompt>> \in Seq(Atoms)
    <3>1. pipe' = Append(pipe, Prompt)
      BY <1>8 DEF Prompts
    <3> QED BY <1>t, <3>1, AtomsTyped
  <2>2. said' = said
    BY <1>8 DEF Prompts
  <2> QED BY <1>k, <1>8, <1>u, <2>1, <2>2 DEF Prompts
<1>9. CASE TakesSignal
  <2>1. Untouched
    BY <1>9 DEF TakesSignal
  <2>2. CASE host.at = "cell" /\ Says("error")
    BY <1>s, <2>1, <2>2
  <2>3. CASE pipe' = pipe /\ said' = said
    BY <1>p, <1>u, <2>1, <2>3
  <2> QED BY <1>9, <2>2, <2>3 DEF TakesSignal
<1>10. CASE HostDies
  BY <1>p, <1>10, <1>u DEF HostDies
<1>11. CASE LeftoverWrites
  <2>1. PICK w \in Seq(Atoms) : pipe' = pipe \o w
    BY <1>11, LeftoverIs
  <2> QED BY <1>k, <1>11, <1>u, <2>1 DEF LeftoverWrites
<1>12. CASE \E e \in Cells : Start(e)
  <2>1. PICK e \in Cells : Start(e)
    BY <1>12
  <2>2. active' = e /\ said' = said /\ record[e].status = "none"
    BY <2>1 DEF Start
  <2>3. record'[e].status = "running" /\ \A d \in Cells \ {e} : record'[d] = record[d]
    BY <1>t, <2>1, StatusTyped DEF Start
  <2>4. ~SaidError(e)
    BY <2>2 DEF ErrorInv, SaidError
  <2> QED BY <2>2, <2>3, <2>4 DEF ErrorInv, SaidError
<1>13. CASE ReadsChunk
  <2>1. PICK n \in 1..Len(pipe) : ReadsUpTo(n)
    BY <1>13, ReadsIs
  <2>2. pipe' = SubSeq(pipe, n + 1, Len(pipe))
    BY <2>1 DEF ReadsUpTo
  <2>3. CASE active = NoExec \/ held \/ session = "quarantined"
    <3>1. active' = active /\ lines' = lines /\ capture' = capture /\ record' = record /\ said' = said
      BY <2>1, <2>3 DEF ReadsUpTo
    <3>2. CASE active = NoExec
      BY <3>1, <3>2 DEF ErrorInv, SaidError
    <3>3. CASE active # NoExec
      <4>1. held /\ session = "live"
        BY <2>3, <3>3 DEF Turned, Turns, Types
      <4>2. lines.done /\ ~InPipe(Telling)
        BY <4>1 DEF Turned, Turns, Tellings, IsDone
      <4>3. \A i \in DOMAIN pipe : ~IsEnv(pipe[i], {"error"})
        BY <4>2 DEF InPipe, IsEnv, Telling
      <4> QED BY <3>1, <4>3 DEF ErrorInv, SaidError
    <3> QED BY <3>2, <3>3
  <2>4. CASE ~(active = NoExec \/ held \/ session = "quarantined")
    <3>1. PICK p, c :
             /\ p = Pushed(SubSeq(pipe, 1, n))
             /\ c = AllConsumed(WithMessages(capture, record[active].messages), p.found)
             /\ p \in LinesType /\ Unmessaged(c) \in CaptureType
             /\ \/ IsDone(p) /\ ~saved /\ EndsExec(c, c.messages)
                \/ /\ ~(IsDone(p) /\ ~saved)
                   /\ lines' = [p EXCEPT !.found = <<>>]
                   /\ capture' = Unmessaged(c)
                   /\ record' = [record EXCEPT ![active].messages = c.messages]
                   /\ held' = IsDone(p)
                   /\ UNCHANGED <<kind, host, stdin, active, intr, store, session,
                                  saved, spent, said, left, ended>>
      BY <2>1, <2>4 DEF ReadsUpTo
    <3>2. active # NoExec /\ active \in Cells /\ ~held
      BY <1>t, <2>4
    <3>3. SaidError(active) => \/ c.status # "ok"
                               \/ \E i \in DOMAIN pipe : i > n /\ IsEnv(pipe[i], {"error"}) /\ Before(i) = Open(active)
      BY <2>2, <3>1, <3>2, ErrorHeard
    <3>4. /\ p.done => ~InPipe(Telling)'
          /\ p.prompted => p.done
      BY <2>2, <3>1, <3>2, ChunkTurned
    <3>5. CASE IsDone(p) /\ ~saved /\ EndsExec(c, c.messages)
      <4>1. SaidError(active) => c.status # "ok"
        <5> SUFFICES ASSUME NEW i \in DOMAIN pipe, i > n, IsEnv(pipe[i], {"error"}) PROVE FALSE
          BY <3>3
        <5>1. ~InPipe(Telling)'
          BY <3>4, <3>5 DEF IsDone
        <5>2. /\ Len(pipe) \in Nat /\ DOMAIN pipe = 1..Len(pipe) /\ DOMAIN pipe' = 1..(Len(pipe) - n)
              /\ \A k \in DOMAIN pipe' : k + n \in DOMAIN pipe /\ pipe'[k] = pipe[k + n]
          BY <1>t, <2>2, DropIs
        <5>3. i - n \in DOMAIN pipe' /\ (i - n) + n = i
          BY <5>2
        <5>4. pipe'[i - n] = pipe[i]
          BY <5>2, <5>3
        <5>5. IsEnv(pipe'[i - n], Telling)
          BY <5>4 DEF IsEnv, Telling
        <5> QED BY <5>1, <5>3, <5>5 DEF InPipe, IsEnv
      <4> QED BY <3>1, <3>2, <3>5, <4>1, ErrorEnds
    <3>6. CASE /\ lines' = [p EXCEPT !.found = <<>>]
               /\ capture' = Unmessaged(c)
               /\ record' = [record EXCEPT ![active].messages = c.messages]
               /\ UNCHANGED <<kind, host, stdin, active, intr, store, session,
                              saved, spent, said, left, ended>>
      <4>1. active' = active /\ said' = said /\ capture'.status = c.status
        BY <3>6 DEF Unmessaged
      <4>2. \A d \in Cells : record'[d].status = record[d].status
        BY <1>t, <3>2, <3>6, MessagesTyped
      <4>3. SaidError(active) /\ c.status = "ok" => ErrorComes'
        <5> SUFFICES ASSUME NEW i \in DOMAIN pipe, i > n, IsEnv(pipe[i], {"error"}), Before(i) = Open(active)
                     PROVE  ErrorComes'
          BY <3>3
        <5>1. lines' = [Pushed(SubSeq(pipe, 1, n)) EXCEPT !.found = <<>>]
          BY <3>1, <3>6
        <5>2. PICK k : k = i - n
          OBVIOUS
        <5>3. k \in DOMAIN pipe' /\ pipe'[k] = pipe[i] /\ Before(i - n)' = Open(active)
          BY <1>t, <2>2, <5>1, <5>2, BeforeLeft
        <5>4. Before(k)' = Open(active')
          BY <4>1, <5>2, <5>3
        <5> QED BY <5>3, <5>4 DEF ErrorComes, IsEnv
      <4> QED BY <4>1, <4>2, <4>3 DEF ErrorInv, ErrorComes, SaidError
    <3> QED BY <3>1, <3>5, <3>6
  <2> QED BY <2>3, <2>4
<1>14. CASE EndsHeld
  <2>1. held /\ active # NoExec /\ EndsExec(capture, record[active].messages)
    BY <1>t, <1>14 DEF EndsHeld
  <2>2. Unmessaged(capture) \in CaptureType
    BY DEF Types, Unmessaged, CaptureType
  <2>3. lines.done /\ ~InPipe(Telling)
    BY <2>1 DEF Turned, Turns, Tellings, IsDone
  <2>4. SaidError(active) => capture.status # "ok"
    BY <2>1, <2>3 DEF ErrorInv, InPipe, IsEnv, Telling
  <2> QED BY <2>1, <2>2, <2>4, ErrorEnds
<1>15. CASE HearsOfExit
  <2>0. said' = said /\ pipe' = pipe
    BY <1>15 DEF HearsOfExit
  <2>1. CASE intr # NoExec \/ session = "quarantined"
    BY <1>p, <1>15, <2>0, <2>1 DEF HearsOfExit
  <2>2. CASE ~(intr # NoExec \/ session = "quarantined") /\ active = NoExec
    BY <1>15, <2>0, <2>2 DEF HearsOfExit, Unset, ErrorInv, SaidError
  <2>3. CASE ~(intr # NoExec \/ session = "quarantined") /\ active # NoExec
    <3>1. PICK ms : ms = Append(record[active].messages, Told("runtime exited"))
      OBVIOUS
    <3>2. record' = [record EXCEPT ![active] = [status |-> "error", messages |-> ms]] /\ active' = NoExec
      BY <1>15, <2>3, <3>1 DEF HearsOfExit, Unset
    <3>3. record'[active].status = "error" /\ \A d \in Cells \ {active} : record'[d] = record[d]
      BY <1>t, <1>r, <2>3, <3>2, RecordTyped
    <3> QED BY <2>0, <2>3, <3>2, <3>3, ErrorOver
  <2> QED BY <2>1, <2>2, <2>3
<1>16. CASE Interrupt
  <2>1. /\ active' = active /\ lines' = lines /\ record' = record /\ pipe' = pipe /\ said' = said /\ active # NoExec
        /\ capture'.status = "interrupted"
    BY <1>16 DEF Interrupt, Types, CaptureType
  <2> QED BY <1>e, <1>r, <2>1, ErrorQuiet
<1>17. CASE Finalized /\ active # NoExec /\ said' = said
  <2>1. record'[active].status = "interrupted" /\ \A d \in Cells \ {active} : record'[d] = record[d]
    BY <1>t, <1>r, <1>17, StatusTyped DEF Finalized
  <2> QED BY <1>17, <2>1, ErrorOver DEF Finalized, Unset
<1>18. CASE SoftInterrupt \/ RecycleInterrupt
  BY <1>17, <1>18 DEF SoftInterrupt, RecycleInterrupt
<1>19. CASE LateInterrupt
  BY <1>p, <1>19 DEF LateInterrupt
<1>20. CASE ResetsHost
  <2>1. CASE active # NoExec /\ Finalized
    BY <1>17, <1>20, <2>1 DEF ResetsHost
  <2>2. CASE active = NoExec /\ UNCHANGED <<active, held, lines, capture, record, ended>>
    <3>1. active' = active /\ active = NoExec /\ said' = said /\ record' = record
      BY <1>20, <2>2 DEF ResetsHost
    <3> QED BY <3>1 DEF ErrorInv, SaidError
  <2> QED BY <1>20, <2>1, <2>2 DEF ResetsHost
<1>21. CASE Save
  BY <1>p, <1>21 DEF Save
<1>22. CASE RunsOn
  BY <1>p, <1>22 DEF RunsOn
<1> QED BY <1>0, <1>1, <1>2, <1>3, <1>4, <1>5, <1>6, <1>7, <1>8, <1>9, <1>10, <1>11, <1>12,
           <1>13, <1>14, <1>15, <1>16, <1>18, <1>19, <1>20, <1>21, <1>22 DEF ProtocolNext

\* The committed checkpoint is what the cell it came of left, and that of the last exec
\* told to be ok or of a later one.
THEOREM StoreIsLeft == ProtocolSpec => []StoreIsWhatWasLeft
<1> DEFINE Whole == ProtocolInv /\ Places /\ ErrorInv
<1>1. ProtocolAssumption
  BY ProtocolAssumption
<1>2. ProtocolAssumption /\ ProtocolInit => Whole
  BY InvInit, PlacesInit, ErrorInit
<1>3. ProtocolAssumption /\ Types /\ Types' /\ Whole /\ [ProtocolNext]_protocolVars => Whole'
  BY InvNext, PlacesNext, ErrorNext DEF ProtocolInv
<1>4. Whole => StoreIsWhatWasLeft
  BY <1>1, ExecsAre DEF ProtocolInv, CommittedInv, ErrorInv, SaidError, StoreIsWhatWasLeft
<1> HIDE DEF Whole
<1> QED BY <1>1, <1>2, <1>3, <1>4, TypesInit, TypesNext, PTL DEF ProtocolSpec

-----------------------------------------------------------------------------
(* How an exec that ended of itself is seen to have.                       *)

Tails == {<<>>, <<Prompt>>}

\* What follows an atom.
LEMMA TailIs ==
  \A s \in Seq(Atoms) : \A i \in 1..Len(s) :
     /\ SubSeq(s, i + 1, Len(s)) = <<>> <=> i = Len(s)
     /\ SubSeq(s, i + 1, Len(s)) = <<Prompt>> <=> Len(s) = i + 1 /\ s[i + 1] = Prompt
<1> SUFFICES ASSUME NEW s \in Seq(Atoms), NEW i \in 1..Len(s)
             PROVE  /\ SubSeq(s, i + 1, Len(s)) = <<>> <=> i = Len(s)
                    /\ SubSeq(s, i + 1, Len(s)) = <<Prompt>> <=> Len(s) = i + 1 /\ s[i + 1] = Prompt
  OBVIOUS
<1> DEFINE t == SubSeq(s, i + 1, Len(s))
<1>1. /\ t \in Seq(Atoms) /\ Len(t) = Len(s) - i /\ \A k \in 1..(Len(s) - i) : t[k] = s[k + i]
      /\ Len(s) \in Nat /\ i \in Nat /\ i <= Len(s)
  OBVIOUS
<1>2. Len(<<Prompt>>) = 1 /\ <<Prompt>>[1] = Prompt /\ Len(<<>>) = 0 /\ <<Prompt>> \in Seq(Atoms)
  BY AtomsTyped
<1> HIDE DEF t
<1>3. t = <<>> <=> Len(t) = 0
  BY <1>1
<1>4. t = <<>> <=> i = Len(s)
  BY <1>1, <1>3
<1>5. t = <<Prompt>> => Len(s) = i + 1 /\ s[i + 1] = Prompt
  <2> SUFFICES ASSUME t = <<Prompt>> PROVE Len(s) = i + 1 /\ s[i + 1] = Prompt
    OBVIOUS
  <2>1. Len(t) = 1 /\ t[1] = Prompt
    BY <1>2
  <2>2. Len(s) - i = 1 /\ 1 \in 1..(Len(s) - i)
    BY <1>1, <2>1
  <2>3. t[1] = s[1 + i]
    BY <1>1, <2>2
  <2> QED BY <1>1, <2>1, <2>2, <2>3
<1>6. Len(s) = i + 1 /\ s[i + 1] = Prompt => t = <<Prompt>>
  <2> SUFFICES ASSUME Len(s) = i + 1, s[i + 1] = Prompt PROVE t = <<Prompt>>
    OBVIOUS
  <2>1. Len(t) = 1 /\ t[1] = Prompt
    BY <1>1
  <2>2. t = <<t[1]>>
    BY <1>1, <2>1
  <2> QED BY <2>1, <2>2
<1> QED BY <1>4, <1>5, <1>6 DEF t

LEMMA OneIs == \A s \in Seq(Atoms) : \A x : (s = <<x>> <=> Len(s) = 1 /\ s[1] = x)
<1> SUFFICES ASSUME NEW s \in Seq(Atoms), NEW x PROVE s = <<x>> <=> Len(s) = 1 /\ s[1] = x
  OBVIOUS
<1>1. s = <<x>> => Len(s) = 1 /\ s[1] = x
  OBVIOUS
<1>2. Len(s) = 1 => s = <<s[1]>>
  OBVIOUS
<1> QED BY <1>1, <1>2

\* A chunk that does not show the exec done leaves what will.
LEMMA ChunkEndsIn ==
  ASSUME ProtocolAssumption, Types, Turned, Places, active # NoExec, ~held, NEW n \in 1..Len(pipe),
         pipe' = SubSeq(pipe, n + 1, Len(pipe)), NEW p, p = Pushed(SubSeq(pipe, 1, n)), p \in LinesType,
         lines' = [p EXCEPT !.found = <<>>], active' = active, ~IsDone(p), NEW tail \in Tails, EndsIn(tail)
  PROVE  /\ \/ lines'.done /\ lines'.line \o pipe' = tail
            \/ \E i \in DOMAIN pipe' : /\ IsEnv(pipe'[i], {"done"}) /\ Before(i)' = Open(active')
                                       /\ SubSeq(pipe', i + 1, Len(pipe')) = tail
<1>t. /\ pipe \in Seq(Atoms) /\ lines \in LinesType /\ Len(pipe) \in Nat /\ DOMAIN pipe = 1..Len(pipe)
      /\ lines.line \in Seq(Atoms)
  BY DEF Types, LinesType
<1>p. lines'.done = p.done /\ lines'.line = p.line
  BY DEF LinesType
<1>d. /\ Len(pipe') = Len(pipe) - n /\ DOMAIN pipe' = 1..(Len(pipe) - n)
      /\ \A k \in DOMAIN pipe' : k + n \in DOMAIN pipe /\ pipe'[k] = pipe[k + n]
  BY <1>t, DropIs
<1>l. Len(<<>>) = 0 /\ Len(<<Prompt>>) = 1 /\ <<Prompt>>[1] = Prompt
  OBVIOUS
<1>1. CASE lines.done /\ lines.line \o pipe = tail
  <2>1. Len(tail) = Len(lines.line) + Len(pipe) /\ Len(lines.line) \in Nat
    BY <1>t, <1>1
  <2>0. n \in Nat /\ n >= 1 /\ n <= Len(pipe)
    BY <1>t
  <2>9. Len(tail) >= 1
    BY <1>t, <2>0, <2>1
  <2>a. tail = <<Prompt>>
    BY <1>l, <2>9 DEF Tails
  <2>b. Len(tail) = 1
    BY <1>l, <2>a
  <2>2. tail = <<Prompt>> /\ Len(lines.line) = 0 /\ Len(pipe) = 1 /\ n = 1
    BY <1>t, <2>0, <2>1, <2>a, <2>b
  <2>3. lines.line = <<>>
    BY <1>t, <2>2
  <2>4. pipe[1] = Prompt
    <3>1. (lines.line \o pipe)[1] = pipe[1]
      BY <1>t, <2>2, <2>3
    <3> QED BY <1>1, <1>l, <2>2, <3>1
  <2>5. p.line = <<Prompt>>
    BY <1>t, <2>2, <2>3, <2>4, LineIs
  <2>6. p.done
    BY <1>t, <1>1, PushedIs
  <2> QED BY <2>5, <2>6 DEF IsDone
<1>2. ASSUME NEW i \in DOMAIN pipe, IsEnv(pipe[i], {"done"}), Before(i) = Open(active),
             SubSeq(pipe, i + 1, Len(pipe)) = tail
      PROVE  \/ lines'.done /\ lines'.line \o pipe' = tail
             \/ \E k \in DOMAIN pipe' : /\ IsEnv(pipe'[k], {"done"}) /\ Before(k)' = Open(active')
                                        /\ SubSeq(pipe', k + 1, Len(pipe')) = tail
  <2>1. pipe[i].a = "close" /\ pipe[i].env.kind = "done" /\ i \in Nat /\ i >= 1 /\ i <= Len(pipe)
    BY <1>t, <1>2 DEF IsEnv
  <2>2. i <= n => p.done
    <3>1. \A k \in 1..n : pipe[k].a = "close" /\ Before(k) = Open(active) =>
              IF pipe[k].env.kind = "done" THEN p.done
              ELSE \E q \in DOMAIN p.found : p.found[q] = pipe[k].env
      BY <1>t, HeardIs DEF Places
    <3> QED BY <1>2, <2>1, <3>1
  <2>3. CASE i > n
    <3>1. PICK k \in Nat : k = i - n
      BY <2>1, <2>3
    <3>2. lines' = [Pushed(SubSeq(pipe, 1, n)) EXCEPT !.found = <<>>]
      OBVIOUS
    <3>3. i - n \in DOMAIN pipe' /\ pipe'[i - n] = pipe[i] /\ Before(i - n)' = Open(active)
      BY ONLY ProtocolAssumption, <1>t, <1>2, <2>3, <3>2, n \in 1..Len(pipe), pipe' = SubSeq(pipe, n + 1, Len(pipe)), BeforeLeft
    <3>4. k \in DOMAIN pipe' /\ pipe'[k] = pipe[i] /\ Before(k)' = Open(active')
      BY <3>1, <3>3
    <3>a. /\ SubSeq(pipe, i + 1, Len(pipe)) = <<>> <=> i = Len(pipe)
          /\ SubSeq(pipe, i + 1, Len(pipe)) = <<Prompt>> <=> Len(pipe) = i + 1 /\ pipe[i + 1] = Prompt
      BY <1>t, TailIs, Zenon
    <3>f. n \in Nat /\ n >= 1
      BY <1>t
    <3>g. pipe' \in Seq(Atoms)
      BY <1>t, <3>f
    <3>h. k >= 1 /\ k <= Len(pipe) - n
      BY <1>t, <2>1, <2>3, <3>1, <3>f
    <3>i. k \in 1..Len(pipe')
      BY <1>t, <1>d, <3>f, <3>h, SMTT(20)
    <3>b. pipe' \in Seq(Atoms) /\ k \in 1..Len(pipe')
      BY <3>g, <3>i
    <3>c. /\ SubSeq(pipe', k + 1, Len(pipe')) = <<>> <=> k = Len(pipe')
          /\ SubSeq(pipe', k + 1, Len(pipe')) = <<Prompt>> <=> Len(pipe') = k + 1 /\ pipe'[k + 1] = Prompt
      BY <3>b, TailIs, Zenon
    <3>d. i = Len(pipe) => k = Len(pipe')
      BY <1>t, <1>d, <2>1, <3>1
    <3>e. Len(pipe) = i + 1 /\ pipe[i + 1] = Prompt => Len(pipe') = k + 1 /\ pipe'[k + 1] = Prompt
      <4> SUFFICES ASSUME Len(pipe) = i + 1, pipe[i + 1] = Prompt PROVE Len(pipe') = k + 1 /\ pipe'[k + 1] = Prompt
        OBVIOUS
      <4>3. (k + 1) + n = i + 1 /\ k + 1 = Len(pipe) - n /\ k + 1 \in 1..(Len(pipe) - n)
        BY <1>t, <2>1, <3>1, <3>f, SMTT(20)
      <4>1. Len(pipe') = k + 1 /\ k + 1 \in DOMAIN pipe' /\ (k + 1) + n = i + 1
        BY <1>d, <4>3
      <4>2. pipe'[k + 1] = pipe[(k + 1) + n]
        BY <1>d, <4>1
      <4> QED BY <4>1, <4>2
    <3>5. SubSeq(pipe', k + 1, Len(pipe')) = tail
      BY <1>2, <3>a, <3>c, <3>d, <3>e DEF Tails
    <3> QED BY <1>2, <3>4, <3>5 DEF IsEnv
  <2>4. CASE i = n
    <3>1. p.line = <<>>
      BY <1>t, <2>1, <2>4, LineIs
    <3>2. pipe' = tail
      BY <1>2, <2>4
    <3>3. <<>> \o pipe' = tail
      BY <3>2 DEF Tails
    <3>4. i <= n
      BY <1>t, <2>4
    <3>5. lines'.line \o pipe' = tail
      BY <1>p, <3>1, <3>3
    <3> QED BY <1>p, <2>2, <3>4, <3>5
  <2>5. CASE i < n
    <3>0. n \in Nat /\ n <= Len(pipe)
      BY <1>t
    <3>1. /\ SubSeq(pipe, i + 1, Len(pipe)) = <<>> <=> i = Len(pipe)
          /\ SubSeq(pipe, i + 1, Len(pipe)) = <<Prompt>> <=> Len(pipe) = i + 1 /\ pipe[i + 1] = Prompt
      BY <1>t, TailIs, Zenon
    <3>a. i # Len(pipe)
      BY <1>t, <2>1, <2>5, <3>0
    <3>b. Len(pipe) = i + 1 /\ pipe[i + 1] = Prompt
      BY <1>2, <3>1, <3>a DEF Tails
    <3>2. n = i + 1
      BY <1>t, <2>1, <2>5, <3>0, <3>b
    <3>3. pipe[n] = Prompt
      BY <3>2, <3>b
    <3>4. n > 1 /\ pipe[n - 1].a = "close"
      BY <2>1, <3>2
    <3>5. p.line = <<Prompt>>
      BY <1>t, <3>3, <3>4, LineIs
    <3>6. i <= n
      BY <2>1, <3>0, <2>5
    <3> QED BY <2>2, <3>5, <3>6 DEF IsDone
  <2> QED
    <3>1. n \in Nat
      BY <1>t
    <3>2. i > n \/ i = n \/ i < n
      BY <2>1, <3>1
    <3> QED BY <2>3, <2>4, <2>5, <3>2, Zenon
<1> QED BY <1>1, <1>2 DEF EndsIn

\* The prompt comes after.
LEMMA PromptEndsIn ==
  ASSUME Types, EndsIn(<<>>), pipe' = Append(pipe, Prompt), lines' = lines, active' = active
  PROVE  EndsIn(<<Prompt>>)'
<1>t. /\ pipe \in Seq(Atoms) /\ lines.line \in Seq(Atoms) /\ Len(pipe) \in Nat /\ DOMAIN pipe = 1..Len(pipe)
  BY DEF Types, LinesType
<1>1. pipe' = pipe \o <<Prompt>> /\ <<Prompt>> \in Seq(Atoms) /\ Len(pipe') = Len(pipe) + 1
      /\ pipe'[Len(pipe) + 1] = Prompt /\ pipe' \in Seq(Atoms)
  BY <1>t, AtomsTyped
<1>2. CASE lines.done /\ lines.line \o pipe = <<>>
  <2>1. lines.line = <<>> /\ pipe = <<>>
    BY <1>t, <1>2
  <2>2. pipe' = <<Prompt>> /\ lines'.line \o pipe' = <<Prompt>>
    BY <2>1
  <2> QED BY <1>2, <2>2 DEF EndsIn
<1>3. ASSUME NEW i \in DOMAIN pipe, IsEnv(pipe[i], {"done"}), Before(i) = Open(active),
             SubSeq(pipe, i + 1, Len(pipe)) = <<>>
      PROVE  EndsIn(<<Prompt>>)'
  <2>1. i = Len(pipe)
    BY <1>t, <1>3
  <2>2. i \in DOMAIN pipe' /\ pipe'[i] = pipe[i] /\ Before(i)' = Before(i)
    BY <1>t, <1>1, BeforeKept
  <2>a. i \in 1..Len(pipe') /\ Len(pipe') = i + 1 /\ pipe'[i + 1] = Prompt
    BY <1>t, <1>1, <2>1
  <2>b. SubSeq(pipe', i + 1, Len(pipe')) = <<Prompt>> <=> Len(pipe') = i + 1 /\ pipe'[i + 1] = Prompt
    BY <1>1, <2>a, TailIs, Zenon
  <2>3. SubSeq(pipe', i + 1, Len(pipe')) = <<Prompt>>
    BY <2>a, <2>b
  <2>4. Before(i)' = Open(active')
    BY <1>3, <2>2
  <2>5. \E k \in DOMAIN pipe' : /\ IsEnv(pipe'[k], {"done"}) /\ Before(k)' = Open(active')
                                /\ SubSeq(pipe', k + 1, Len(pipe')) = <<Prompt>>
    BY <1>3, <2>2, <2>3, <2>4
  <2> QED BY <2>5 DEF EndsIn
<1> QED BY <1>2, <1>3 DEF EndsIn

\* The host says that the exec is done.
LEMMA DoneEndsIn ==
  ASSUME Types, active \in Cells, pipe' = pipe \o Envelope(active, Env("done", NoExec)), active' = active
  PROVE  EndsIn(<<>>)'
<1> DEFINE w == Envelope(active, Env("done", NoExec))
<1>t. pipe \in Seq(Atoms) /\ Len(pipe) \in Nat
  BY DEF Types
<1>1. /\ w \in Seq(Atoms) /\ Len(w) = 2 /\ DOMAIN w = 1..2 /\ w[1] = Open(active)
      /\ \A kinds : \A i \in DOMAIN w : IsEnv(w[i], kinds) <=> i = 2 /\ Env("done", NoExec).kind \in kinds
  BY EnvTyped, EnvelopeTyped, EnvelopeTells
<1>2. Env("done", NoExec).kind = "done"
  BY DEF Env
<1>3. pipe' = pipe \o w
  OBVIOUS
<1> HIDE DEF w
<1>a. /\ Len(pipe') = Len(pipe) + Len(w) /\ DOMAIN pipe' = 1..(Len(pipe) + Len(w))
      /\ \A i \in DOMAIN pipe' : i \in DOMAIN pipe
              \/ (i > Len(pipe) /\ i - Len(pipe) \in DOMAIN w /\ pipe'[i] = w[i - Len(pipe)])
      /\ DOMAIN pipe = 1..Len(pipe)
  BY <1>t, <1>1, <1>3, AppendIs
<1>4. /\ Len(pipe') = Len(pipe) + 2 /\ DOMAIN pipe' = 1..(Len(pipe) + 2) /\ pipe' \in Seq(Atoms)
      /\ pipe'[Len(pipe) + 1] = w[1] /\ pipe'[Len(pipe) + 2] = w[2]
  <2>1. Len(pipe') = Len(pipe) + 2 /\ DOMAIN pipe' = 1..(Len(pipe) + 2)
    BY <1>t, <1>1, <1>a
  <2>2. pipe' \in Seq(Atoms)
    <3>1. pipe \in Seq(Atoms) /\ w \in Seq(Atoms)
      BY <1>t, <1>1
    <3> QED BY ONLY <1>3, <3>1
  <2>3. pipe'[Len(pipe) + 1] = w[(Len(pipe) + 1) - Len(pipe)] /\ pipe'[Len(pipe) + 2] = w[(Len(pipe) + 2) - Len(pipe)]
    BY <1>t, <1>a, <2>1
  <2> QED BY <1>t, <2>1, <2>2, <2>3
<1>5. PICK i \in Nat : i = Len(pipe) + 2
  BY <1>t
<1>6. i \in DOMAIN pipe' /\ IsEnv(pipe'[i], {"done"})
  BY <1>t, <1>1, <1>2, <1>4, <1>5
<1>7. i > 1 /\ pipe'[i - 1] = Open(active)
  BY <1>t, <1>1, <1>4, <1>5
<1>8. Before(i)' = Open(active')
  BY <1>7 DEF Before
<1>9. SubSeq(pipe', i + 1, Len(pipe')) = <<>>
  BY <1>t, <1>4, <1>5
<1> QED BY <1>6, <1>8, <1>9 DEF EndsIn

\* Where an exec whose host was left alone is done, it is seen.
Shown == IsDone(lines) => held
DoneComes ==
  active # NoExec /\ spent.writes = 0 /\ intr # active /\ ~held =>
     /\ host.at = "prompt" /\ host.exec # NoExec => EndsIn(<<>>)
     /\ host.at = "idle" /\ stdin = NoExec => EndsIn(<<Prompt>>)

LEMMA WholeInit == ProtocolAssumption /\ ProtocolInit => Shown /\ DoneComes
<1> SUFFICES ASSUME ProtocolInit PROVE Shown /\ DoneComes
  OBVIOUS
<1>1. lines = NoLines /\ active = NoExec
  BY DEF ProtocolInit
<1> QED BY <1>1 DEF Shown, DoneComes, NoLines, IsDone

LEMMA ShownNext == ProtocolAssumption /\ Types /\ Shown /\ [ProtocolNext]_protocolVars => Shown'
<1> SUFFICES ASSUME ProtocolAssumption, Types, Shown, [ProtocolNext]_protocolVars PROVE Shown'
  OBVIOUS
<1>n. lines' = NoLines => Shown'
  BY DEF Shown, IsDone, NoLines
<1>k. UNCHANGED <<lines, held>> => Shown'
  BY DEF Shown, IsDone
<1>u. Untouched => Shown'
  BY <1>k DEF Untouched
<1>0. CASE UNCHANGED protocolVars
  BY <1>k, <1>0 DEF protocolVars
<1>1. CASE HostReads \/ Prints \/ CellEnds \/ CellFails \/ TellsCheckpoint
           \/ CheckpointFails \/ SaysDone \/ Prompts \/ TakesSignal \/ HostDies \/ LeftoverWrites
  BY <1>u, <1>1 DEF HostReads, Prints, CellEnds, CellFails, TellsCheckpoint, CheckpointFails, SaysDone,
                    Prompts, TakesSignal, HostDies, LeftoverWrites
<1>2. CASE \E e \in Cells : Start(e)
  BY <1>n, <1>2 DEF Start
<1>3. CASE ReadsChunk
  <2>1. PICK n \in 1..Len(pipe) : ReadsUpTo(n)
    BY <1>3, ReadsIs
  <2>2. CASE UNCHANGED <<lines, held>> \/ lines' = NoLines
    BY <1>n, <1>k, <2>2
  <2>3. CASE ~(UNCHANGED <<lines, held>> \/ lines' = NoLines)
    <3>1. PICK p : p \in LinesType /\ lines' = [p EXCEPT !.found = <<>>] /\ held' = IsDone(p)
      BY <2>1, <2>3 DEF ReadsUpTo, EndsExec, Unset
    <3>2. lines'.prompted = p.prompted /\ lines'.done = p.done /\ lines'.line = p.line
      BY <3>1 DEF LinesType
    <3> QED BY <3>1, <3>2 DEF Shown, IsDone
  <2> QED BY <2>2, <2>3
<1>4. CASE EndsHeld \/ SoftInterrupt \/ RecycleInterrupt
  BY <1>n, <1>4 DEF EndsHeld, EndsExec, SoftInterrupt, RecycleInterrupt, Finalized, Unset
<1>5. CASE HearsOfExit
  BY <1>n, <1>k, <1>5 DEF HearsOfExit, Unset
<1>6. CASE Interrupt \/ LateInterrupt \/ Save \/ RunsOn
  BY <1>k, <1>6 DEF Interrupt, LateInterrupt, Save, RunsOn
<1>7. CASE ResetsHost
  BY <1>n, <1>k, <1>7 DEF ResetsHost, Finalized, Unset
<1> QED BY <1>0, <1>1, <1>2, <1>3, <1>4, <1>5, <1>6, <1>7 DEF ProtocolNext

LEMMA DoneComesNext ==
  ProtocolAssumption /\ Types /\ Types' /\ Turned /\ Turned' /\ IntrInv /\ Places /\ DoneComes /\ [ProtocolNext]_protocolVars
    => DoneComes'
<1> SUFFICES ASSUME ProtocolAssumption, Types, Types', Turned, Turned', IntrInv, Places, DoneComes, [ProtocolNext]_protocolVars
             PROVE  DoneComes'
  OBVIOUS
<1>t. /\ pipe \in Seq(Atoms) /\ lines \in LinesType /\ host \in HostType
      /\ host.at \in {"cell", "ending", "done"} => host.exec \in Cells
      /\ active \in {NoExec} \cup Cells /\ (held => active # NoExec)
      /\ spent \in [interrupts : Nat, faults : Nat, saves : Nat, writes : Nat]
  BY DEF Types
<1>e. \A e \in Cells : e # NoExec
  BY ExecsAre
<1>w. Running => active # NoExec /\ host.exec = active /\ stdin = NoExec
  BY DEF Turned, Turns
<1>a. active' = NoExec => DoneComes'
  BY DEF DoneComes
<1>h. host'.at \notin {"prompt", "idle"} => DoneComes'
  BY DEF DoneComes
<1>u. Untouched => active' = active /\ lines' = lines /\ held' = held /\ intr' = intr
  BY DEF Untouched
<1>k. CASE /\ UNCHANGED <<pipe, lines, active, held, stdin, spent>> /\ host'.at = host.at /\ host'.exec = host.exec
           /\ intr' = active' \/ intr # active
  <2>1. \A i : Before(i)' = Before(i)
    BY <1>k DEF Before
  <2>2. \A tail : EndsIn(tail) =>
          \/ lines'.done /\ lines'.line \o pipe' = tail
          \/ \E i \in DOMAIN pipe' : /\ IsEnv(pipe'[i], {"done"}) /\ Before(i)' = Open(active')
                                     /\ SubSeq(pipe', i + 1, Len(pipe')) = tail
    BY <1>k, <2>1 DEF EndsIn
  <2>3. (EndsIn(<<>>) => EndsIn(<<>>)') /\ (EndsIn(<<Prompt>>) => EndsIn(<<Prompt>>)')
    BY <2>2 DEF EndsIn
  <2> QED BY <1>k, <2>3 DEF DoneComes
<1>0. CASE UNCHANGED protocolVars
  <2>1. UNCHANGED <<pipe, lines, active, held, stdin, spent, host, intr>>
    BY <1>0 DEF protocolVars
  <2>2. CASE intr = active
    BY <2>1, <2>2 DEF DoneComes
  <2> QED BY <1>k, <2>1, <2>2
<1>1. CASE HostReads
  BY <1>t, <1>h, <1>1 DEF HostReads, HostType
<1>2. CASE Prints
  <2>1. host'.at = "cell"
    BY <1>t, <1>2 DEF Prints, HostType
  <2> QED BY <1>h, <2>1
<1>3. CASE CellEnds \/ CellFails \/ TellsCheckpoint \/ CheckpointFails
  <2>1. host'.at \in {"ending", "done"}
    BY <1>t, <1>3 DEF CellEnds, CellFails, TellsCheckpoint, CheckpointFails, HostType
  <2> QED BY <1>h, <2>1
<1>4. CASE SaysDone
  <2>1. host.at = "done" /\ host.exec = active /\ active \in Cells
    BY <1>t, <1>w, <1>4 DEF SaysDone, Running
  <2>2. pipe' = pipe \o Envelope(active, Env("done", NoExec)) /\ active' = active
    BY <1>4, <1>u, <2>1 DEF SaysDone, Writes
  <2>3. EndsIn(<<>>)'
    BY <2>1, <2>2, DoneEndsIn
  <2>4. host'.at = "prompt"
    BY <1>t, <1>4 DEF SaysDone, HostType
  <2> QED BY <2>3, <2>4 DEF DoneComes
<1>5. CASE Prompts
  <2>1. /\ host.at = "prompt" /\ pipe' = Append(pipe, Prompt) /\ stdin' = stdin /\ spent' = spent
        /\ active' = active /\ lines' = lines /\ held' = held /\ intr' = intr /\ host'.at = "idle"
    BY <1>5, <1>u DEF Prompts, Fresh
  <2>2. CASE host.exec = NoExec
    BY <2>1, <2>2 DEF IntrInv, DoneComes
  <2>3. CASE host.exec # NoExec
    <3>1. EndsIn(<<>>) => EndsIn(<<Prompt>>)'
      BY <2>1, PromptEndsIn
    <3> QED BY <2>1, <2>3, <3>1 DEF DoneComes
  <2> QED BY <2>2, <2>3
<1>6. CASE TakesSignal
  <2>1. /\ active' = active /\ intr' = intr /\ host.signalled
    BY <1>6, <1>u DEF TakesSignal
  <2>2. CASE host'.at \notin {"prompt", "idle"}
    BY <1>h, <2>2
  <2>3. CASE host'.at \in {"prompt", "idle"}
    <3>1. host.at \in {"cell", "idle"} /\ host' = [host EXCEPT !.at = "prompt", !.signalled = FALSE]
      BY <1>t, <1>6, <2>3, DeadTyped DEF TakesSignal, HostType
    <3>2. host'.at = "prompt" /\ host'.exec = host.exec
      BY <1>t, <3>1 DEF HostType
    <3>3. CASE host.at = "idle"
      <4>1. host.exec = NoExec
        BY <3>3 DEF Turned, Turns
      <4> QED BY <3>2, <4>1 DEF DoneComes
    <3>4. CASE host.at = "cell"
      <4>1. active # NoExec /\ stdin = NoExec
        BY <1>w, <3>4 DEF Running
      <4>2. intr = active
        BY <2>1, <4>1 DEF IntrInv
      <4> QED BY <2>1, <4>2 DEF DoneComes
    <3> QED BY <3>1, <3>3, <3>4
  <2> QED BY <2>2, <2>3
<1>7. CASE HostDies
  BY <1>t, <1>h, <1>7, DeadTyped DEF HostDies
<1>8. CASE LeftoverWrites
  <2>1. spent'.writes = spent.writes + 1
    BY <1>t, <1>8 DEF LeftoverWrites, Trouble
  <2>2. spent'.writes # 0
    BY <1>t, <2>1
  <2> QED BY <2>2 DEF DoneComes
<1>9. CASE \E e \in Cells : Start(e)
  <2>1. active = NoExec /\ host' = host /\ stdin' # NoExec
    BY <1>e, <1>9 DEF Start
  <2>2. ~Running
    BY <1>w, <2>1
  <2> QED BY <2>1, <2>2 DEF DoneComes, Running
<1>10. CASE ReadsChunk
  <2>1. PICK n \in 1..Len(pipe) : ReadsUpTo(n)
    BY <1>10, ReadsIs
  <2>2. pipe' = SubSeq(pipe, n + 1, Len(pipe))
    BY <2>1 DEF ReadsUpTo
  <2>3. CASE active = NoExec \/ held \/ session = "quarantined"
    <3>1. active' = active /\ held' = held
      BY <2>1, <2>3 DEF ReadsUpTo
    <3>2. active = NoExec \/ held
      BY <2>3 DEF Turned, Turns
    <3> QED BY <3>1, <3>2 DEF DoneComes
  <2>4. CASE ~(active = NoExec \/ held \/ session = "quarantined")
    <3>1. PICK p, c :
             /\ p = Pushed(SubSeq(pipe, 1, n))
             /\ p \in LinesType
             /\ \/ IsDone(p) /\ ~saved /\ EndsExec(c, c.messages)
                \/ /\ ~(IsDone(p) /\ ~saved)
                   /\ lines' = [p EXCEPT !.found = <<>>]
                   /\ held' = IsDone(p)
                   /\ UNCHANGED <<host, stdin, active, intr, spent>>
      BY <2>1, <2>4 DEF ReadsUpTo
    <3>2. CASE active' = NoExec \/ held'
      BY <1>a, <3>2 DEF DoneComes
    <3>3. CASE ~(active' = NoExec \/ held')
      <4>1. /\ lines' = [p EXCEPT !.found = <<>>] /\ ~IsDone(p)
            /\ host' = host /\ stdin' = stdin /\ active' = active /\ intr' = intr /\ spent' = spent
        BY <3>1, <3>3 DEF EndsExec, Unset
      <4>2. \A tail \in Tails : EndsIn(tail) =>
              \/ lines'.done /\ lines'.line \o pipe' = tail
              \/ \E i \in DOMAIN pipe' : /\ IsEnv(pipe'[i], {"done"}) /\ Before(i)' = Open(active')
                                         /\ SubSeq(pipe', i + 1, Len(pipe')) = tail
        BY <2>2, <2>4, <3>1, <4>1, ChunkEndsIn
      <4>3. (EndsIn(<<>>) => EndsIn(<<>>)') /\ (EndsIn(<<Prompt>>) => EndsIn(<<Prompt>>)')
        BY <4>2 DEF EndsIn, Tails
      <4> QED BY <2>4, <4>1, <4>3 DEF DoneComes
    <3> QED BY <3>2, <3>3
  <2> QED BY <2>3, <2>4
<1>11. CASE EndsHeld \/ SoftInterrupt \/ RecycleInterrupt
  BY <1>a, <1>11 DEF EndsHeld, EndsExec, SoftInterrupt, RecycleInterrupt, Finalized, Unset
<1>12. CASE HearsOfExit
  BY <1>t, <1>h, <1>12 DEF HearsOfExit, HostType
<1>13. CASE Interrupt
  BY <1>13 DEF Interrupt, DoneComes
<1>14. CASE LateInterrupt
  BY <1>k, <1>14 DEF LateInterrupt
<1>15. CASE ResetsHost
  BY <1>a, <1>15 DEF ResetsHost, Finalized, Unset
<1>16. CASE Save \/ RunsOn
  <2>1. UNCHANGED <<pipe, lines, active, held, stdin, host, intr>> /\ (spent' = spent \/ Trouble("saves"))
    BY <1>16 DEF Save, RunsOn
  <2>2. spent'.writes = spent.writes
    BY <1>t, <2>1 DEF Trouble
  <2>3. \A i : Before(i)' = Before(i)
    BY <2>1 DEF Before
  <2>4. \A tail : EndsIn(tail) =>
          \/ lines'.done /\ lines'.line \o pipe' = tail
          \/ \E i \in DOMAIN pipe' : /\ IsEnv(pipe'[i], {"done"}) /\ Before(i)' = Open(active')
                                     /\ SubSeq(pipe', i + 1, Len(pipe')) = tail
    BY <2>1, <2>3 DEF EndsIn
  <2>5. (EndsIn(<<>>) => EndsIn(<<>>)') /\ (EndsIn(<<Prompt>>) => EndsIn(<<Prompt>>)')
    BY <2>4 DEF EndsIn
  <2> QED BY <2>1, <2>2, <2>5 DEF DoneComes
<1> QED BY <1>0, <1>1, <1>2, <1>3, <1>4, <1>5, <1>6, <1>7, <1>8, <1>9, <1>10, <1>11, <1>12,
           <1>13, <1>14, <1>15, <1>16 DEF ProtocolNext

\* An exec that started is never stranded.
THEOREM NoneStranded == ProtocolSpec => []NeverStranded
<1> DEFINE Whole == ProtocolInv /\ Places /\ Shown /\ DoneComes
<1>1. ProtocolAssumption
  BY ProtocolAssumption
<1>2. ProtocolAssumption /\ ProtocolInit => Whole
  BY InvInit, PlacesInit, WholeInit
<1>3. ProtocolAssumption /\ Types /\ Types' /\ Whole /\ [ProtocolNext]_protocolVars => Whole'
  BY InvNext, PlacesNext, ShownNext, DoneComesNext DEF ProtocolInv
<1>4. Types /\ Whole => NeverStranded
  <2> SUFFICES ASSUME Types, Turned, Shown, DoneComes,
                      active # NoExec, pipe = <<>>, intr = NoExec, ~held,
                      (host.at = "idle" /\ stdin = NoExec) \/ (host.at = "dead" /\ host.told)
               PROVE  Unheard \/ spent.writes > 0
    BY DEF ProtocolInv, NeverStranded
  <2>1. session = "live" /\ spent.writes \in Nat /\ DOMAIN pipe = {} /\ lines.line \in Seq(Atoms)
    BY DEF Turned, Turns, Types, LinesType
  <2>2. CASE host.at = "dead" /\ host.told
    BY <2>1, <2>2 DEF Unheard
  <2>3. CASE host.at = "idle" /\ stdin = NoExec
    <3> SUFFICES ASSUME spent.writes = 0 PROVE FALSE
      BY <2>1
    <3>1. EndsIn(<<Prompt>>)
      BY <2>3 DEF DoneComes
    <3>2. lines.done /\ lines.line \o <<>> = <<Prompt>>
      BY <2>1, <3>1 DEF EndsIn
    <3>3. lines.line = <<Prompt>>
      BY <2>1, <3>2
    <3> QED BY <3>2, <3>3 DEF Shown, IsDone
  <2> QED BY <2>2, <2>3
<1> HIDE DEF Whole
<1> QED BY <1>1, <1>2, <1>3, <1>4, TypesInit, TypesNext, PTL DEF ProtocolSpec

===============================================================================
