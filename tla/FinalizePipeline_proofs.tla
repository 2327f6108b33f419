------------------------ MODULE FinalizePipeline_proofs ------------------------
(***************************************************************************)
(* Safety of FinalizePipeline for any number of workers, segments,         *)
(* attempts and mishaps.                                                   *)
(***************************************************************************)
EXTENDS FinalizePipeline, TLAPS

USE DEF rowVars, fileVars, jobVars, runVars, envVars

-----------------------------------------------------------------------------
(* Type correctness needs to know when the job may still be attempted. *)

Running == {"loop", "convert", "probe", "spoil", "spoilTool"}

\* The lock is held while the job is active; a job in flight has an attempt
\* left; a run in the loop is at a segment.
JobInv ==
    /\ owner # NoWorker => job = "active"
    /\ job \in InFlight => made < Attempts
    /\ \A w \in Workers : pc[w] \in Running => at[w] \in Segs

Shape == TypeOK /\ JobInv

LEMMA ShapeInit == Init => Shape
<1> SUFFICES ASSUME Init PROVE Shape
  OBVIOUS
<1> USE WorkersAssumption, BoundsAssumption
<1>1. known \in [Workers -> SUBSET Segs]
  BY DEF Init
<1>2. cleaned \in BOOLEAN /\ purged \in BOOLEAN /\ old \in BOOLEAN /\ requeued \in BOOLEAN
  BY Zenon DEF Init
<1>3. again \in [Workers -> BOOLEAN]
  BY Zenon DEF Init
<1> QED
  BY <1>1, <1>2, <1>3 DEF Init, Shape, TypeOK, JobInv, Runs, Tasks, Spoils, Running, Helpers, Segs, InFlight

LEMMA ShapeNext == Shape /\ [Next]_vars => Shape'
<1> SUFFICES ASSUME Shape, [Next]_vars PROVE Shape'
  OBVIOUS
<1> USE WorkersAssumption, BoundsAssumption DEF Shape, TypeOK, JobInv, Runs, Tasks, Spoils, Running, Segs, InFlight
<1>1. ASSUME NEW w \in Workers, Take(w) PROVE Shape'
  BY <1>1 DEF Take, Goto, At
<1>2. ASSUME NEW w \in Workers, LoadSegments(w) PROVE Shape'
  BY <1>2 DEF LoadSegments, Goto, At
<1>3. ASSUME NEW w \in Workers, LoadNothing(w) PROVE Shape'
  BY <1>3 DEF LoadNothing, Goto, At
<1>4. ASSUME NEW w \in Workers, SkipReady(w) PROVE Shape'
  BY <1>4 DEF SkipReady, Advance, Goto, At
<1>5. ASSUME NEW w \in Workers, StartConversion(w) PROVE Shape'
  BY <1>5 DEF StartConversion, Goto, At, Writers
<1>6. ASSUME NEW w \in Workers, RawUnusable(w) PROVE Shape'
  BY <1>6 DEF RawUnusable, Goto, At
<1>7. ASSUME NEW w \in Workers, Rename(w) PROVE Shape'
  BY <1>7 DEF Rename, Goto, At, Writers
<1>8. ASSUME NEW w \in Workers, ConvertFails(w) PROVE Shape'
  BY <1>8 DEF ConvertFails, Goto, At, Writers, Spoils
<1>9. ASSUME NEW w \in Workers, SaveReady(w) PROVE Shape'
  BY <1>9 DEF SaveReady, Advance, Goto, At
<1>10. ASSUME NEW w \in Workers, SaveFailed(w) PROVE Shape'
  BY <1>10 DEF SaveFailed, Advance, Goto, At, Spoils
<1>11. ASSUME NEW w \in Workers, SaveThrows(w) PROVE Shape'
  BY <1>11 DEF SaveThrows, Goto, At, Spoils
<1>12. ASSUME NEW w \in Workers, Settle(w) PROVE Shape'
  BY <1>12 DEF Settle, Goto, At
<1>13. ASSUME NEW w \in Workers, Return(w) PROVE Shape'
  BY <1>13 DEF Return, Leave, Goto, At
<1>14. ASSUME NEW w \in Workers, ThrowRetried(w) PROVE Shape'
  BY <1>14 DEF ThrowRetried, Leave, Goto, At, IsFinal
<1>15. ASSUME NEW w \in Workers, ThrowFinal(w) PROVE Shape'
  BY <1>15 DEF ThrowFinal, Leave, Goto, At
<1>16. ASSUME NEW w \in Workers, ThrowUnheard(w) PROVE Shape'
  BY <1>16 DEF ThrowUnheard, Leave, Goto, At
<1>17. ASSUME NEW w \in Workers, Mark(w) PROVE Shape'
  BY <1>17 DEF Mark, Leave, Goto, At, MarkFailed
<1>18. ASSUME NEW w \in Workers, MarkThrows(w) PROVE Shape'
  BY <1>18 DEF MarkThrows, Leave, Goto, At, Fault, MishapLeft
<1>19. ASSUME NEW w \in Workers, Crash(w) PROVE Shape'
  BY <1>19 DEF Crash, Leave, Goto, At, Fault, MishapLeft
<1>20. ASSUME NEW w \in Workers, Stall(w) PROVE Shape'
  BY <1>20 DEF Stall, At, MishapLeft
<1>21. CASE ToolStart
  <2>1. act' \in [Helpers -> Tasks]
    BY <1>21 DEF ToolStart, Then, Doing, Helpers
  <2> QED
    BY <1>21, <2>1 DEF ToolStart, Doing, MishapLeft
<1>22. CASE ToolReset
  <2>1. act' \in [Helpers -> Tasks]
    BY <1>22 DEF ToolReset, Then, Doing, Helpers
  <2>2. CASE row = "gone"
    BY <1>22, <2>1, <2>2 DEF ToolReset, Doing
  <2>3. CASE row /= "gone"
    BY <1>22, <2>1, <2>3 DEF ToolReset, Doing
  <2> QED
    BY <2>2, <2>3
<1>23. CASE Age
  BY <1>23 DEF Age, Doing, Then
<1>24. CASE RecoverFind
  BY <1>24 DEF RecoverFind, Doing, Then
<1>25. CASE RecoverLook
  <2>1. act' \in [Helpers -> Tasks]
    BY <1>25 DEF RecoverLook, Then, Doing, Helpers
  <2> QED
    BY <1>25, <2>1 DEF RecoverLook, Doing
<1>26. CASE RecoverMark
  <2>1. act' \in [Helpers -> Tasks]
    BY <1>26 DEF RecoverMark, Then, Doing, Helpers
  <2>2. CASE row = "PROCESSING"
    BY <1>26, <2>1, <2>2 DEF RecoverMark, Doing, MarkFailed
  <2>3. CASE row /= "PROCESSING"
    BY <1>26, <2>1, <2>3 DEF RecoverMark, Doing, MarkFailed
  <2> QED
    BY <2>2, <2>3
<1>27. ASSUME NEW h \in Helpers, RequeueLook(h) PROVE Shape'
  <2>1. act' \in [Helpers -> Tasks]
    BY <1>27 DEF RequeueLook, Then, Doing, Helpers
  <2> QED
    BY <1>27, <2>1 DEF RequeueLook, Doing
<1>28. ASSUME NEW h \in Helpers, RequeueRemove(h) PROVE Shape'
  <2>1. act' \in [Helpers -> Tasks]
    BY <1>28 DEF RequeueRemove, Then, Doing, Helpers
  <2>2. CASE job = "active"
    BY <1>28, <2>1, <2>2 DEF RequeueRemove, Doing
  <2>3. CASE job /= "active"
    BY <1>28, <2>1, <2>3 DEF RequeueRemove, Doing
  <2> QED
    BY <2>2, <2>3
<1>29. ASSUME NEW h \in Helpers, RequeueAdd(h) PROVE Shape'
  <2>1. act' \in [Helpers -> Tasks]
    BY <1>29 DEF RequeueAdd, Then, Doing, Helpers
  <2>2. CASE job = "none"
    BY <1>29, <2>1, <2>2 DEF RequeueAdd, Doing
  <2>3. CASE job /= "none"
    BY <1>29, <2>1, <2>3 DEF RequeueAdd, Doing
  <2> QED
    BY <2>2, <2>3
<1>30. CASE DeleteStart
  <2>1. act' \in [Helpers -> Tasks]
    BY <1>30 DEF DeleteStart, Then, Doing, Helpers
  <2> QED
    BY <1>30, <2>1 DEF DeleteStart, Doing
<1>31. CASE DeleteFiles
  <2>1. act' \in [Helpers -> Tasks]
    BY <1>31 DEF DeleteFiles, Then, Doing, Helpers
  <2> QED
    BY <1>31, <2>1 DEF DeleteFiles, Doing
<1>32. CASE DeleteRow
  BY <1>32 DEF DeleteRow, Doing, Then
<1>33. CASE CleanFind
  BY <1>33 DEF CleanFind, Doing, Then
<1>34. CASE CleanVerify
  <2>1. act' \in [Helpers -> Tasks]
    BY <1>34 DEF CleanVerify, Then, Doing, Helpers
  <2>2. target' \subseteq Segs
    BY <1>34 DEF CleanVerify
  <2>3. UNCHANGED <<rowVars, fileVars, jobVars, runVars, envVars>>
    BY <1>34 DEF CleanVerify
  <2> QED
    BY <2>1, <2>2, <2>3
<1>35. CASE CleanRaw
  <2>1. act' \in [Helpers -> Tasks]
    BY <1>35 DEF CleanRaw, Then, Doing, Helpers
  <2>2. raw' \in [Segs -> {"good", "bad", "gone"}] /\ cleaned' \in BOOLEAN /\ target' \subseteq Segs
    BY <1>35 DEF CleanRaw
  <2>3. UNCHANGED <<row, seg, why, temp, final, purged, jobVars, runVars, envVars>>
    BY <1>35 DEF CleanRaw
  <2> QED
    BY <2>1, <2>2, <2>3
<1>36. ASSUME NEW s \in Segs, TidyFind(s) PROVE Shape'
  <2>1. act' \in [Helpers -> Tasks]
    BY <1>36 DEF TidyFind, Then, Doing, Helpers
  <2>2. target' \subseteq Segs /\ UNCHANGED <<rowVars, fileVars, jobVars, runVars, envVars>>
    BY <1>36 DEF TidyFind
  <2> QED
    BY <2>1, <2>2
<1>37. CASE TidyRemove
  <2>1. act' \in [Helpers -> Tasks]
    BY <1>37 DEF TidyRemove, Then, Doing, Helpers
  <2>2. temp' \in [Segs -> {"none", "clean", "torn"}] /\ target' \subseteq Segs
    BY <1>37 DEF TidyRemove
  <2>3. fd' \in [Workers -> {"none", "temp", "final", "lost"}]
    BY <1>37 DEF TidyRemove
  <2>4. UNCHANGED <<rowVars, raw, final, purged, jobVars, pc, at, known, again, envVars>>
    BY <1>37 DEF TidyRemove
  <2> QED
    BY <2>1, <2>2, <2>3, <2>4
<1>38. ASSUME NEW h \in Helpers, HelperDies(h) PROVE Shape'
  <2>1. act' \in [Helpers -> Tasks]
    BY <1>38 DEF HelperDies, Then, Doing, Helpers
  <2>2. CASE h = "clean"
    BY <1>38, <2>1, <2>2 DEF HelperDies, Doing, Fault, MishapLeft
  <2>3. CASE h /= "clean"
    BY <1>38, <2>1, <2>3 DEF HelperDies, Doing, Fault, MishapLeft
  <2> QED
    BY <2>2, <2>3
<1>39. CASE UNCHANGED vars
  BY <1>39 DEF vars
<1> HIDE DEF Shape, TypeOK, JobInv, Runs, Tasks, Spoils, Running, Segs, InFlight
<1> QED
  BY <1>1, <1>2, <1>3, <1>4, <1>5, <1>6, <1>7, <1>8,
     <1>9, <1>10, <1>11, <1>12, <1>13, <1>14, <1>15, <1>16,
     <1>17, <1>18, <1>19, <1>20, <1>21, <1>22, <1>23, <1>24,
     <1>25, <1>26, <1>27, <1>28, <1>29, <1>30, <1>31, <1>32,
     <1>33, <1>34, <1>35, <1>36, <1>37, <1>38, <1>39
     DEF Next, WorkerStep, RunStep, RequeueStep, RecoverStep, CleanStep, Helpers

-----------------------------------------------------------------------------
(* A run that keeps its lock is the only one. *)

\* As long as no lock of a live run lapsed, whoever runs holds the lock.
Alone ==
    lapses = 0 => \A w \in Workers : pc[w] \notin {"idle", "mark"} => owner = w

\* ffmpeg has the temporary file only while it converts.
Writing == \A w \in Workers : fd[w] = "temp" => pc[w] = "convert"

LEMMA AloneNext == Shape /\ Alone /\ [Next]_vars => Alone'
<1> SUFFICES ASSUME Shape, Alone, [Next]_vars PROVE Alone'
  OBVIOUS
<1> USE WorkersAssumption DEF Shape, TypeOK, JobInv, Runs, Spoils, InFlight, Alone
<1>1. ASSUME NEW w \in Workers, Take(w) PROVE Alone'
  BY <1>1 DEF Take, Goto, At
<1>2. ASSUME NEW w \in Workers, LoadSegments(w) PROVE Alone'
  BY <1>2 DEF LoadSegments, Goto, At
<1>3. ASSUME NEW w \in Workers, LoadNothing(w) PROVE Alone'
  BY <1>3 DEF LoadNothing, Goto, At
<1>4. ASSUME NEW w \in Workers, SkipReady(w) PROVE Alone'
  BY <1>4 DEF SkipReady, Advance, Goto, At
<1>5. ASSUME NEW w \in Workers, StartConversion(w) PROVE Alone'
  BY <1>5 DEF StartConversion, Goto, At, Writers
<1>6. ASSUME NEW w \in Workers, RawUnusable(w) PROVE Alone'
  BY <1>6 DEF RawUnusable, Goto, At
<1>7. ASSUME NEW w \in Workers, Rename(w) PROVE Alone'
  BY <1>7 DEF Rename, Goto, At, Writers
<1>8. ASSUME NEW w \in Workers, ConvertFails(w) PROVE Alone'
  BY <1>8 DEF ConvertFails, Goto, At, Writers, Spoils
<1>9. ASSUME NEW w \in Workers, SaveReady(w) PROVE Alone'
  BY <1>9 DEF SaveReady, Advance, Goto, At
<1>10. ASSUME NEW w \in Workers, SaveFailed(w) PROVE Alone'
  BY <1>10 DEF SaveFailed, Advance, Goto, At, Spoils
<1>11. ASSUME NEW w \in Workers, SaveThrows(w) PROVE Alone'
  BY <1>11 DEF SaveThrows, Goto, At, Spoils
<1>12. ASSUME NEW w \in Workers, Settle(w) PROVE Alone'
  BY <1>12 DEF Settle, Goto, At
<1>13. ASSUME NEW w \in Workers, Return(w) PROVE Alone'
  BY <1>13 DEF Return, Leave, Goto, At
<1>14. ASSUME NEW w \in Workers, ThrowRetried(w) PROVE Alone'
  BY <1>14 DEF ThrowRetried, Leave, Goto, At, IsFinal
<1>15. ASSUME NEW w \in Workers, ThrowFinal(w) PROVE Alone'
  BY <1>15 DEF ThrowFinal, Leave, Goto, At
<1>16. ASSUME NEW w \in Workers, ThrowUnheard(w) PROVE Alone'
  BY <1>16 DEF ThrowUnheard, Leave, Goto, At
<1>17. ASSUME NEW w \in Workers, Mark(w) PROVE Alone'
  BY <1>17 DEF Mark, Leave, Goto, At, MarkFailed
<1>18. ASSUME NEW w \in Workers, MarkThrows(w) PROVE Alone'
  BY <1>18 DEF MarkThrows, Leave, Goto, At, Fault, MishapLeft
<1>19. ASSUME NEW w \in Workers, Crash(w) PROVE Alone'
  BY <1>19 DEF Crash, Leave, Goto, At, Fault, MishapLeft
<1>20. ASSUME NEW w \in Workers, Stall(w) PROVE Alone'
  BY <1>20 DEF Stall, At, MishapLeft
<1>21. CASE ToolStart
  BY <1>21 DEF ToolStart, Doing, Then, MishapLeft
<1>22. CASE ToolReset
  BY <1>22 DEF ToolReset, Doing, Then
<1>23. CASE Age
  BY <1>23 DEF Age, Doing, Then
<1>24. CASE RecoverFind
  BY <1>24 DEF RecoverFind, Doing, Then
<1>25. CASE RecoverLook
  BY <1>25 DEF RecoverLook, Doing, Then
<1>26. CASE RecoverMark
  BY <1>26 DEF RecoverMark, Doing, Then, MarkFailed
<1>27. ASSUME NEW h \in Helpers, RequeueLook(h) PROVE Alone'
  BY <1>27 DEF RequeueLook, Doing, Then
<1>28. ASSUME NEW h \in Helpers, RequeueRemove(h) PROVE Alone'
  BY <1>28 DEF RequeueRemove, Doing, Then
<1>29. ASSUME NEW h \in Helpers, RequeueAdd(h) PROVE Alone'
  BY <1>29 DEF RequeueAdd, Doing, Then
<1>30. CASE DeleteStart
  BY <1>30 DEF DeleteStart, Doing, Then
<1>31. CASE DeleteFiles
  BY <1>31 DEF DeleteFiles, Doing, Then
<1>32. CASE DeleteRow
  BY <1>32 DEF DeleteRow, Doing, Then
<1>33. CASE CleanFind
  BY <1>33 DEF CleanFind, Doing, Then
<1>34. CASE CleanVerify
  BY <1>34 DEF CleanVerify, Doing, Then
<1>35. CASE CleanRaw
  BY <1>35 DEF CleanRaw, Doing, Then
<1>36. ASSUME NEW s \in Segs, TidyFind(s) PROVE Alone'
  BY <1>36 DEF TidyFind, Doing, Then, Writers
<1>37. CASE TidyRemove
  BY <1>37 DEF TidyRemove, Doing, Then
<1>38. ASSUME NEW h \in Helpers, HelperDies(h) PROVE Alone'
  BY <1>38 DEF HelperDies, Doing, Then, Fault, MishapLeft
<1>39. CASE UNCHANGED vars
  BY <1>39 DEF vars
<1> QED
  BY <1>1, <1>2, <1>3, <1>4, <1>5, <1>6, <1>7, <1>8,
     <1>9, <1>10, <1>11, <1>12, <1>13, <1>14, <1>15, <1>16,
     <1>17, <1>18, <1>19, <1>20, <1>21, <1>22, <1>23, <1>24,
     <1>25, <1>26, <1>27, <1>28, <1>29, <1>30, <1>31, <1>32,
     <1>33, <1>34, <1>35, <1>36, <1>37, <1>38, <1>39
     DEF Next, WorkerStep, RunStep, RequeueStep, RecoverStep, CleanStep, Helpers

LEMMA WritingNext == Shape /\ Writing /\ [Next]_vars => Writing'
<1> SUFFICES ASSUME Shape, Writing, [Next]_vars PROVE Writing'
  OBVIOUS
<1> USE WorkersAssumption DEF Shape, TypeOK, JobInv, Runs, Spoils, InFlight, Writing
<1>1. ASSUME NEW w \in Workers, Take(w) PROVE Writing'
  BY <1>1 DEF Take, Goto, At
<1>2. ASSUME NEW w \in Workers, LoadSegments(w) PROVE Writing'
  BY <1>2 DEF LoadSegments, Goto, At
<1>3. ASSUME NEW w \in Workers, LoadNothing(w) PROVE Writing'
  BY <1>3 DEF LoadNothing, Goto, At
<1>4. ASSUME NEW w \in Workers, SkipReady(w) PROVE Writing'
  BY <1>4 DEF SkipReady, Advance, Goto, At
<1>5. ASSUME NEW w \in Workers, StartConversion(w) PROVE Writing'
  BY <1>5 DEF StartConversion, Goto, At, Writers
<1>6. ASSUME NEW w \in Workers, RawUnusable(w) PROVE Writing'
  BY <1>6 DEF RawUnusable, Goto, At
<1>7. ASSUME NEW w \in Workers, Rename(w) PROVE Writing'
  BY <1>7 DEF Rename, Goto, At, Writers
<1>8. ASSUME NEW w \in Workers, ConvertFails(w) PROVE Writing'
  BY <1>8 DEF ConvertFails, Goto, At, Writers, Spoils
<1>9. ASSUME NEW w \in Workers, SaveReady(w) PROVE Writing'
  BY <1>9 DEF SaveReady, Advance, Goto, At
<1>10. ASSUME NEW w \in Workers, SaveFailed(w) PROVE Writing'
  BY <1>10 DEF SaveFailed, Advance, Goto, At, Spoils
<1>11. ASSUME NEW w \in Workers, SaveThrows(w) PROVE Writing'
  BY <1>11 DEF SaveThrows, Goto, At, Spoils
<1>12. ASSUME NEW w \in Workers, Settle(w) PROVE Writing'
  BY <1>12 DEF Settle, Goto, At
<1>13. ASSUME NEW w \in Workers, Return(w) PROVE Writing'
  BY <1>13 DEF Return, Leave, Goto, At
<1>14. ASSUME NEW w \in Workers, ThrowRetried(w) PROVE Writing'
  BY <1>14 DEF ThrowRetried, Leave, Goto, At, IsFinal
<1>15. ASSUME NEW w \in Workers, ThrowFinal(w) PROVE Writing'
  BY <1>15 DEF ThrowFinal, Leave, Goto, At
<1>16. ASSUME NEW w \in Workers, ThrowUnheard(w) PROVE Writing'
  BY <1>16 DEF ThrowUnheard, Leave, Goto, At
<1>17. ASSUME NEW w \in Workers, Mark(w) PROVE Writing'
  BY <1>17 DEF Mark, Leave, Goto, At, MarkFailed
<1>18. ASSUME NEW w \in Workers, MarkThrows(w) PROVE Writing'
  BY <1>18 DEF MarkThrows, Leave, Goto, At, Fault, MishapLeft
<1>19. ASSUME NEW w \in Workers, Crash(w) PROVE Writing'
  BY <1>19 DEF Crash, Leave, Goto, At, Fault, MishapLeft
<1>20. ASSUME NEW w \in Workers, Stall(w) PROVE Writing'
  BY <1>20 DEF Stall, At, MishapLeft
<1>21. CASE ToolStart
  BY <1>21 DEF ToolStart, Doing, Then, MishapLeft
<1>22. CASE ToolReset
  BY <1>22 DEF ToolReset, Doing, Then
<1>23. CASE Age
  BY <1>23 DEF Age, Doing, Then
<1>24. CASE RecoverFind
  BY <1>24 DEF RecoverFind, Doing, Then
<1>25. CASE RecoverLook
  BY <1>25 DEF RecoverLook, Doing, Then
<1>26. CASE RecoverMark
  BY <1>26 DEF RecoverMark, Doing, Then, MarkFailed
<1>27. ASSUME NEW h \in Helpers, RequeueLook(h) PROVE Writing'
  BY <1>27 DEF RequeueLook, Doing, Then
<1>28. ASSUME NEW h \in Helpers, RequeueRemove(h) PROVE Writing'
  BY <1>28 DEF RequeueRemove, Doing, Then
<1>29. ASSUME NEW h \in Helpers, RequeueAdd(h) PROVE Writing'
  BY <1>29 DEF RequeueAdd, Doing, Then
<1>30. CASE DeleteStart
  BY <1>30 DEF DeleteStart, Doing, Then
<1>31. CASE DeleteFiles
  BY <1>31 DEF DeleteFiles, Doing, Then
<1>32. CASE DeleteRow
  BY <1>32 DEF DeleteRow, Doing, Then
<1>33. CASE CleanFind
  BY <1>33 DEF CleanFind, Doing, Then
<1>34. CASE CleanVerify
  BY <1>34 DEF CleanVerify, Doing, Then
<1>35. CASE CleanRaw
  BY <1>35 DEF CleanRaw, Doing, Then
<1>36. ASSUME NEW s \in Segs, TidyFind(s) PROVE Writing'
  BY <1>36 DEF TidyFind, Doing, Then, Writers
<1>37. CASE TidyRemove
  BY <1>37 DEF TidyRemove, Doing, Then
<1>38. ASSUME NEW h \in Helpers, HelperDies(h) PROVE Writing'
  BY <1>38 DEF HelperDies, Doing, Then, Fault, MishapLeft
<1>39. CASE UNCHANGED vars
  BY <1>39 DEF vars
<1> QED
  BY <1>1, <1>2, <1>3, <1>4, <1>5, <1>6, <1>7, <1>8,
     <1>9, <1>10, <1>11, <1>12, <1>13, <1>14, <1>15, <1>16,
     <1>17, <1>18, <1>19, <1>20, <1>21, <1>22, <1>23, <1>24,
     <1>25, <1>26, <1>27, <1>28, <1>29, <1>30, <1>31, <1>32,
     <1>33, <1>34, <1>35, <1>36, <1>37, <1>38, <1>39
     DEF Next, WorkerStep, RunStep, RequeueStep, RecoverStep, CleanStep, Helpers

-----------------------------------------------------------------------------
(* DELETE takes the files before the row. *)

\* Once the directory is gone nothing comes back to it, and the row goes only
\* after the directory.
Swept ==
    /\ purged => \A s \in Segs : raw[s] = "gone" /\ temp[s] = "none" /\ final[s] = "none"
    /\ act["delete"] = "row" \/ row = "gone" => purged

LEMMA SweptNext == Shape /\ Swept /\ [Next]_vars => Swept'
<1> SUFFICES ASSUME Shape, Swept, [Next]_vars PROVE Swept'
  OBVIOUS
<1> USE WorkersAssumption DEF Shape, TypeOK, JobInv, Runs, Spoils, InFlight, Tasks, Swept
<1>1. ASSUME NEW w \in Workers, Take(w) PROVE Swept'
  BY <1>1 DEF Take, Goto, At
<1>2. ASSUME NEW w \in Workers, LoadSegments(w) PROVE Swept'
  BY <1>2 DEF LoadSegments, Goto, At
<1>3. ASSUME NEW w \in Workers, LoadNothing(w) PROVE Swept'
  BY <1>3 DEF LoadNothing, Goto, At
<1>4. ASSUME NEW w \in Workers, SkipReady(w) PROVE Swept'
  BY <1>4 DEF SkipReady, Advance, Goto, At
<1>5. ASSUME NEW w \in Workers, StartConversion(w) PROVE Swept'
  BY <1>5 DEF StartConversion, Goto, At, Writers
<1>6. ASSUME NEW w \in Workers, RawUnusable(w) PROVE Swept'
  BY <1>6 DEF RawUnusable, Goto, At
<1>7. ASSUME NEW w \in Workers, Rename(w) PROVE Swept'
  BY <1>7 DEF Rename, Goto, At, Writers
<1>8. ASSUME NEW w \in Workers, ConvertFails(w) PROVE Swept'
  BY <1>8 DEF ConvertFails, Goto, At, Writers, Spoils
<1>9. ASSUME NEW w \in Workers, SaveReady(w) PROVE Swept'
  BY <1>9 DEF SaveReady, Advance, Goto, At
<1>10. ASSUME NEW w \in Workers, SaveFailed(w) PROVE Swept'
  BY <1>10 DEF SaveFailed, Advance, Goto, At, Spoils
<1>11. ASSUME NEW w \in Workers, SaveThrows(w) PROVE Swept'
  BY <1>11 DEF SaveThrows, Goto, At, Spoils
<1>12. ASSUME NEW w \in Workers, Settle(w) PROVE Swept'
  BY <1>12 DEF Settle, Goto, At
<1>13. ASSUME NEW w \in Workers, Return(w) PROVE Swept'
  BY <1>13 DEF Return, Leave, Goto, At
<1>14. ASSUME NEW w \in Workers, ThrowRetried(w) PROVE Swept'
  BY <1>14 DEF ThrowRetried, Leave, Goto, At, IsFinal
<1>15. ASSUME NEW w \in Workers, ThrowFinal(w) PROVE Swept'
  BY <1>15 DEF ThrowFinal, Leave, Goto, At
<1>16. ASSUME NEW w \in Workers, ThrowUnheard(w) PROVE Swept'
  BY <1>16 DEF ThrowUnheard, Leave, Goto, At
<1>17. ASSUME NEW w \in Workers, Mark(w) PROVE Swept'
  BY <1>17 DEF Mark, Leave, Goto, At, MarkFailed
<1>18. ASSUME NEW w \in Workers, MarkThrows(w) PROVE Swept'
  BY <1>18 DEF MarkThrows, Leave, Goto, At, Fault, MishapLeft
<1>19. ASSUME NEW w \in Workers, Crash(w) PROVE Swept'
  BY <1>19 DEF Crash, Leave, Goto, At, Fault, MishapLeft
<1>20. ASSUME NEW w \in Workers, Stall(w) PROVE Swept'
  BY <1>20 DEF Stall, At, MishapLeft
<1>21. CASE ToolStart
  BY <1>21 DEF ToolStart, Doing, Then, MishapLeft
<1>22. CASE ToolReset
  <2>1. /\ act["tool"] = "reset" /\ act'["tool"] \in {"idle", "job"}
        /\ \A k \in Helpers \ {"tool"} : act'[k] = act[k]
        /\ row' \in {row, "PROCESSING"} /\ (row = "gone" => row' = row)
        /\ UNCHANGED <<fileVars, jobVars, runVars, envVars>>
    BY <1>22 DEF ToolReset, Doing, Then, Helpers
  <2> QED
    BY <2>1 DEF Helpers
<1>23. CASE Age
  BY <1>23 DEF Age, Doing, Then
<1>24. CASE RecoverFind
  BY <1>24 DEF RecoverFind, Doing, Then
<1>25. CASE RecoverLook
  BY <1>25 DEF RecoverLook, Doing, Then
<1>26. CASE RecoverMark
  BY <1>26 DEF RecoverMark, Doing, Then, MarkFailed
<1>27. ASSUME NEW h \in Helpers, RequeueLook(h) PROVE Swept'
  BY <1>27 DEF RequeueLook, Doing, Then
<1>28. ASSUME NEW h \in Helpers, RequeueRemove(h) PROVE Swept'
  <2>1. /\ act[h] = "remove" /\ act'[h] \in {"idle", "add"}
        /\ \A k \in Helpers \ {h} : act'[k] = act[k]
        /\ job' \in {job, "none"}
        /\ UNCHANGED <<rowVars, fileVars, runVars, envVars>>
    BY <1>28 DEF RequeueRemove, Doing, Then
  <2> QED
    BY <2>1 DEF Helpers
<1>29. ASSUME NEW h \in Helpers, RequeueAdd(h) PROVE Swept'
  BY <1>29 DEF RequeueAdd, Doing, Then
<1>30. CASE DeleteStart
  BY <1>30 DEF DeleteStart, Doing, Then
<1>31. CASE DeleteFiles
  BY <1>31 DEF DeleteFiles, Doing, Then
<1>32. CASE DeleteRow
  BY <1>32 DEF DeleteRow, Doing, Then
<1>33. CASE CleanFind
  BY <1>33 DEF CleanFind, Doing, Then
<1>34. CASE CleanVerify
  <2>1. /\ \A h \in Helpers \ {"clean"} : act'[h] = act[h]
        /\ UNCHANGED <<rowVars, fileVars, jobVars, runVars, envVars>>
    BY <1>34 DEF CleanVerify, Then
  <2> QED
    BY <2>1 DEF Helpers
<1>35. CASE CleanRaw
  BY <1>35 DEF CleanRaw, Doing, Then
<1>36. ASSUME NEW s \in Segs, TidyFind(s) PROVE Swept'
  BY <1>36 DEF TidyFind, Doing, Then, Writers
<1>37. CASE TidyRemove
  BY <1>37 DEF TidyRemove, Doing, Then
<1>38. ASSUME NEW h \in Helpers, HelperDies(h) PROVE Swept'
  BY <1>38 DEF HelperDies, Doing, Then, Fault, MishapLeft
<1>39. CASE UNCHANGED vars
  BY <1>39 DEF vars
<1> QED
  BY <1>1, <1>2, <1>3, <1>4, <1>5, <1>6, <1>7, <1>8,
     <1>9, <1>10, <1>11, <1>12, <1>13, <1>14, <1>15, <1>16,
     <1>17, <1>18, <1>19, <1>20, <1>21, <1>22, <1>23, <1>24,
     <1>25, <1>26, <1>27, <1>28, <1>29, <1>30, <1>31, <1>32,
     <1>33, <1>34, <1>35, <1>36, <1>37, <1>38, <1>39
     DEF Next, WorkerStep, RunStep, RequeueStep, RecoverStep, CleanStep, Helpers

-----------------------------------------------------------------------------
(* One verdict, and only after the last attempt. *)

\* Without the requeue command the row leaves PROCESSING once, with its event,
\* and DELETE works on rows that left it.
Judged ==
    tools = 0 =>
        /\ act["tool"] = "idle"
        /\ verdicts = IF row = "PROCESSING" THEN 0 ELSE 1
        /\ act["delete"] \in {"files", "row"} => row # "PROCESSING"

\* Unless a job was put back, whoever is about to mark the row FAILED, or has
\* done so, found the job over for good.
Over ==
    ~requeued =>
        /\ row = "FAILED" => job \notin InFlight
        /\ \A w \in Workers : pc[w] = "mark" => job \notin InFlight
        /\ act["recover"] = "mark" => job \notin InFlight

LEMMA JudgedNext == Shape /\ Judged /\ [Next]_vars => Judged'
<1> SUFFICES ASSUME Shape, Judged, [Next]_vars PROVE Judged'
  OBVIOUS
<1> USE WorkersAssumption DEF Shape, TypeOK, JobInv, Runs, Spoils, InFlight, Tasks, Judged
<1>1. ASSUME NEW w \in Workers, Take(w) PROVE Judged'
  BY <1>1 DEF Take, Goto, At
<1>2. ASSUME NEW w \in Workers, LoadSegments(w) PROVE Judged'
  BY <1>2 DEF LoadSegments, Goto, At
<1>3. ASSUME NEW w \in Workers, LoadNothing(w) PROVE Judged'
  BY <1>3 DEF LoadNothing, Goto, At
<1>4. ASSUME NEW w \in Workers, SkipReady(w) PROVE Judged'
  BY <1>4 DEF SkipReady, Advance, Goto, At
<1>5. ASSUME NEW w \in Workers, StartConversion(w) PROVE Judged'
  BY <1>5 DEF StartConversion, Goto, At, Writers
<1>6. ASSUME NEW w \in Workers, RawUnusable(w) PROVE Judged'
  BY <1>6 DEF RawUnusable, Goto, At
<1>7. ASSUME NEW w \in Workers, Rename(w) PROVE Judged'
  BY <1>7 DEF Rename, Goto, At, Writers
<1>8. ASSUME NEW w \in Workers, ConvertFails(w) PROVE Judged'
  BY <1>8 DEF ConvertFails, Goto, At, Writers, Spoils
<1>9. ASSUME NEW w \in Workers, SaveReady(w) PROVE Judged'
  BY <1>9 DEF SaveReady, Advance, Goto, At
<1>10. ASSUME NEW w \in Workers, SaveFailed(w) PROVE Judged'
  BY <1>10 DEF SaveFailed, Advance, Goto, At, Spoils
<1>11. ASSUME NEW w \in Workers, SaveThrows(w) PROVE Judged'
  BY <1>11 DEF SaveThrows, Goto, At, Spoils
<1>12. ASSUME NEW w \in Workers, Settle(w) PROVE Judged'
  BY <1>12 DEF Settle, Goto, At
<1>13. ASSUME NEW w \in Workers, Return(w) PROVE Judged'
  BY <1>13 DEF Return, Leave, Goto, At
<1>14. ASSUME NEW w \in Workers, ThrowRetried(w) PROVE Judged'
  BY <1>14 DEF ThrowRetried, Leave, Goto, At, IsFinal
<1>15. ASSUME NEW w \in Workers, ThrowFinal(w) PROVE Judged'
  BY <1>15 DEF ThrowFinal, Leave, Goto, At
<1>16. ASSUME NEW w \in Workers, ThrowUnheard(w) PROVE Judged'
  BY <1>16 DEF ThrowUnheard, Leave, Goto, At
<1>17. ASSUME NEW w \in Workers, Mark(w) PROVE Judged'
  BY <1>17 DEF Mark, Leave, Goto, At, MarkFailed
<1>18. ASSUME NEW w \in Workers, MarkThrows(w) PROVE Judged'
  BY <1>18 DEF MarkThrows, Leave, Goto, At, Fault, MishapLeft
<1>19. ASSUME NEW w \in Workers, Crash(w) PROVE Judged'
  BY <1>19 DEF Crash, Leave, Goto, At, Fault, MishapLeft
<1>20. ASSUME NEW w \in Workers, Stall(w) PROVE Judged'
  BY <1>20 DEF Stall, At, MishapLeft
<1>21. CASE ToolStart
  BY <1>21 DEF ToolStart, Doing, Then, MishapLeft
<1>22. CASE ToolReset
  <2>1. /\ act["tool"] = "reset" /\ act'["tool"] \in {"idle", "job"}
        /\ \A k \in Helpers \ {"tool"} : act'[k] = act[k]
        /\ row' \in {row, "PROCESSING"} /\ (row = "gone" => row' = row)
        /\ UNCHANGED <<fileVars, jobVars, runVars, envVars>>
    BY <1>22 DEF ToolReset, Doing, Then, Helpers
  <2> QED
    BY <2>1 DEF Helpers
<1>23. CASE Age
  BY <1>23 DEF Age, Doing, Then
<1>24. CASE RecoverFind
  BY <1>24 DEF RecoverFind, Doing, Then
<1>25. CASE RecoverLook
  BY <1>25 DEF RecoverLook, Doing, Then
<1>26. CASE RecoverMark
  BY <1>26 DEF RecoverMark, Doing, Then, MarkFailed
<1>27. ASSUME NEW h \in Helpers, RequeueLook(h) PROVE Judged'
  BY <1>27 DEF RequeueLook, Doing, Then
<1>28. ASSUME NEW h \in Helpers, RequeueRemove(h) PROVE Judged'
  <2>1. /\ act[h] = "remove" /\ act'[h] \in {"idle", "add"}
        /\ \A k \in Helpers \ {h} : act'[k] = act[k]
        /\ job' \in {job, "none"}
        /\ UNCHANGED <<rowVars, fileVars, runVars, envVars>>
    BY <1>28 DEF RequeueRemove, Doing, Then
  <2> QED
    BY <2>1 DEF Helpers
<1>29. ASSUME NEW h \in Helpers, RequeueAdd(h) PROVE Judged'
  BY <1>29 DEF RequeueAdd, Doing, Then
<1>30. CASE DeleteStart
  BY <1>30 DEF DeleteStart, Doing, Then
<1>31. CASE DeleteFiles
  BY <1>31 DEF DeleteFiles, Doing, Then
<1>32. CASE DeleteRow
  BY <1>32 DEF DeleteRow, Doing, Then
<1>33. CASE CleanFind
  BY <1>33 DEF CleanFind, Doing, Then
<1>34. CASE CleanVerify
  <2>1. /\ \A h \in Helpers \ {"clean"} : act'[h] = act[h]
        /\ UNCHANGED <<rowVars, fileVars, jobVars, runVars, envVars>>
    BY <1>34 DEF CleanVerify, Then
  <2> QED
    BY <2>1 DEF Helpers
<1>35. CASE CleanRaw
  BY <1>35 DEF CleanRaw, Doing, Then
<1>36. ASSUME NEW s \in Segs, TidyFind(s) PROVE Judged'
  BY <1>36 DEF TidyFind, Doing, Then, Writers
<1>37. CASE TidyRemove
  BY <1>37 DEF TidyRemove, Doing, Then
<1>38. ASSUME NEW h \in Helpers, HelperDies(h) PROVE Judged'
  BY <1>38 DEF HelperDies, Doing, Then, Fault, MishapLeft
<1>39. CASE UNCHANGED vars
  BY <1>39 DEF vars
<1> QED
  BY <1>1, <1>2, <1>3, <1>4, <1>5, <1>6, <1>7, <1>8,
     <1>9, <1>10, <1>11, <1>12, <1>13, <1>14, <1>15, <1>16,
     <1>17, <1>18, <1>19, <1>20, <1>21, <1>22, <1>23, <1>24,
     <1>25, <1>26, <1>27, <1>28, <1>29, <1>30, <1>31, <1>32,
     <1>33, <1>34, <1>35, <1>36, <1>37, <1>38, <1>39
     DEF Next, WorkerStep, RunStep, RequeueStep, RecoverStep, CleanStep, Helpers

LEMMA OverNext == Shape /\ Over /\ [Next]_vars => Over'
<1> SUFFICES ASSUME Shape, Over, [Next]_vars PROVE Over'
  OBVIOUS
<1> USE WorkersAssumption DEF Shape, TypeOK, JobInv, Runs, Spoils, InFlight, Tasks, Over
<1>1. ASSUME NEW w \in Workers, Take(w) PROVE Over'
  BY <1>1 DEF Take, Goto, At
<1>2. ASSUME NEW w \in Workers, LoadSegments(w) PROVE Over'
  BY <1>2 DEF LoadSegments, Goto, At
<1>3. ASSUME NEW w \in Workers, LoadNothing(w) PROVE Over'
  BY <1>3 DEF LoadNothing, Goto, At
<1>4. ASSUME NEW w \in Workers, SkipReady(w) PROVE Over'
  BY <1>4 DEF SkipReady, Advance, Goto, At
<1>5. ASSUME NEW w \in Workers, StartConversion(w) PROVE Over'
  BY <1>5 DEF StartConversion, Goto, At, Writers
<1>6. ASSUME NEW w \in Workers, RawUnusable(w) PROVE Over'
  BY <1>6 DEF RawUnusable, Goto, At
<1>7. ASSUME NEW w \in Workers, Rename(w) PROVE Over'
  BY <1>7 DEF Rename, Goto, At, Writers
<1>8. ASSUME NEW w \in Workers, ConvertFails(w) PROVE Over'
  BY <1>8 DEF ConvertFails, Goto, At, Writers, Spoils
<1>9. ASSUME NEW w \in Workers, SaveReady(w) PROVE Over'
  BY <1>9 DEF SaveReady, Advance, Goto, At
<1>10. ASSUME NEW w \in Workers, SaveFailed(w) PROVE Over'
  BY <1>10 DEF SaveFailed, Advance, Goto, At, Spoils
<1>11. ASSUME NEW w \in Workers, SaveThrows(w) PROVE Over'
  BY <1>11 DEF SaveThrows, Goto, At, Spoils
<1>12. ASSUME NEW w \in Workers, Settle(w) PROVE Over'
  BY <1>12 DEF Settle, Goto, At
<1>13. ASSUME NEW w \in Workers, Return(w) PROVE Over'
  BY <1>13 DEF Return, Leave, Goto, At
<1>14. ASSUME NEW w \in Workers, ThrowRetried(w) PROVE Over'
  BY <1>14 DEF ThrowRetried, Leave, Goto, At, IsFinal
<1>15. ASSUME NEW w \in Workers, ThrowFinal(w) PROVE Over'
  BY <1>15 DEF ThrowFinal, Leave, Goto, At
<1>16. ASSUME NEW w \in Workers, ThrowUnheard(w) PROVE Over'
  BY <1>16 DEF ThrowUnheard, Leave, Goto, At
<1>17. ASSUME NEW w \in Workers, Mark(w) PROVE Over'
  BY <1>17 DEF Mark, Leave, Goto, At, MarkFailed
<1>18. ASSUME NEW w \in Workers, MarkThrows(w) PROVE Over'
  BY <1>18 DEF MarkThrows, Leave, Goto, At, Fault, MishapLeft
<1>19. ASSUME NEW w \in Workers, Crash(w) PROVE Over'
  BY <1>19 DEF Crash, Leave, Goto, At, Fault, MishapLeft
<1>20. ASSUME NEW w \in Workers, Stall(w) PROVE Over'
  BY <1>20 DEF Stall, At, MishapLeft
<1>21. CASE ToolStart
  BY <1>21 DEF ToolStart, Doing, Then, MishapLeft
<1>22. CASE ToolReset
  <2>1. /\ act["tool"] = "reset" /\ act'["tool"] \in {"idle", "job"}
        /\ \A k \in Helpers \ {"tool"} : act'[k] = act[k]
        /\ row' \in {row, "PROCESSING"} /\ (row = "gone" => row' = row)
        /\ UNCHANGED <<fileVars, jobVars, runVars, envVars>>
    BY <1>22 DEF ToolReset, Doing, Then, Helpers
  <2> QED
    BY <2>1 DEF Helpers
<1>23. CASE Age
  BY <1>23 DEF Age, Doing, Then
<1>24. CASE RecoverFind
  BY <1>24 DEF RecoverFind, Doing, Then
<1>25. CASE RecoverLook
  BY <1>25 DEF RecoverLook, Doing, Then
<1>26. CASE RecoverMark
  BY <1>26 DEF RecoverMark, Doing, Then, MarkFailed
<1>27. ASSUME NEW h \in Helpers, RequeueLook(h) PROVE Over'
  BY <1>27 DEF RequeueLook, Doing, Then
<1>28. ASSUME NEW h \in Helpers, RequeueRemove(h) PROVE Over'
  <2>1. /\ act[h] = "remove" /\ act'[h] \in {"idle", "add"}
        /\ \A k \in Helpers \ {h} : act'[k] = act[k]
        /\ job' \in {job, "none"}
        /\ UNCHANGED <<rowVars, fileVars, runVars, envVars>>
    BY <1>28 DEF RequeueRemove, Doing, Then
  <2> QED
    BY <2>1 DEF Helpers
<1>29. ASSUME NEW h \in Helpers, RequeueAdd(h) PROVE Over'
  BY <1>29 DEF RequeueAdd, Doing, Then
<1>30. CASE DeleteStart
  BY <1>30 DEF DeleteStart, Doing, Then
<1>31. CASE DeleteFiles
  BY <1>31 DEF DeleteFiles, Doing, Then
<1>32. CASE DeleteRow
  BY <1>32 DEF DeleteRow, Doing, Then
<1>33. CASE CleanFind
  BY <1>33 DEF CleanFind, Doing, Then
<1>34. CASE CleanVerify
  <2>1. /\ \A h \in Helpers \ {"clean"} : act'[h] = act[h]
        /\ UNCHANGED <<rowVars, fileVars, jobVars, runVars, envVars>>
    BY <1>34 DEF CleanVerify, Then
  <2> QED
    BY <2>1 DEF Helpers
<1>35. CASE CleanRaw
  BY <1>35 DEF CleanRaw, Doing, Then
<1>36. ASSUME NEW s \in Segs, TidyFind(s) PROVE Over'
  BY <1>36 DEF TidyFind, Doing, Then, Writers
<1>37. CASE TidyRemove
  BY <1>37 DEF TidyRemove, Doing, Then
<1>38. ASSUME NEW h \in Helpers, HelperDies(h) PROVE Over'
  BY <1>38 DEF HelperDies, Doing, Then, Fault, MishapLeft
<1>39. CASE UNCHANGED vars
  BY <1>39 DEF vars
<1> QED
  BY <1>1, <1>2, <1>3, <1>4, <1>5, <1>6, <1>7, <1>8,
     <1>9, <1>10, <1>11, <1>12, <1>13, <1>14, <1>15, <1>16,
     <1>17, <1>18, <1>19, <1>20, <1>21, <1>22, <1>23, <1>24,
     <1>25, <1>26, <1>27, <1>28, <1>29, <1>30, <1>31, <1>32,
     <1>33, <1>34, <1>35, <1>36, <1>37, <1>38, <1>39
     DEF Next, WorkerStep, RunStep, RequeueStep, RecoverStep, CleanStep, Helpers

-----------------------------------------------------------------------------
(* What the rows say is on the volume. *)

\* Nobody writes into another's file, so a converted file is complete and stays
\* until the directory goes.
Media ==
    lapses = 0 =>
        /\ \A s \in Segs : temp[s] # "torn" /\ final[s] # "torn"
        /\ ~purged => \A s \in Segs : seg[s] = "READY" => final[s] = "whole"
        /\ ~purged => \A w \in Workers : pc[w] = "probe" => final[at[w]] = "whole"

\* The run's own knowledge is up to date, and it only succeeds with a segment.
Known ==
    lapses = 0 =>
        /\ \A w \in Workers : pc[w] \in Running => known[w] = {s \in Segs : seg[s] = "READY"}
        /\ \A w \in Workers : pc[w] \in Running \ {"loop"} => at[w] \notin known[w]
        /\ row = "READY" \/ (\E w \in Workers : pc[w] = "settle") =>
                \E s \in Segs : seg[s] = "READY"

\* Raw files are removed after the final ones were seen.
Kept ==
    lapses = 0 /\ ~purged =>
        /\ act["clean"] = "rm" => \A s \in target : final[s] = "whole"
        /\ \A s \in Segs : raw[s] = "gone" => final[s] = "whole"

LEMMA MediaNext == Shape /\ Alone /\ Writing /\ Media /\ [Next]_vars => Media'
<1> SUFFICES ASSUME Shape, Alone, Writing, Media, [Next]_vars PROVE Media'
  OBVIOUS
<1> USE WorkersAssumption DEF Shape, TypeOK, JobInv, Runs, Spoils, InFlight, Running, Alone, Writing, Media
<1>1. ASSUME NEW w \in Workers, Take(w) PROVE Media'
  BY <1>1 DEF Take, Goto, At
<1>2. ASSUME NEW w \in Workers, LoadSegments(w) PROVE Media'
  BY <1>2 DEF LoadSegments, Goto, At
<1>3. ASSUME NEW w \in Workers, LoadNothing(w) PROVE Media'
  BY <1>3 DEF LoadNothing, Goto, At
<1>4. ASSUME NEW w \in Workers, SkipReady(w) PROVE Media'
  BY <1>4 DEF SkipReady, Advance, Goto, At
<1>5. ASSUME NEW w \in Workers, StartConversion(w) PROVE Media'
  BY <1>5 DEF StartConversion, Goto, At, Writers
<1>6. ASSUME NEW w \in Workers, RawUnusable(w) PROVE Media'
  BY <1>6 DEF RawUnusable, Goto, At
<1>7. ASSUME NEW w \in Workers, Rename(w) PROVE Media'
  BY <1>7 DEF Rename, Goto, At, Writers
<1>8. ASSUME NEW w \in Workers, ConvertFails(w) PROVE Media'
  BY <1>8 DEF ConvertFails, Goto, At, Writers, Spoils
<1>9. ASSUME NEW w \in Workers, SaveReady(w) PROVE Media'
  BY <1>9 DEF SaveReady, Advance, Goto, At
<1>10. ASSUME NEW w \in Workers, SaveFailed(w) PROVE Media'
  BY <1>10 DEF SaveFailed, Advance, Goto, At, Spoils
<1>11. ASSUME NEW w \in Workers, SaveThrows(w) PROVE Media'
  BY <1>11 DEF SaveThrows, Goto, At, Spoils
<1>12. ASSUME NEW w \in Workers, Settle(w) PROVE Media'
  BY <1>12 DEF Settle, Goto, At
<1>13. ASSUME NEW w \in Workers, Return(w) PROVE Media'
  BY <1>13 DEF Return, Leave, Goto, At
<1>14. ASSUME NEW w \in Workers, ThrowRetried(w) PROVE Media'
  BY <1>14 DEF ThrowRetried, Leave, Goto, At, IsFinal
<1>15. ASSUME NEW w \in Workers, ThrowFinal(w) PROVE Media'
  BY <1>15 DEF ThrowFinal, Leave, Goto, At
<1>16. ASSUME NEW w \in Workers, ThrowUnheard(w) PROVE Media'
  BY <1>16 DEF ThrowUnheard, Leave, Goto, At
<1>17. ASSUME NEW w \in Workers, Mark(w) PROVE Media'
  BY <1>17 DEF Mark, Leave, Goto, At, MarkFailed
<1>18. ASSUME NEW w \in Workers, MarkThrows(w) PROVE Media'
  BY <1>18 DEF MarkThrows, Leave, Goto, At, Fault, MishapLeft
<1>19. ASSUME NEW w \in Workers, Crash(w) PROVE Media'
  BY <1>19 DEF Crash, Leave, Goto, At, Fault, MishapLeft
<1>20. ASSUME NEW w \in Workers, Stall(w) PROVE Media'
  BY <1>20 DEF Stall, At, MishapLeft
<1>21. CASE ToolStart
  BY <1>21 DEF ToolStart, Doing, Then, MishapLeft
<1>22. CASE ToolReset
  BY <1>22 DEF ToolReset, Doing, Then
<1>23. CASE Age
  BY <1>23 DEF Age, Doing, Then
<1>24. CASE RecoverFind
  BY <1>24 DEF RecoverFind, Doing, Then
<1>25. CASE RecoverLook
  BY <1>25 DEF RecoverLook, Doing, Then
<1>26. CASE RecoverMark
  BY <1>26 DEF RecoverMark, Doing, Then, MarkFailed
<1>27. ASSUME NEW h \in Helpers, RequeueLook(h) PROVE Media'
  BY <1>27 DEF RequeueLook, Doing, Then
<1>28. ASSUME NEW h \in Helpers, RequeueRemove(h) PROVE Media'
  BY <1>28 DEF RequeueRemove, Doing, Then
<1>29. ASSUME NEW h \in Helpers, RequeueAdd(h) PROVE Media'
  BY <1>29 DEF RequeueAdd, Doing, Then
<1>30. CASE DeleteStart
  BY <1>30 DEF DeleteStart, Doing, Then
<1>31. CASE DeleteFiles
  BY <1>31 DEF DeleteFiles, Doing, Then
<1>32. CASE DeleteRow
  BY <1>32 DEF DeleteRow, Doing, Then
<1>33. CASE CleanFind
  BY <1>33 DEF CleanFind, Doing, Then
<1>34. CASE CleanVerify
  BY <1>34 DEF CleanVerify, Doing, Then
<1>35. CASE CleanRaw
  BY <1>35 DEF CleanRaw, Doing, Then
<1>36. ASSUME NEW s \in Segs, TidyFind(s) PROVE Media'
  BY <1>36 DEF TidyFind, Doing, Then, Writers
<1>37. CASE TidyRemove
  BY <1>37 DEF TidyRemove, Doing, Then
<1>38. ASSUME NEW h \in Helpers, HelperDies(h) PROVE Media'
  BY <1>38 DEF HelperDies, Doing, Then, Fault, MishapLeft
<1>39. CASE UNCHANGED vars
  BY <1>39 DEF vars
<1> QED
  BY <1>1, <1>2, <1>3, <1>4, <1>5, <1>6, <1>7, <1>8,
     <1>9, <1>10, <1>11, <1>12, <1>13, <1>14, <1>15, <1>16,
     <1>17, <1>18, <1>19, <1>20, <1>21, <1>22, <1>23, <1>24,
     <1>25, <1>26, <1>27, <1>28, <1>29, <1>30, <1>31, <1>32,
     <1>33, <1>34, <1>35, <1>36, <1>37, <1>38, <1>39
     DEF Next, WorkerStep, RunStep, RequeueStep, RecoverStep, CleanStep, Helpers

LEMMA KnownNext == Shape /\ Alone /\ Known /\ [Next]_vars => Known'
<1> SUFFICES ASSUME Shape, Alone, Known, [Next]_vars PROVE Known'
  OBVIOUS
<1> USE WorkersAssumption DEF Shape, TypeOK, JobInv, Runs, Spoils, InFlight, Running, Alone, Known
<1>1. ASSUME NEW w \in Workers, Take(w) PROVE Known'
  BY <1>1 DEF Take, Goto, At
<1>2. ASSUME NEW w \in Workers, LoadSegments(w) PROVE Known'
  BY <1>2 DEF LoadSegments, Goto, At
<1>3. ASSUME NEW w \in Workers, LoadNothing(w) PROVE Known'
  BY <1>3 DEF LoadNothing, Goto, At
<1>4. ASSUME NEW w \in Workers, SkipReady(w) PROVE Known'
  BY <1>4 DEF SkipReady, Advance, Goto, At
<1>5. ASSUME NEW w \in Workers, StartConversion(w) PROVE Known'
  BY <1>5 DEF StartConversion, Goto, At, Writers
<1>6. ASSUME NEW w \in Workers, RawUnusable(w) PROVE Known'
  BY <1>6 DEF RawUnusable, Goto, At
<1>7. ASSUME NEW w \in Workers, Rename(w) PROVE Known'
  BY <1>7 DEF Rename, Goto, At, Writers
<1>8. ASSUME NEW w \in Workers, ConvertFails(w) PROVE Known'
  BY <1>8 DEF ConvertFails, Goto, At, Writers, Spoils
<1>9. ASSUME NEW w \in Workers, SaveReady(w) PROVE Known'
  BY <1>9 DEF SaveReady, Advance, Goto, At
<1>10. ASSUME NEW w \in Workers, SaveFailed(w) PROVE Known'
  BY <1>10 DEF SaveFailed, Advance, Goto, At, Spoils
<1>11. ASSUME NEW w \in Workers, SaveThrows(w) PROVE Known'
  BY <1>11 DEF SaveThrows, Goto, At, Spoils
<1>12. ASSUME NEW w \in Workers, Settle(w) PROVE Known'
  BY <1>12 DEF Settle, Goto, At
<1>13. ASSUME NEW w \in Workers, Return(w) PROVE Known'
  BY <1>13 DEF Return, Leave, Goto, At
<1>14. ASSUME NEW w \in Workers, ThrowRetried(w) PROVE Known'
  BY <1>14 DEF ThrowRetried, Leave, Goto, At, IsFinal
<1>15. ASSUME NEW w \in Workers, ThrowFinal(w) PROVE Known'
  BY <1>15 DEF ThrowFinal, Leave, Goto, At
<1>16. ASSUME NEW w \in Workers, ThrowUnheard(w) PROVE Known'
  BY <1>16 DEF ThrowUnheard, Leave, Goto, At
<1>17. ASSUME NEW w \in Workers, Mark(w) PROVE Known'
  BY <1>17 DEF Mark, Leave, Goto, At, MarkFailed
<1>18. ASSUME NEW w \in Workers, MarkThrows(w) PROVE Known'
  BY <1>18 DEF MarkThrows, Leave, Goto, At, Fault, MishapLeft
<1>19. ASSUME NEW w \in Workers, Crash(w) PROVE Known'
  BY <1>19 DEF Crash, Leave, Goto, At, Fault, MishapLeft
<1>20. ASSUME NEW w \in Workers, Stall(w) PROVE Known'
  BY <1>20 DEF Stall, At, MishapLeft
<1>21. CASE ToolStart
  BY <1>21 DEF ToolStart, Doing, Then, MishapLeft
<1>22. CASE ToolReset
  BY <1>22 DEF ToolReset, Doing, Then
<1>23. CASE Age
  BY <1>23 DEF Age, Doing, Then
<1>24. CASE RecoverFind
  BY <1>24 DEF RecoverFind, Doing, Then
<1>25. CASE RecoverLook
  BY <1>25 DEF RecoverLook, Doing, Then
<1>26. CASE RecoverMark
  BY <1>26 DEF RecoverMark, Doing, Then, MarkFailed
<1>27. ASSUME NEW h \in Helpers, RequeueLook(h) PROVE Known'
  BY <1>27 DEF RequeueLook, Doing, Then
<1>28. ASSUME NEW h \in Helpers, RequeueRemove(h) PROVE Known'
  BY <1>28 DEF RequeueRemove, Doing, Then
<1>29. ASSUME NEW h \in Helpers, RequeueAdd(h) PROVE Known'
  BY <1>29 DEF RequeueAdd, Doing, Then
<1>30. CASE DeleteStart
  BY <1>30 DEF DeleteStart, Doing, Then
<1>31. CASE DeleteFiles
  BY <1>31 DEF DeleteFiles, Doing, Then
<1>32. CASE DeleteRow
  BY <1>32 DEF DeleteRow, Doing, Then
<1>33. CASE CleanFind
  BY <1>33 DEF CleanFind, Doing, Then
<1>34. CASE CleanVerify
  BY <1>34 DEF CleanVerify, Doing, Then
<1>35. CASE CleanRaw
  BY <1>35 DEF CleanRaw, Doing, Then
<1>36. ASSUME NEW s \in Segs, TidyFind(s) PROVE Known'
  BY <1>36 DEF TidyFind, Doing, Then, Writers
<1>37. CASE TidyRemove
  BY <1>37 DEF TidyRemove, Doing, Then
<1>38. ASSUME NEW h \in Helpers, HelperDies(h) PROVE Known'
  BY <1>38 DEF HelperDies, Doing, Then, Fault, MishapLeft
<1>39. CASE UNCHANGED vars
  BY <1>39 DEF vars
<1> QED
  BY <1>1, <1>2, <1>3, <1>4, <1>5, <1>6, <1>7, <1>8,
     <1>9, <1>10, <1>11, <1>12, <1>13, <1>14, <1>15, <1>16,
     <1>17, <1>18, <1>19, <1>20, <1>21, <1>22, <1>23, <1>24,
     <1>25, <1>26, <1>27, <1>28, <1>29, <1>30, <1>31, <1>32,
     <1>33, <1>34, <1>35, <1>36, <1>37, <1>38, <1>39
     DEF Next, WorkerStep, RunStep, RequeueStep, RecoverStep, CleanStep, Helpers

LEMMA KeptNext == Shape /\ Alone /\ Writing /\ Media /\ Kept /\ [Next]_vars => Kept'
<1> SUFFICES ASSUME Shape, Alone, Writing, Media, Kept, [Next]_vars PROVE Kept'
  OBVIOUS
<1> USE WorkersAssumption DEF Shape, TypeOK, JobInv, Runs, Spoils, InFlight, Tasks, Alone, Writing, Media, Kept
<1>1. ASSUME NEW w \in Workers, Take(w) PROVE Kept'
  BY <1>1 DEF Take, Goto, At
<1>2. ASSUME NEW w \in Workers, LoadSegments(w) PROVE Kept'
  BY <1>2 DEF LoadSegments, Goto, At
<1>3. ASSUME NEW w \in Workers, LoadNothing(w) PROVE Kept'
  BY <1>3 DEF LoadNothing, Goto, At
<1>4. ASSUME NEW w \in Workers, SkipReady(w) PROVE Kept'
  BY <1>4 DEF SkipReady, Advance, Goto, At
<1>5. ASSUME NEW w \in Workers, StartConversion(w) PROVE Kept'
  BY <1>5 DEF StartConversion, Goto, At, Writers
<1>6. ASSUME NEW w \in Workers, RawUnusable(w) PROVE Kept'
  BY <1>6 DEF RawUnusable, Goto, At
<1>7. ASSUME NEW w \in Workers, Rename(w) PROVE Kept'
  BY <1>7 DEF Rename, Goto, At, Writers
<1>8. ASSUME NEW w \in Workers, ConvertFails(w) PROVE Kept'
  BY <1>8 DEF ConvertFails, Goto, At, Writers, Spoils
<1>9. ASSUME NEW w \in Workers, SaveReady(w) PROVE Kept'
  BY <1>9 DEF SaveReady, Advance, Goto, At
<1>10. ASSUME NEW w \in Workers, SaveFailed(w) PROVE Kept'
  BY <1>10 DEF SaveFailed, Advance, Goto, At, Spoils
<1>11. ASSUME NEW w \in Workers, SaveThrows(w) PROVE Kept'
  BY <1>11 DEF SaveThrows, Goto, At, Spoils
<1>12. ASSUME NEW w \in Workers, Settle(w) PROVE Kept'
  BY <1>12 DEF Settle, Goto, At
<1>13. ASSUME NEW w \in Workers, Return(w) PROVE Kept'
  BY <1>13 DEF Return, Leave, Goto, At
<1>14. ASSUME NEW w \in Workers, ThrowRetried(w) PROVE Kept'
  BY <1>14 DEF ThrowRetried, Leave, Goto, At, IsFinal
<1>15. ASSUME NEW w \in Workers, ThrowFinal(w) PROVE Kept'
  BY <1>15 DEF ThrowFinal, Leave, Goto, At
<1>16. ASSUME NEW w \in Workers, ThrowUnheard(w) PROVE Kept'
  BY <1>16 DEF ThrowUnheard, Leave, Goto, At
<1>17. ASSUME NEW w \in Workers, Mark(w) PROVE Kept'
  BY <1>17 DEF Mark, Leave, Goto, At, MarkFailed
<1>18. ASSUME NEW w \in Workers, MarkThrows(w) PROVE Kept'
  BY <1>18 DEF MarkThrows, Leave, Goto, At, Fault, MishapLeft
<1>19. ASSUME NEW w \in Workers, Crash(w) PROVE Kept'
  BY <1>19 DEF Crash, Leave, Goto, At, Fault, MishapLeft
<1>20. ASSUME NEW w \in Workers, Stall(w) PROVE Kept'
  BY <1>20 DEF Stall, At, MishapLeft
<1>21. CASE ToolStart
  BY <1>21 DEF ToolStart, Doing, Then, MishapLeft
<1>22. CASE ToolReset
  <2>1. /\ act["tool"] = "reset" /\ act'["tool"] \in {"idle", "job"}
        /\ \A k \in Helpers \ {"tool"} : act'[k] = act[k]
        /\ row' \in {row, "PROCESSING"} /\ (row = "gone" => row' = row)
        /\ UNCHANGED <<fileVars, jobVars, runVars, target, envVars>>
    BY <1>22 DEF ToolReset, Doing, Then, Helpers
  <2> QED
    BY <2>1 DEF Helpers
<1>23. CASE Age
  BY <1>23 DEF Age, Doing, Then
<1>24. CASE RecoverFind
  BY <1>24 DEF RecoverFind, Doing, Then
<1>25. CASE RecoverLook
  BY <1>25 DEF RecoverLook, Doing, Then
<1>26. CASE RecoverMark
  BY <1>26 DEF RecoverMark, Doing, Then, MarkFailed
<1>27. ASSUME NEW h \in Helpers, RequeueLook(h) PROVE Kept'
  BY <1>27 DEF RequeueLook, Doing, Then
<1>28. ASSUME NEW h \in Helpers, RequeueRemove(h) PROVE Kept'
  <2>1. /\ act[h] = "remove" /\ act'[h] \in {"idle", "add"}
        /\ \A k \in Helpers \ {h} : act'[k] = act[k]
        /\ job' \in {job, "none"}
        /\ UNCHANGED <<rowVars, fileVars, runVars, target, envVars>>
    BY <1>28 DEF RequeueRemove, Doing, Then
  <2> QED
    BY <2>1 DEF Helpers
<1>29. ASSUME NEW h \in Helpers, RequeueAdd(h) PROVE Kept'
  BY <1>29 DEF RequeueAdd, Doing, Then
<1>30. CASE DeleteStart
  BY <1>30 DEF DeleteStart, Doing, Then
<1>31. CASE DeleteFiles
  BY <1>31 DEF DeleteFiles, Doing, Then
<1>32. CASE DeleteRow
  BY <1>32 DEF DeleteRow, Doing, Then
<1>33. CASE CleanFind
  BY <1>33 DEF CleanFind, Doing, Then
<1>34. CASE CleanVerify
  <2>1. CASE job \notin InFlight /\ \A s \in target : final[s] /= "none"
    <3>1. \A s \in target : lapses = 0 => final[s] = "whole"
      BY <2>1
    <3> QED
      BY <1>34, <2>1, <3>1 DEF CleanVerify, Doing, Then
  <2>2. CASE ~(job \notin InFlight /\ \A s \in target : final[s] /= "none")
    <3>1. act'["clean"] = "idle" /\ UNCHANGED <<raw, final, purged, lapses>>
      BY <1>34, <2>2 DEF CleanVerify, Then, Helpers
    <3> QED
      BY <3>1
  <2> QED
    BY <2>1, <2>2
<1>35. CASE CleanRaw
  BY <1>35 DEF CleanRaw, Doing, Then
<1>36. ASSUME NEW s \in Segs, TidyFind(s) PROVE Kept'
  BY <1>36 DEF TidyFind, Doing, Then, Writers
<1>37. CASE TidyRemove
  BY <1>37 DEF TidyRemove, Doing, Then
<1>38. ASSUME NEW h \in Helpers, HelperDies(h) PROVE Kept'
  BY <1>38 DEF HelperDies, Doing, Then, Fault, MishapLeft
<1>39. CASE UNCHANGED vars
  BY <1>39 DEF vars
<1> QED
  BY <1>1, <1>2, <1>3, <1>4, <1>5, <1>6, <1>7, <1>8,
     <1>9, <1>10, <1>11, <1>12, <1>13, <1>14, <1>15, <1>16,
     <1>17, <1>18, <1>19, <1>20, <1>21, <1>22, <1>23, <1>24,
     <1>25, <1>26, <1>27, <1>28, <1>29, <1>30, <1>31, <1>32,
     <1>33, <1>34, <1>35, <1>36, <1>37, <1>38, <1>39
     DEF Next, WorkerStep, RunStep, RequeueStep, RecoverStep, CleanStep, Helpers

-----------------------------------------------------------------------------
PipelineInv ==
    Shape /\ Alone /\ Writing /\ Swept /\ Judged /\ Over /\ Media /\ Known /\ Kept

LEMMA PipelineInit == Init => PipelineInv
<1> SUFFICES ASSUME Init PROVE PipelineInv
  OBVIOUS
<1>1. Shape
  BY ShapeInit
<1>2. Alone /\ Writing /\ Swept /\ Judged /\ Over
  BY DEF Init, Alone, Writing, Swept, Judged, Over, Helpers
<1>3. Media /\ Known /\ Kept
  BY DEF Init, Media, Known, Kept, Running, Helpers
<1> QED
  BY <1>1, <1>2, <1>3 DEF PipelineInv

LEMMA PipelineAlways == Spec => []PipelineInv
<1>1. PipelineInv /\ [Next]_vars => PipelineInv'
  BY ShapeNext, AloneNext, WritingNext, SweptNext, JudgedNext, OverNext, MediaNext,
     KnownNext, KeptNext DEF PipelineInv
<1> QED
  BY PipelineInit, <1>1, PTL DEF Spec

\* Every reachable state has the declared shape: the loop of a run ends at the
\* last segment and a job is never attempted more often than it may.
THEOREM TypeCorrect == Spec => []TypeOK
<1>1. PipelineInv => TypeOK
  BY DEF PipelineInv, Shape
<1> QED
  BY PipelineAlways, <1>1, PTL

\* finalizeRecording: what is offered as READY can be played.
THEOREM ReadyCanBePlayed == Spec => []ReadyIsPlayable
<1>1. PipelineInv => ReadyIsPlayable
  BY DEF PipelineInv, Media, Known, ReadyIsPlayable
<1> QED
  BY PipelineAlways, <1>1, PTL

\* cleanRawFiles: raw footage goes only where a complete final file is.
THEOREM NoFootageIsLost == Spec => []FootageKept
<1>1. PipelineInv => FootageKept
  BY DEF PipelineInv, Kept, FootageKept
<1> QED
  BY PipelineAlways, <1>1, PTL

\* finalizeRecording, markRecordingFailed: one event, whoever comes first.
THEOREM OneVerdict == Spec => []VerdictOnce
<1>1. PipelineInv => VerdictOnce
  BY DEF PipelineInv, Judged, VerdictOnce
<1> QED
  BY PipelineAlways, <1>1, PTL

\* onFailed: a job that will be retried does not fail the recording.
THEOREM FailedComesLast == Spec => []FailedIsLast
<1>1. PipelineInv => FailedIsLast
  BY DEF PipelineInv, Over, FailedIsLast
<1> QED
  BY PipelineAlways, <1>1, PTL

\* deleteRecording: no file survives its row, whatever still runs.
THEOREM DeleteIsComplete == Spec => []NothingLeftBehind
<1>1. PipelineInv => NothingLeftBehind
  BY DEF PipelineInv, Swept, NothingLeftBehind
<1> QED
  BY PipelineAlways, <1>1, PTL

================================================================================
