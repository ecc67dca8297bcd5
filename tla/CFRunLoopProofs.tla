-------------------------- MODULE CFRunLoopProofs --------------------------
(***************************************************************************)
(* Theorems about CFRunLoop, for all modes, sources, blocks and clients    *)
(* and every number of runs within runs.                                   *)
(***************************************************************************)
EXTENDS CFRunLoop, TLAPS

\* The runs below the executing one are in the callouts that ran the loop again.
Suspended ==
    \A r \in Runs :
        /\ r < depth => callout[r] /\ pc[r] \in NestIn
        /\ r <= depth => mode[r] \in Modes

Unused == \A r \in Runs : r > depth => pc[r] = "none"

\* What __CFRunLoopDoBlocks has detached it has only while it runs.
Detached ==
    \A r \in Runs :
        /\ pc[r] \notin Passes => due[r] = {} /\ held[r] = {}
        /\ Matching(mode[r], held[r]) = {}

\* A run that has performed a version 0 source will only poll in this turn.
Performed ==
    \A r \in Runs :
        /\ pc[r] \in {"blocks2", "pass2"} => handled[r]
        /\ pc[r] = "perform" /\ callout[r] => handled[r]

Shape == TypeOK /\ Suspended /\ Unused /\ Detached /\ Performed
-----------------------------------------------------------------------------
(* The records that say where a run goes on. *)

Places == Locked \cup Unlocked

LEMMA DepthIsRun == TypeOK /\ depth > 0 => depth \in Runs
BY ConstantsAssumption DEF TypeOK, Runs

LEMMA NextIsRun == TypeOK /\ depth < MaxRuns => depth + 1 \in Runs
BY ConstantsAssumption DEF TypeOK, Runs

LEMMA NotifyPlace ==
    ASSUME NEW a \in Activities, NEW p \in Places
    PROVE  Notify(a, p) \in {a, p} /\ Notify(a, p) \in Places
BY DEF Notify, Places, Unlocked

LEMMA AfterDomain ==
    DOMAIN After = {"Entry", "BeforeTimers", "BeforeSources", "BeforeWaiting",
                    "AfterWaiting", "Exit", "timers", "perform1"}
BY DEF After

LEMMA AfterPlaces ==
    /\ After["Entry"] = "start"
    /\ After["BeforeTimers"] \in {"BeforeSources", "blocks1"}
    /\ After["BeforeSources"] = "blocks1"
    /\ After["BeforeWaiting"] = "asleep"
    /\ After["AfterWaiting"] = "handle"
    /\ After["Exit"] = "leave"
    /\ After["timers"] = "blocks3"
    /\ After["perform1"] = "blocks3"
BY DEF After, Notify

LEMMA PassDomain == DOMAIN PassOf = {"blocks1", "blocks2", "blocks3"}
BY DEF PassOf

LEMMA PassPlaces ==
    /\ PassOf["blocks1"] = "pass1" /\ AfterBlocks["blocks1"] = "sources"
    /\ PassOf["blocks2"] = "pass2" /\ AfterBlocks["blocks2"] = "poll"
    /\ PassOf["blocks3"] = "pass3" /\ AfterBlocks["blocks3"] = "decide"
BY DEF PassOf, AfterBlocks

LEMMA JobKinds ==
    /\ Idle \in Jobs /\ Wake \in Jobs /\ Idle # Wake
    /\ \A s \in AllSources :
        /\ Removing(s) \in Jobs /\ Removing(s) # Wake
        /\ \A m \in Modes : Adding(s, m) \in Jobs /\ Adding(s, m) # Wake
BY DEF Jobs, Idle, Wake, Removing, Adding

LEMMA MatchingSubset ==
    ASSUME NEW m, NEW bs PROVE Matching(m, bs) \subseteq bs
BY DEF Matching
-----------------------------------------------------------------------------
(* Type correctness. *)

LEMMA StepTyped ==
    ASSUME TypeOK, depth > 0, NEW p \in Places, Step(p)
    PROVE  pc' \in [Runs -> Places] /\ callout' \in [Runs -> BOOLEAN]
<1>1. pc' \in [Runs -> Places]
  BY DEF TypeOK, Step, Places
<1>2. (p \in Activities) \in BOOLEAN
  OBVIOUS
<1>3. callout' \in [Runs -> BOOLEAN]
  BY <1>2 DEF TypeOK, Step
<1> QED
  BY <1>1, <1>3

LEMMA ReturnTyped ==
    ASSUME TypeOK, depth > 0,
           NEW r \in {"HandledSource", "TimedOut", "Stopped", "Finished"}, Return(r)
    PROVE  /\ pc' \in [Runs -> Places] /\ callout' \in [Runs -> BOOLEAN]
           /\ retVal' \in [Runs -> {"none", "HandledSource", "TimedOut", "Stopped", "Finished"}]
<1>1. Notify("Exit", "leave") \in Places
  BY NotifyPlace DEF Activities, Places, Locked
<1>2. Step(Notify("Exit", "leave"))
  BY DEF Return
<1>3. retVal' = [retVal EXCEPT ![depth] = r]
  BY DEF Return
<1> QED
  BY <1>1, <1>2, <1>3, StepTyped DEF TypeOK

LEMMA ReturnStoppedTyped ==
    ASSUME TypeOK, depth > 0, ReturnStopped
    PROVE  /\ pc' \in [Runs -> Places] /\ callout' \in [Runs -> BOOLEAN]
           /\ retVal' \in [Runs -> {"none", "HandledSource", "TimedOut", "Stopped", "Finished"}]
           /\ stopped' \in [Runs -> BOOLEAN]
           /\ modeStopped' \in [Modes -> BOOLEAN]
<1>1. Return("Stopped")
  BY DEF ReturnStopped
<1>2. stopped' \in [Runs -> BOOLEAN]
  BY DEF ReturnStopped, TypeOK
<1>3. modeStopped' \in [Modes -> BOOLEAN]
  BY DEF ReturnStopped, TypeOK
<1> QED
  BY <1>1, <1>2, <1>3, ReturnTyped

LEMMA CountedNat ==
    ASSUME NEW n \in Nat, NEW does \in BOOLEAN PROVE Counted(n, does) \in Nat
BY DEF Counted

\* What __CFRunLoopDoSource1 does, when it performs the source and when not.
Source1Does(does) ==
    /\ \/ does /\ signaled' = signaled \ {live[depth]}
              /\ callout' = [callout EXCEPT ![depth] = TRUE] /\ UNCHANGED pc
       \/ ~does /\ Step("blocks3") /\ UNCHANGED signaled
    /\ handled' = [handled EXCEPT ![depth] = HandledBy(does)]
    /\ served1' = [served1 EXCEPT ![depth] = Counted(@, does)]

LEMMA Source1DoesOrNot ==
    ASSUME DoSource1 PROVE \E does \in BOOLEAN : Source1Does(does)
<1>1. CASE live[depth] \in valid
  <2>1. Source1Does(TRUE)
    BY <1>1 DEF DoSource1, Source1Does
  <2> QED
    BY <2>1
<1>2. CASE live[depth] \notin valid
  <2>1. Source1Does(FALSE)
    BY <1>2 DEF DoSource1, Source1Does, HandledBy, Counted
  <2> QED
    BY <2>1
<1> QED
  BY <1>1, <1>2

LEMMA LoopTyped == TypeOK /\ LoopStep => TypeOK'
<1> SUFFICES ASSUME TypeOK, LoopStep PROVE TypeOK'
  OBVIOUS
<1> USE DEF perRun, frame, counts, locals, detached, loop, items
<1>1. CASE Start
  <2>1. depth > 0
    BY <1>1 DEF Start, At
  <2>2. CASE ReturnStopped
    BY <1>1, <2>1, <2>2, ReturnStoppedTyped DEF Start, TypeOK, Places
  <2>3. CASE Step("top") /\ UNCHANGED <<stopped, modeStopped, retVal>>
    BY <1>1, <2>1, <2>3, StepTyped DEF Start, TypeOK, Places, Locked
  <2> QED
    BY <1>1, <2>2, <2>3 DEF Start
<1>2. CASE Top
  <2>1. depth > 0 /\ "blocks1" \in Places /\ "BeforeTimers" \in Activities
        /\ "BeforeSources" \in Activities
    BY <1>2 DEF Top, At, Places, Locked, Activities
  <2>2. Notify("BeforeTimers", Notify("BeforeSources", "blocks1")) \in Places
    BY <2>1, NotifyPlace
  <2>3. ignoring' \in [0 .. MaxRuns -> BOOLEAN]
    BY <1>2, DepthIsRun DEF Top, TypeOK
  <2> QED
    BY <1>2, <2>1, <2>2, <2>3, StepTyped DEF Top, TypeOK, Places
<1>3. CASE CalloutEnds
  <2>1. After[pc[depth]] \in Places
    BY <1>3, AfterDomain, AfterPlaces DEF CalloutEnds, Places, Locked, Unlocked, Activities
  <2> QED
    BY <1>3, <2>1, StepTyped DEF CalloutEnds, TypeOK, Places
<1>4. CASE CalloutReturns
  BY <1>4 DEF CalloutReturns, TypeOK
<1>5. ASSUME NEW p \in DOMAIN PassOf, TakeBlocks(p) PROVE TypeOK'
  <2>1. depth > 0 /\ AfterBlocks[p] \in Places /\ PassOf[p] \in Places
    BY <1>5, PassDomain, PassPlaces DEF TakeBlocks, At, Places, Locked, Unlocked, Passes
  <2>2. pc' \in [Runs -> Places] /\ callout' \in [Runs -> BOOLEAN]
    BY <1>5, <2>1, StepTyped DEF TakeBlocks
  <2>3. due' \in [Runs -> SUBSET Blocks]
    BY <1>5, MatchingSubset DEF TakeBlocks, TypeOK
  <2>4. held' \in [Runs -> SUBSET Blocks]
    BY <1>5 DEF TakeBlocks, TypeOK
  <2> QED
    BY <1>5, <2>2, <2>3, <2>4 DEF TakeBlocks, TypeOK, Places
<1>6. ASSUME NEW p \in DOMAIN PassOf, RelinkBlocks(p) PROVE TypeOK'
  <2>1. depth > 0 /\ AfterBlocks[p] \in Places
    BY <1>6, PassDomain, PassPlaces DEF RelinkBlocks, At, Places, Locked
  <2>2. pc' \in [Runs -> Places] /\ callout' \in [Runs -> BOOLEAN]
    BY <1>6, <2>1, StepTyped DEF RelinkBlocks
  <2>3. queued' \subseteq Blocks /\ held' \in [Runs -> SUBSET Blocks]
    BY <1>6, <2>1, DepthIsRun DEF RelinkBlocks, Relinked, TypeOK
  <2> QED
    BY <1>6, <2>2, <2>3 DEF RelinkBlocks, TypeOK, Places
<1>7. ASSUME NEW b \in Blocks, RunBlock(b) PROVE TypeOK'
  BY <1>7 DEF RunBlock, TypeOK
<1>8. CASE CollectSources0
  <2>1. depth > 0 /\ (IF Ready(mode[depth]) = {} THEN "poll" ELSE "perform") \in Places
    BY <1>8 DEF CollectSources0, At, Places, Locked, Unlocked
  <2>2. pc' \in [Runs -> Places] /\ callout' \in [Runs -> BOOLEAN]
    BY <1>8, <2>1, StepTyped DEF CollectSources0
  <2>3. Ready(mode[depth]) \subseteq Sources0
    BY DEF Ready
  <2>4. late' \subseteq Sources0 \X Modes
    BY <1>8 DEF CollectSources0, TypeOK
  <2> QED
    BY <1>8, <2>2, <2>3, <2>4 DEF CollectSources0, TypeOK, Places
<1>9. CASE Sources0Done
  <2>1. depth > 0 /\ (IF handled[depth] THEN "blocks2" ELSE "poll") \in Places
    BY <1>9 DEF Sources0Done, At, Places, Locked
  <2>2. pc' \in [Runs -> Places] /\ callout' \in [Runs -> BOOLEAN]
    BY <1>9, <2>1, StepTyped DEF Sources0Done
  <2> QED
    BY <1>9, <2>2 DEF Sources0Done, TypeOK, Places
<1>10. ASSUME NEW s \in Sources0, DoSource0(s) PROVE TypeOK'
  <2>1. depth \in Runs
    BY <1>10, DepthIsRun DEF DoSource0, At
  <2>2. PICK does \in BOOLEAN :
            /\ handled' = [handled EXCEPT ![depth] = HandledBy(does)]
            /\ callout' = [callout EXCEPT ![depth] = does]
            /\ served0' = [served0 EXCEPT ![depth] = Counted(@, does)]
    BY <1>10 DEF DoSource0
  <2>3. handled' \in [Runs -> BOOLEAN] /\ callout' \in [Runs -> BOOLEAN]
    BY <2>1, <2>2 DEF HandledBy, TypeOK
  <2>4. served0' \in [Runs -> Nat]
    BY <2>1, <2>2, CountedNat DEF TypeOK
  <2>5. signaled' \subseteq Sources0 /\ collected' \in [Runs -> SUBSET Sources0]
        /\ late' \subseteq Sources0 \X Modes
    BY <1>10, <2>1 DEF DoSource0, TypeOK
  <2> QED
    BY <1>10, <2>3, <2>4, <2>5 DEF DoSource0, TypeOK
<1>11. CASE GoToSleep
  <2>1. depth > 0 /\ depth \in Runs
    BY <1>11, DepthIsRun DEF GoToSleep, At
  <2>2. Notify("BeforeWaiting", "asleep") \in Places /\ "asleep" \in Places
    BY NotifyPlace DEF Places, Unlocked, Activities
  <2>3. pc' \in [Runs -> Places] /\ callout' \in [Runs -> BOOLEAN]
    BY <1>11, <2>1, <2>2, StepTyped DEF GoToSleep
  <2>4. poll' \in [Runs -> BOOLEAN]
    BY <1>11, <2>1 DEF GoToSleep, TypeOK
  <2> QED
    BY <1>11, <2>3, <2>4 DEF GoToSleep, TypeOK, Places
<1>12. ASSUME NEW port \in {"none", "wakeUp", "timer"} \cup Sources1, ServiceMachPort(port)
       PROVE TypeOK'
  <2>1. depth > 0 /\ "woken" \in Places
    BY <1>12 DEF ServiceMachPort, At, Places, Unlocked
  <2>2. pc' \in [Runs -> Places] /\ callout' \in [Runs -> BOOLEAN]
    BY <1>12, <2>1, StepTyped DEF ServiceMachPort
  <2> QED
    BY <1>12, <2>2 DEF ServiceMachPort, TypeOK, Places
<1>13. CASE Relock
  <2>1. depth > 0 /\ Notify("AfterWaiting", "handle") \in Places /\ "handle" \in Places
    BY <1>13, NotifyPlace DEF Relock, At, Places, Locked, Activities
  <2>2. pc' \in [Runs -> Places] /\ callout' \in [Runs -> BOOLEAN]
    BY <1>13, <2>1, StepTyped DEF Relock
  <2> QED
    BY <1>13, <2>2, DepthIsRun DEF Relock, TypeOK, Places
<1>14. CASE HandleMsg
  <2>1. depth > 0 /\ "blocks3" \in Places /\ "timers" \in Places /\ "perform1" \in Places
    BY <1>14 DEF HandleMsg, At, Places, Locked, Unlocked
  <2>2. pc' \in [Runs -> Places] /\ callout' \in [Runs -> BOOLEAN]
    <3>1. CASE Step("blocks3") \/ Step("perform1")
      BY <3>1, <2>1, StepTyped
    <3>2. CASE /\ pc' = [pc EXCEPT ![depth] = "timers"]
               /\ callout' = [callout EXCEPT ![depth] = TRUE]
      BY <3>2, <2>1 DEF TypeOK, Places
    <3> QED
      BY <1>14, <3>1, <3>2 DEF HandleMsg
  <2> QED
    BY <1>14, <2>2 DEF HandleMsg, TypeOK, Places
<1>15. CASE DoSource1
  <2>1. depth > 0 /\ "blocks3" \in Places
    BY <1>15 DEF DoSource1, At, Places, Locked
  <2>2. PICK does \in BOOLEAN : Source1Does(does)
    BY <1>15, Source1DoesOrNot
  <2>3. pc' \in [Runs -> Places] /\ callout' \in [Runs -> BOOLEAN] /\ signaled' \subseteq Sources0
    <3>1. CASE does
      BY <2>2, <3>1 DEF Source1Does, TypeOK, Places
    <3>2. CASE ~does
      BY <2>1, <2>2, <3>2, StepTyped DEF Source1Does, TypeOK
    <3> QED
      BY <3>1, <3>2
  <2>4. depth \in Runs
    BY <2>1, DepthIsRun
  <2>5. handled' \in [Runs -> BOOLEAN]
    BY <2>2, <2>4 DEF Source1Does, HandledBy, TypeOK
  <2>6. served1' \in [Runs -> Nat]
    BY <2>2, <2>4, CountedNat DEF Source1Does, TypeOK
  <2> QED
    BY <1>15, <2>3, <2>5, <2>6 DEF DoSource1, TypeOK, Places
<1>16. CASE Decide
  <2>1. depth > 0 /\ depth \in Runs /\ "top" \in Places
    BY <1>16, DepthIsRun DEF Decide, At, Places, Locked
  <2>2. /\ pc' \in [Runs -> Places] /\ callout' \in [Runs -> BOOLEAN]
        /\ retVal' \in [Runs -> {"none", "HandledSource", "TimedOut", "Stopped", "Finished"}]
        /\ stopped' \in [Runs -> BOOLEAN] /\ modeStopped' \in [Modes -> BOOLEAN]
    <3>1. CASE Return("HandledSource") /\ UNCHANGED <<stopped, modeStopped>>
      BY <3>1, <2>1, ReturnTyped DEF TypeOK
    <3>2. CASE Return("TimedOut") /\ UNCHANGED <<stopped, modeStopped>>
      BY <3>2, <2>1, ReturnTyped DEF TypeOK
    <3>3. CASE ReturnStopped
      BY <3>3, <2>1, ReturnStoppedTyped
    <3>4. CASE Return("Finished") /\ UNCHANGED <<stopped, modeStopped>>
      BY <3>4, <2>1, ReturnTyped DEF TypeOK
    <3>5. CASE Step("top") /\ UNCHANGED <<retVal, stopped, modeStopped>>
      BY <3>5, <2>1, StepTyped DEF TypeOK
    <3> QED
      BY <1>16, <3>1, <3>2, <3>3, <3>4, <3>5 DEF Decide
  <2>3. handled' \in [Runs -> BOOLEAN] /\ poll' \in [Runs -> BOOLEAN]
        /\ live' \in [Runs -> {"none", "wakeUp", "timer"} \cup Sources1]
    BY <1>16, <2>1 DEF Decide, EndOfTurn, TypeOK
  <2> QED
    BY <1>16, <2>2, <2>3 DEF Decide, TypeOK, Places
<1>17. CASE Leave
  <2>1. depth > 0 /\ depth \in Runs /\ "none" \in Places
    BY <1>17, DepthIsRun DEF Leave, At, Places, Locked
  <2>2. depth' \in 0 .. MaxRuns
    BY <1>17, <2>1, ConstantsAssumption DEF Leave, Runs
  <2>3. /\ pc' \in [Runs -> Places] /\ mode' \in [Runs -> Modes \cup {NoMode}]
        /\ term' \in [Runs -> {"never", "later", "due", "zero"}]
        /\ once' \in [Runs -> BOOLEAN] /\ stopped' \in [Runs -> BOOLEAN]
        /\ ignoring' \in [0 .. MaxRuns -> BOOLEAN]
        /\ retVal' \in [Runs -> {"none", "HandledSource", "TimedOut", "Stopped", "Finished"}]
    BY <1>17, <2>1 DEF Leave, TypeOK, Places
  <2>4. served0' \in [Runs -> Nat] /\ served1' \in [Runs -> Nat]
    BY <1>17 DEF Leave, TypeOK
  <2> QED
    BY <1>17, <2>2, <2>3, <2>4 DEF Leave, TypeOK, Places
<1> QED
  BY <1>1, <1>2, <1>3, <1>4, <1>5, <1>6, <1>7, <1>8, <1>9, <1>10, <1>11, <1>12,
     <1>13, <1>14, <1>15, <1>16, <1>17 DEF LoopStep

LEMMA RunTyped ==
    ASSUME NEW m \in Modes, NEW limit \in Limits, NEW only \in Onces,
           TypeOK, Run(m, limit, only)
    PROVE  TypeOK'
<1> USE DEF perRun, frame, counts, locals, detached, loop, items
<1>1. depth + 1 \in Runs /\ depth + 1 \in 0 .. MaxRuns
  BY NextIsRun, ConstantsAssumption DEF Run, Runs, TypeOK
<1>2. Notify("Entry", "start") \in Places
  BY NotifyPlace DEF Activities, Places, Locked
<1>3. limit \in {"never", "later", "due", "zero"} /\ only \in BOOLEAN
  BY ConstantsAssumption
<1>4. /\ pc' \in [Runs -> Places] /\ callout' \in [Runs -> BOOLEAN]
      /\ mode' \in [Runs -> Modes \cup {NoMode}]
      /\ term' \in [Runs -> {"never", "later", "due", "zero"}]
      /\ once' \in [Runs -> BOOLEAN] /\ stopped' \in [Runs -> BOOLEAN]
      /\ ignoring' \in [0 .. MaxRuns -> BOOLEAN]
  BY <1>1, <1>2, <1>3 DEF Run, TypeOK, Places
<1> QED
  BY <1>1, <1>4 DEF Run, TypeOK, Places

LEMMA DoesTyped ==
    ASSUME TypeOK, NEW c \in Callers, NEW j \in Jobs, Does(c, j)
    PROVE  job' \in [Callers -> Jobs]
BY DEF Does, TypeOK

LEMMA ClientTyped ==
    ASSUME NEW c \in Clients, TypeOK, ClientStep(c)
    PROVE  TypeOK'
<1> USE DEF perRun, frame, counts, locals, detached, loop, items
<1>0. c \in Callers
  BY DEF Callers
<1>1. CASE Stop(c)
  BY <1>0, <1>1, DoesTyped, JobKinds DEF Stop, TypeOK
<1>2. ASSUME NEW s \in Sources0, Signal(c, s) PROVE TypeOK'
  <2>1. job' \in [Callers -> Jobs]
    BY <1>0, <1>2, JobKinds, DoesTyped DEF Signal
  <2>2. late' \subseteq Sources0 \X Modes /\ signaled' \subseteq Sources0
    BY <1>2 DEF Signal, TypeOK
  <2> QED
    BY <1>2, <2>1, <2>2 DEF Signal, TypeOK
<1>3. ASSUME NEW b \in Blocks, PerformBlock(c, b) PROVE TypeOK'
  BY <1>0, <1>3, DoesTyped, JobKinds DEF PerformBlock, TypeOK
<1>4. ASSUME NEW m \in Modes, StopMode(c, m) PROVE TypeOK'
  BY <1>0, <1>4, DoesTyped, JobKinds DEF StopMode, TypeOK
<1>5. ASSUME NEW s \in AllSources, SourceInvalidate(c, s) PROVE TypeOK'
  <2>1. (IF \E m \in Modes : s \in sources[m] THEN Removing(s) ELSE Idle) \in Jobs
    BY JobKinds
  <2>2. job' \in [Callers -> Jobs]
    BY <1>0, <1>5, <2>1, DoesTyped DEF SourceInvalidate
  <2>3. late' \subseteq Sources0 \X Modes
    BY <1>5 DEF SourceInvalidate, TypeOK
  <2> QED
    BY <1>5, <2>2, <2>3 DEF SourceInvalidate, TypeOK
<1>6. ASSUME NEW s \in AllSources, RemoveFromRunLoop(c, s) PROVE TypeOK'
  <2>1. job' \in [Callers -> Jobs]
    BY <1>0, <1>6, JobKinds, DoesTyped DEF RemoveFromRunLoop
  <2>2. sources' \in [Modes -> SUBSET (Sources0 \cup Sources1)]
    BY <1>6 DEF RemoveFromRunLoop, TypeOK
  <2> QED
    BY <1>6, <2>1, <2>2 DEF RemoveFromRunLoop, TypeOK
<1>7. ASSUME NEW s \in AllSources, NEW m \in Modes, AddSource(c, s, m) PROVE TypeOK'
  BY <1>0, <1>7, DoesTyped, JobKinds DEF AddSource, TypeOK
<1>8. ASSUME NEW s \in AllSources, NEW m \in Modes, FinishAddSource(c, s, m) PROVE TypeOK'
  <2>1. job' \in [Callers -> Jobs]
    BY <1>0, <1>8, JobKinds, DoesTyped DEF FinishAddSource
  <2>2. sources' \in [Modes -> SUBSET (Sources0 \cup Sources1)]
    BY <1>8 DEF FinishAddSource, TypeOK, AllSources
  <2>3. late' \subseteq Sources0 \X Modes
    <3>1. late' = late \cup ({s} \cap (signaled \ sources[m])) \X {m}
      BY <1>8 DEF FinishAddSource
    <3>2. late \subseteq Sources0 \X Modes /\ signaled \subseteq Sources0
      BY DEF TypeOK
    <3> QED
      BY <3>1, <3>2
  <2> QED
    BY <1>8, <2>1, <2>2, <2>3 DEF FinishAddSource, TypeOK
<1>9. ASSUME NEW s \in AllSources, NEW m \in Modes, RemoveSource(c, s, m) PROVE TypeOK'
  BY <1>9 DEF RemoveSource, TypeOK
<1> QED
  BY <1>1, <1>2, <1>3, <1>4, <1>5, <1>6, <1>7, <1>8, <1>9 DEF ClientStep, AllSources

LEMMA NextTyped == TypeOK /\ [Next]_vars => TypeOK'
<1> SUFFICES ASSUME TypeOK, [Next]_vars PROVE TypeOK'
  OBVIOUS
<1> USE DEF perRun, frame, counts, locals, detached, loop, items
<1>1. CASE UNCHANGED vars
  BY <1>1 DEF vars, TypeOK
<1>2. ASSUME NEW c \in Callers, WakeUp(c) PROVE TypeOK'
  BY <1>2, DoesTyped, JobKinds, ConstantsAssumption DEF WakeUp, SendsWakeUp, TypeOK
<1>3. ASSUME NEW s \in Sources1, Send(s) PROVE TypeOK'
  BY <1>3 DEF Send, TypeOK
<1>4. ASSUME NEW r \in Runs, DeadlinePasses(r) PROVE TypeOK'
  BY <1>4 DEF DeadlinePasses, TypeOK
<1>5. ASSUME NEW r \in Runs, Timeout(r) PROVE TypeOK'
  BY <1>5, DoesTyped, JobKinds DEF Timeout, TypeOK, Callers
<1>6. CASE LoopStep
  BY <1>6, LoopTyped
<1>7. CASE RunAgain
  BY <1>7, RunTyped DEF RunAgain
<1>8. CASE \E c \in Clients : ClientStep(c)
  BY <1>8, ClientTyped
<1> QED
  BY <1>1, <1>2, <1>3, <1>4, <1>5, <1>6, <1>7, <1>8 DEF Next

LEMMA InitTyped == Init => TypeOK
<1> SUFFICES ASSUME Init PROVE TypeOK
  OBVIOUS
<1>1. job \in [Callers -> Jobs]
  BY JobKinds DEF Init
<1>2. pc \in [Runs -> Locked \cup Unlocked] /\ depth \in 0 .. MaxRuns
  BY ConstantsAssumption DEF Init, Locked
<1> QED
  BY <1>1, <1>2 DEF Init, TypeOK

\* Every variable of the loop, its runs and its callers keeps its type.
THEOREM TypeCorrect == Spec => []TypeOK
BY InitTyped, NextTyped, PTL DEF Spec
-----------------------------------------------------------------------------
(* What an action leaves alone. *)

\* A step of the executing run.
Executes ==
    /\ depth \in Runs /\ depth' = depth /\ mode' = mode
    /\ \A r \in Runs : r # depth =>
        /\ pc'[r] = pc[r] /\ callout'[r] = callout[r]
        /\ due'[r] = due[r] /\ held'[r] = held[r] /\ handled'[r] = handled[r]

\* A step of another thread.
LoopRests == UNCHANGED <<depth, pc, callout, mode, due, held, handled>>

LEMMA StepGoes ==
    ASSUME TypeOK, depth > 0, NEW p, Step(p)
    PROVE  /\ depth \in Runs /\ pc'[depth] = p /\ (callout'[depth] <=> p \in Activities)
           /\ \A r \in Runs : r # depth => pc'[r] = pc[r] /\ callout'[r] = callout[r]
BY DepthIsRun DEF TypeOK, Step

LEMMA StepExecutes ==
    ASSUME TypeOK, depth > 0, NEW p, Step(p),
           UNCHANGED <<depth, mode, due, held>>,
           \A r \in Runs : r # depth => handled'[r] = handled[r]
    PROVE  Executes
BY StepGoes DEF Executes

\* A step to a place with nothing detached and no version 0 source at work.
LEMMA PlainStep ==
    ASSUME Shape, Executes, UNCHANGED <<due, held>>, pc[depth] \notin Passes,
           pc'[depth] \notin Passes \cup {"blocks2", "perform"}
    PROVE  Suspended' /\ Unused' /\ Detached' /\ Performed'
<1>1. Suspended' /\ Unused'
  BY DEF Executes, Shape, Suspended, Unused, TypeOK
<1>2. Detached'
  BY DEF Executes, Shape, Detached, Matching
<1>3. Performed'
  <2> SUFFICES ASSUME NEW r \in Runs
               PROVE  /\ pc'[r] \in {"blocks2", "pass2"} => handled'[r]
                      /\ pc'[r] = "perform" /\ callout'[r] => handled'[r]
    BY DEF Performed
  <2>1. CASE r = depth
    BY <2>1 DEF Passes
  <2>2. CASE r # depth
    BY <2>2 DEF Executes, Shape, Performed
  <2> QED
    BY <2>1, <2>2
<1> QED
  BY <1>1, <1>2, <1>3

\* A step of the executing run in general: its own part of the shape is enough.
LEMMA ExecutingStep ==
    ASSUME Shape, Executes,
           \A r \in Runs : r = depth =>
               /\ pc'[r] \notin Passes => due'[r] = {} /\ held'[r] = {}
               /\ Matching(mode[r], held'[r]) = {}
               /\ pc'[r] \in {"blocks2", "pass2"} => handled'[r]
               /\ pc'[r] = "perform" /\ callout'[r] => handled'[r]
    PROVE  Suspended' /\ Unused' /\ Detached' /\ Performed'
<1>1. Suspended' /\ Unused'
  BY DEF Executes, Shape, Suspended, Unused, TypeOK
<1>2. Detached'
  <2> SUFFICES ASSUME NEW r \in Runs
               PROVE  /\ pc'[r] \notin Passes => due'[r] = {} /\ held'[r] = {}
                      /\ Matching(mode[r], held'[r]) = {}
    BY DEF Detached, Executes, Matching
  <2>1. CASE r = depth
    BY <2>1
  <2>2. CASE r # depth
    BY <2>2 DEF Executes, Shape, Detached
  <2> QED
    BY <2>1, <2>2
<1>3. Performed'
  BY DEF Executes, Shape, Performed
<1> QED
  BY <1>1, <1>2, <1>3

LEMMA RestingStep ==
    ASSUME Shape, LoopRests
    PROVE  Suspended' /\ Unused' /\ Detached' /\ Performed'
BY DEF LoopRests, Shape, Suspended, Unused, Detached, Performed, Matching

LEMMA OthersRest ==
    ASSUME NEW c \in Clients, ClientStep(c)
    PROVE  LoopRests
<1> USE DEF LoopRests, perRun, frame, locals, detached, loop, items
<1>1. CASE Stop(c)
  BY <1>1 DEF Stop
<1>2. ASSUME NEW s \in Sources0, Signal(c, s) PROVE LoopRests
  BY <1>2 DEF Signal
<1>3. ASSUME NEW b \in Blocks, PerformBlock(c, b) PROVE LoopRests
  BY <1>3 DEF PerformBlock
<1>4. ASSUME NEW m \in Modes, StopMode(c, m) PROVE LoopRests
  BY <1>4 DEF StopMode
<1>5. ASSUME NEW s \in AllSources, SourceInvalidate(c, s) PROVE LoopRests
  BY <1>5 DEF SourceInvalidate
<1>6. ASSUME NEW s \in AllSources, RemoveFromRunLoop(c, s) PROVE LoopRests
  BY <1>6 DEF RemoveFromRunLoop
<1>7. ASSUME NEW s \in AllSources, NEW m \in Modes,
             AddSource(c, s, m) \/ FinishAddSource(c, s, m) \/ RemoveSource(c, s, m)
      PROVE  LoopRests
  BY <1>7 DEF AddSource, FinishAddSource, RemoveSource
<1> QED
  BY <1>1, <1>2, <1>3, <1>4, <1>5, <1>6, <1>7 DEF ClientStep, AllSources
-----------------------------------------------------------------------------
(* The shape is kept. *)

LEMMA LoopKeepsShape ==
    ASSUME Shape, LoopStep
    PROVE  Suspended' /\ Unused' /\ Detached' /\ Performed'
<1> DEFINE Goal == Suspended' /\ Unused' /\ Detached' /\ Performed'
<1> USE DEF perRun, frame, counts, locals, detached, loop, items
<1>0. TypeOK
  BY DEF Shape
<1>1. CASE Start
  <2>1. depth > 0 /\ pc[depth] = "start" /\ UNCHANGED <<depth, mode, due, held, handled>>
    BY <1>1 DEF Start, At
  <2>2. CASE Step("top")
    <3>1. Executes /\ pc'[depth] = "top"
      BY <1>0, <2>1, <2>2, StepExecutes, StepGoes
    <3> QED
      BY <2>1, <3>1, PlainStep DEF Passes
  <2>3. CASE Step(Notify("Exit", "leave"))
    <3>1. Executes /\ pc'[depth] \in {"Exit", "leave"}
      BY <1>0, <2>1, <2>3, StepExecutes, StepGoes DEF Notify
    <3> QED
      BY <2>1, <3>1, PlainStep DEF Passes
  <2> QED
    BY <1>1, <2>2, <2>3 DEF Start, ReturnStopped, Return
<1>2. CASE Top
  <2>1. depth > 0 /\ pc[depth] = "top" /\ UNCHANGED <<depth, mode, due, held, handled>>
    BY <1>2 DEF Top, At
  <2>2. Step(Notify("BeforeTimers", Notify("BeforeSources", "blocks1")))
    BY <1>2 DEF Top
  <2>3. Executes /\ pc'[depth] \in {"BeforeTimers", "BeforeSources", "blocks1"}
    BY <1>0, <2>1, <2>2, StepExecutes, StepGoes DEF Notify
  <2> QED
    BY <2>1, <2>3, PlainStep DEF Passes
<1>3. CASE CalloutEnds
  <2>1. depth > 0 /\ pc[depth] \in DOMAIN After /\ UNCHANGED <<depth, mode, due, held, handled>>
    BY <1>3 DEF CalloutEnds
  <2>2. Step(After[pc[depth]])
    BY <1>3 DEF CalloutEnds
  <2>3. Executes /\ pc'[depth] = After[pc[depth]]
    BY <1>0, <2>1, <2>2, StepExecutes, StepGoes
  <2>4. pc[depth] \notin Passes
        /\ After[pc[depth]] \notin Passes \cup {"blocks2", "perform"}
    BY <2>1, AfterDomain, AfterPlaces DEF Passes
  <2> QED
    BY <2>1, <2>3, <2>4, PlainStep
<1>4. CASE CalloutReturns
  <2>1. depth \in Runs /\ pc[depth] \in Passes \cup {"perform"}
        /\ UNCHANGED <<depth, pc, mode, due, held, handled>>
        /\ callout' = [callout EXCEPT ![depth] = FALSE]
    BY <1>0, <1>4, DepthIsRun DEF CalloutReturns
  <2>2. Executes /\ ~callout'[depth]
    BY <1>0, <2>1 DEF Executes, TypeOK
  <2> QED
    BY <2>1, <2>2, ExecutingStep DEF Shape, Detached, Performed
<1>5. ASSUME NEW p \in DOMAIN PassOf, TakeBlocks(p) PROVE Goal
  <2>1. /\ depth \in Runs /\ depth > 0 /\ pc[depth] = p
        /\ UNCHANGED <<depth, mode, handled>>
        /\ due' = [due EXCEPT ![depth] = Matching(mode[depth], queued)]
        /\ held' = [held EXCEPT ![depth] = queued \ Matching(mode[depth], queued)]
        /\ IF queued = {} THEN Step(AfterBlocks[p]) ELSE Step(PassOf[p])
    BY <1>0, <1>5, DepthIsRun DEF TakeBlocks, At
  <2>2. /\ pc'[depth] = IF queued = {} THEN AfterBlocks[p] ELSE PassOf[p]
        /\ \A r \in Runs : r # depth => pc'[r] = pc[r] /\ callout'[r] = callout[r]
    BY <1>0, <2>1, StepGoes
  <2>3. /\ due'[depth] = Matching(mode[depth], queued)
        /\ held'[depth] = queued \ Matching(mode[depth], queued)
        /\ \A r \in Runs : r # depth => due'[r] = due[r] /\ held'[r] = held[r]
    BY <1>0, <2>1 DEF TypeOK
  <2>4. Executes
    BY <2>1, <2>2, <2>3 DEF Executes
  <2>5. Matching(mode[depth], held'[depth]) = {}
    BY <2>3 DEF Matching
  <2>6. pc'[depth] \notin Passes => due'[depth] = {} /\ held'[depth] = {}
    BY <2>2, <2>3, PassDomain, PassPlaces, MatchingSubset DEF Passes
  <2>7. pc'[depth] \in {"blocks2", "pass2"} => handled[depth]
    BY <2>1, <2>2, PassDomain, PassPlaces DEF Shape, Performed
  <2>8. pc'[depth] # "perform"
    BY <2>2, PassDomain, PassPlaces
  <2> QED
    BY <2>1, <2>4, <2>5, <2>6, <2>7, <2>8, ExecutingStep
<1>6. ASSUME NEW p \in DOMAIN PassOf, RelinkBlocks(p) PROVE Goal
  <2>1. /\ depth \in Runs /\ depth > 0 /\ due[depth] = {}
        /\ UNCHANGED <<depth, mode, handled, due>>
        /\ held' = [held EXCEPT ![depth] = {}]
        /\ Step(AfterBlocks[p])
    BY <1>0, <1>6, DepthIsRun DEF RelinkBlocks, At
  <2>2. /\ pc'[depth] = AfterBlocks[p]
        /\ \A r \in Runs : r # depth => pc'[r] = pc[r] /\ callout'[r] = callout[r]
    BY <1>0, <2>1, StepGoes
  <2>3. /\ held'[depth] = {}
        /\ \A r \in Runs : r # depth => held'[r] = held[r]
    BY <1>0, <2>1 DEF TypeOK
  <2>4. Executes
    BY <2>1, <2>2, <2>3 DEF Executes
  <2>5. Matching(mode[depth], held'[depth]) = {}
    BY <2>3 DEF Matching
  <2>6. pc'[depth] \notin {"blocks2", "pass2", "perform"}
    BY <2>2, PassDomain, PassPlaces
  <2> QED
    BY <2>1, <2>3, <2>4, <2>5, <2>6, ExecutingStep
<1>7. ASSUME NEW b \in Blocks, RunBlock(b) PROVE Goal
  <2>1. /\ depth \in Runs /\ pc[depth] \in Passes
        /\ UNCHANGED <<depth, pc, mode, handled, held>>
        /\ due' = [due EXCEPT ![depth] = @ \ {b}]
        /\ callout' = [callout EXCEPT ![depth] = TRUE]
    BY <1>0, <1>7, DepthIsRun DEF RunBlock
  <2>2. Executes
    BY <1>0, <2>1 DEF Executes, TypeOK
  <2>3. pc[depth] # "perform"
    BY <2>1 DEF Passes
  <2> QED
    BY <2>1, <2>2, <2>3, ExecutingStep DEF Shape, Detached, Performed
<1>8. CASE CollectSources0
  <2>1. /\ depth \in Runs /\ depth > 0 /\ pc[depth] = "sources"
        /\ UNCHANGED <<depth, mode, due, held>>
        /\ handled' = [handled EXCEPT ![depth] = FALSE]
        /\ Step(IF Ready(mode[depth]) = {} THEN "poll" ELSE "perform")
    BY <1>0, <1>8, DepthIsRun DEF CollectSources0, At
  <2>2. \A r \in Runs : r # depth => handled'[r] = handled[r]
    BY <1>0, <2>1 DEF TypeOK
  <2>3. Executes
    BY <1>0, <2>1, <2>2, StepExecutes
  <2>4. pc'[depth] \in {"poll", "perform"} /\ ~callout'[depth]
    BY <1>0, <2>1, StepGoes DEF Activities
  <2>5. due[depth] = {} /\ held[depth] = {}
    BY <2>1 DEF Shape, Detached, Passes
  <2>6. Matching(mode[depth], held[depth]) = {}
    BY <2>1 DEF Shape, Detached
  <2> QED
    BY <2>1, <2>3, <2>4, <2>5, <2>6, ExecutingStep
<1>9. CASE Sources0Done
  <2>1. /\ depth \in Runs /\ depth > 0 /\ pc[depth] = "perform"
        /\ UNCHANGED <<depth, mode, due, held, handled>>
        /\ Step(IF handled[depth] THEN "blocks2" ELSE "poll")
    BY <1>0, <1>9, DepthIsRun DEF Sources0Done, At
  <2>2. Executes
    BY <1>0, <2>1, StepExecutes
  <2>3. pc'[depth] = IF handled[depth] THEN "blocks2" ELSE "poll"
    BY <1>0, <2>1, StepGoes
  <2>4. due[depth] = {} /\ held[depth] = {}
    BY <2>1 DEF Shape, Detached, Passes
  <2>5. Matching(mode[depth], held[depth]) = {}
    BY <2>1 DEF Shape, Detached
  <2> QED
    BY <2>1, <2>2, <2>3, <2>4, <2>5, ExecutingStep
<1>10. ASSUME NEW s \in Sources0, DoSource0(s) PROVE Goal
  <2>1. /\ depth \in Runs /\ pc[depth] = "perform"
        /\ UNCHANGED <<depth, pc, mode, due, held>>
    BY <1>0, <1>10, DepthIsRun DEF DoSource0, At
  <2>2. /\ callout'[depth] => handled'[depth]
        /\ \A r \in Runs : r # depth => /\ handled'[r] = handled[r]
                                        /\ callout'[r] = callout[r]
    BY <1>0, <1>10, <2>1 DEF DoSource0, HandledBy, TypeOK
  <2>3. Executes
    BY <2>1, <2>2 DEF Executes
  <2>4. due[depth] = {} /\ held[depth] = {}
    BY <2>1 DEF Shape, Detached, Passes
  <2>5. Matching(mode[depth], held[depth]) = {}
    BY <2>1 DEF Shape, Detached
  <2> QED
    BY <2>1, <2>2, <2>3, <2>4, <2>5, ExecutingStep
<1>11. CASE GoToSleep
  <2>1. depth > 0 /\ pc[depth] = "poll" /\ UNCHANGED <<depth, mode, due, held, handled>>
        /\ \/ Step("asleep") \/ Step(Notify("BeforeWaiting", "asleep"))
    BY <1>11 DEF GoToSleep, At
  <2>2. Executes /\ pc'[depth] \in {"BeforeWaiting", "asleep"}
    BY <1>0, <2>1, StepExecutes, StepGoes DEF Notify
  <2> QED
    BY <2>1, <2>2, PlainStep DEF Passes
<1>12. ASSUME NEW port \in {"none", "wakeUp", "timer"} \cup Sources1, ServiceMachPort(port)
       PROVE Goal
  <2>1. depth > 0 /\ pc[depth] = "asleep" /\ UNCHANGED <<depth, mode, due, held, handled>>
        /\ Step("woken")
    BY <1>12 DEF ServiceMachPort, At
  <2>2. Executes /\ pc'[depth] = "woken"
    BY <1>0, <2>1, StepExecutes, StepGoes
  <2> QED
    BY <2>1, <2>2, PlainStep DEF Passes
<1>13. CASE Relock
  <2>1. depth > 0 /\ pc[depth] = "woken" /\ UNCHANGED <<depth, mode, due, held, handled>>
        /\ \/ Step("handle") \/ Step(Notify("AfterWaiting", "handle"))
    BY <1>13 DEF Relock, At
  <2>2. Executes /\ pc'[depth] \in {"AfterWaiting", "handle"}
    BY <1>0, <2>1, StepExecutes, StepGoes DEF Notify
  <2> QED
    BY <2>1, <2>2, PlainStep DEF Passes
<1>14. CASE HandleMsg
  <2>1. depth \in Runs /\ depth > 0 /\ pc[depth] = "handle"
        /\ UNCHANGED <<depth, mode, due, held, handled>>
    BY <1>0, <1>14, DepthIsRun DEF HandleMsg, At
  <2>2. Executes /\ pc'[depth] \in {"blocks3", "timers", "perform1"}
    <3>1. CASE Step("blocks3") \/ Step("perform1")
      BY <1>0, <2>1, <3>1, StepExecutes, StepGoes
    <3>2. CASE /\ pc' = [pc EXCEPT ![depth] = "timers"]
               /\ callout' = [callout EXCEPT ![depth] = TRUE]
      BY <1>0, <2>1, <3>2 DEF Executes, TypeOK
    <3> QED
      BY <1>14, <3>1, <3>2 DEF HandleMsg
  <2> QED
    BY <2>1, <2>2, PlainStep DEF Passes
<1>15. CASE DoSource1
  <2>1. depth \in Runs /\ depth > 0 /\ pc[depth] = "perform1"
        /\ UNCHANGED <<depth, mode, due, held>>
    BY <1>0, <1>15, DepthIsRun DEF DoSource1, At
  <2>2. \A r \in Runs : r # depth => handled'[r] = handled[r]
    BY <1>0, <1>15 DEF DoSource1, TypeOK
  <2>3. Executes /\ pc'[depth] \in {"blocks3", "perform1"}
    <3>1. CASE Step("blocks3")
      BY <1>0, <2>1, <2>2, <3>1, StepExecutes, StepGoes
    <3>2. CASE callout' = [callout EXCEPT ![depth] = TRUE] /\ UNCHANGED pc
      BY <1>0, <2>1, <2>2, <3>2 DEF Executes, TypeOK
    <3> QED
      BY <1>15, <3>1, <3>2 DEF DoSource1
  <2> QED
    BY <2>1, <2>3, PlainStep DEF Passes
<1>16. CASE Decide
  <2>1. depth \in Runs /\ depth > 0 /\ pc[depth] = "decide"
        /\ UNCHANGED <<depth, mode, due, held>>
    BY <1>0, <1>16, DepthIsRun DEF Decide, At
  <2>2. \A r \in Runs : r # depth => handled'[r] = handled[r]
    BY <1>0, <1>16 DEF Decide, EndOfTurn, TypeOK
  <2>3. Step("top") \/ Step(Notify("Exit", "leave"))
    BY <1>16 DEF Decide, ReturnStopped, Return
  <2>4. Executes /\ pc'[depth] \in {"top", "Exit", "leave"}
    BY <1>0, <2>1, <2>2, <2>3, StepExecutes, StepGoes DEF Notify
  <2> QED
    BY <2>1, <2>4, PlainStep DEF Passes
<1>17. CASE Leave
  <2>1. /\ depth \in Runs /\ pc[depth] = "leave" /\ depth' = depth - 1
        /\ pc' = [pc EXCEPT ![depth] = "none"]
        /\ mode' = [mode EXCEPT ![depth] = NoMode]
        /\ UNCHANGED <<callout, due, held, handled>>
    BY <1>0, <1>17, DepthIsRun DEF Leave, At
  <2>2. Suspended'
    BY <1>0, <2>1 DEF Shape, Suspended, TypeOK, Runs
  <2>3. Unused'
    BY <1>0, <2>1 DEF Shape, Unused, TypeOK, Runs
  <2>4. Performed'
    BY <1>0, <2>1 DEF Shape, Performed, TypeOK
  <2>5. Detached'
    <3> SUFFICES ASSUME NEW r \in Runs
                 PROVE  /\ pc'[r] \notin Passes => due[r] = {} /\ held[r] = {}
                        /\ Matching(mode'[r], held[r]) = {}
      BY <2>1 DEF Detached, Matching
    <3>1. CASE r = depth
      <4>1. due[r] = {} /\ held[r] = {}
        BY <2>1, <3>1 DEF Shape, Detached, Passes
      <4> QED
        BY <4>1 DEF Matching
    <3>2. CASE r # depth
      BY <1>0, <2>1, <3>2 DEF Shape, Detached, TypeOK
    <3> QED
      BY <3>1, <3>2
  <2> QED
    BY <2>2, <2>3, <2>4, <2>5
<1> QED
  BY <1>1, <1>2, <1>3, <1>4, <1>5, <1>6, <1>7, <1>8, <1>9, <1>10, <1>11, <1>12,
     <1>13, <1>14, <1>15, <1>16, <1>17 DEF LoopStep

LEMMA RunKeepsShape ==
    ASSUME NEW m \in Modes, NEW limit \in Limits, NEW only \in Onces,
           Shape, Run(m, limit, only)
    PROVE  Suspended' /\ Unused' /\ Detached' /\ Performed'
<1> USE DEF perRun, frame, counts, locals, detached, loop, items
<1>0. TypeOK /\ depth \in Nat
  BY DEF Shape, TypeOK
<1>1. /\ depth + 1 \in Runs /\ depth' = depth + 1
      /\ mode' = [mode EXCEPT ![depth + 1] = m]
      /\ pc' = [pc EXCEPT ![depth + 1] = Notify("Entry", "start")]
      /\ callout' = [callout EXCEPT ![depth + 1] = "Entry" \in Watched]
      /\ UNCHANGED <<due, held, handled>>
      /\ depth > 0 => callout[depth] /\ pc[depth] \in NestIn
  BY <1>0, NextIsRun DEF Run
<1>2. /\ pc'[depth + 1] \in {"Entry", "start"} /\ mode'[depth + 1] = m
      /\ \A r \in Runs : r # depth + 1 =>
            pc'[r] = pc[r] /\ callout'[r] = callout[r] /\ mode'[r] = mode[r]
  BY <1>0, <1>1 DEF TypeOK, Notify
<1>3. Suspended'
  <2>1. ASSUME NEW r \in Runs, r < depth + 1
        PROVE  callout'[r] /\ pc'[r] \in NestIn
    <3>1. r # depth + 1 /\ (r < depth \/ (r = depth /\ depth > 0))
      BY <1>0, <2>1 DEF Runs
    <3> QED
      BY <1>1, <1>2, <3>1 DEF Shape, Suspended
  <2>2. ASSUME NEW r \in Runs, r <= depth + 1 PROVE mode'[r] \in Modes
    <3>1. r = depth + 1 \/ (r # depth + 1 /\ r <= depth)
      BY <1>0, <2>2 DEF Runs
    <3> QED
      BY <1>2, <3>1 DEF Shape, Suspended
  <2> QED
    BY <1>1, <2>1, <2>2 DEF Suspended
<1>4. Unused'
  <2> SUFFICES ASSUME NEW r \in Runs, r > depth + 1 PROVE pc'[r] = "none"
    BY <1>1 DEF Unused
  <2>1. r # depth + 1 /\ r > depth
    BY <1>0 DEF Runs
  <2> QED
    BY <1>2, <2>1 DEF Shape, Unused
<1>5. pc[depth + 1] = "none"
  BY <1>0, <1>1 DEF Shape, Unused
<1>6. Detached'
  <2> SUFFICES ASSUME NEW r \in Runs
               PROVE  /\ pc'[r] \notin Passes => due[r] = {} /\ held[r] = {}
                      /\ Matching(mode'[r], held[r]) = {}
    BY <1>1 DEF Detached, Matching
  <2>1. CASE r = depth + 1
    <3>1. due[r] = {} /\ held[r] = {}
      BY <1>5, <2>1 DEF Shape, Detached, Passes
    <3> QED
      BY <3>1 DEF Matching
  <2>2. CASE r # depth + 1
    BY <1>2, <2>2 DEF Shape, Detached
  <2> QED
    BY <2>1, <2>2
<1>7. Performed'
  BY <1>1, <1>2 DEF Shape, Performed
<1> QED
  BY <1>3, <1>4, <1>6, <1>7

LEMMA NextKeepsShape == Shape /\ [Next]_vars => Shape'
<1> SUFFICES ASSUME Shape, [Next]_vars PROVE Shape'
  OBVIOUS
<1> USE DEF perRun, frame, counts, locals, detached, loop, items
<1>1. TypeOK'
  BY NextTyped DEF Shape
<1>2. CASE UNCHANGED vars
  BY <1>1, <1>2, RestingStep DEF vars, LoopRests, Shape
<1>3. ASSUME NEW c \in Callers, WakeUp(c) PROVE Shape'
  BY <1>1, <1>3, RestingStep DEF WakeUp, LoopRests, Shape
<1>4. ASSUME NEW s \in Sources1, Send(s) PROVE Shape'
  BY <1>1, <1>4, RestingStep DEF Send, LoopRests, Shape
<1>5. ASSUME NEW r \in Runs, DeadlinePasses(r) \/ Timeout(r) PROVE Shape'
  BY <1>1, <1>5, RestingStep DEF DeadlinePasses, Timeout, LoopRests, Shape
<1>6. CASE LoopStep
  BY <1>1, <1>6, LoopKeepsShape DEF Shape
<1>7. CASE RunAgain
  BY <1>1, <1>7, RunKeepsShape DEF RunAgain, Shape
<1>8. CASE \E c \in Clients : ClientStep(c)
  BY <1>1, <1>8, OthersRest, RestingStep DEF Shape
<1> QED
  BY <1>2, <1>3, <1>4, <1>5, <1>6, <1>7, <1>8 DEF Next

LEMMA InitShape == Init => Shape
<1> SUFFICES ASSUME Init PROVE Shape
  OBVIOUS
<1>1. Suspended /\ Unused
  BY DEF Init, Suspended, Unused, Runs
<1>2. Detached /\ Performed
  BY DEF Init, Detached, Performed, Matching
<1> QED
  BY <1>1, <1>2, InitTyped DEF Shape

\* What holds of the stack of runs: the suspended ones are in callouts, and a
\* run has blocks detached only in the middle of __CFRunLoopDoBlocks.
THEOREM StackShape == Spec => []Shape
BY InitShape, NextKeepsShape, PTL DEF Spec
-----------------------------------------------------------------------------
(* No block disappears. *)

IsKnown(b) == b \in queued \/ \E r \in Runs : b \in due[r] \cup held[r]

LEMMA KnownStays ==
    ASSUME UNCHANGED <<due, held>>, queued \subseteq queued', NEW b, IsKnown(b)
    PROVE  IsKnown(b)'
BY DEF IsKnown

LEMMA TakeKeepsBlocks ==
    ASSUME Shape, NEW p \in DOMAIN PassOf, TakeBlocks(p), NEW b, IsKnown(b)
    PROVE  IsKnown(b)'
<1>1. /\ depth \in Runs /\ pc[depth] \notin Passes
      /\ due' = [due EXCEPT ![depth] = Matching(mode[depth], queued)]
      /\ held' = [held EXCEPT ![depth] = queued \ Matching(mode[depth], queued)]
  BY DepthIsRun, PassDomain DEF TakeBlocks, At, Passes, Shape
<1>2. due[depth] = {} /\ held[depth] = {}
  BY <1>1 DEF Shape, Detached
<1>3. /\ due'[depth] = Matching(mode[depth], queued)
      /\ held'[depth] = queued \ Matching(mode[depth], queued)
      /\ \A r \in Runs : r # depth => due'[r] = due[r] /\ held'[r] = held[r]
  BY <1>1 DEF Shape, TypeOK
<1> QED
  BY <1>1, <1>2, <1>3 DEF IsKnown

LEMMA RelinkKeepsBlocks ==
    ASSUME Shape, NEW p \in DOMAIN PassOf, RelinkBlocks(p), NEW b, IsKnown(b)
    PROVE  IsKnown(b)'
<1>1. /\ depth \in Runs /\ due' = due /\ queued' = queued \cup held[depth]
      /\ held' = [held EXCEPT ![depth] = {}]
  BY DepthIsRun DEF RelinkBlocks, Relinked, At, Shape
<1>2. \A r \in Runs : r # depth => held'[r] = held[r]
  BY <1>1 DEF Shape, TypeOK
<1> QED
  BY <1>1, <1>2 DEF IsKnown

LEMMA RunKeepsOtherBlocks ==
    ASSUME Shape, NEW d \in Blocks, RunBlock(d), NEW b, IsKnown(b), ~IsKnown(b)'
    PROVE  depth > 0 /\ b \in due[depth] /\ ~callout[depth] /\ callout'[depth]
<1>1. /\ depth \in Runs /\ depth > 0 /\ ~callout[depth] /\ d \in due[depth]
      /\ due' = [due EXCEPT ![depth] = @ \ {d}]
      /\ callout' = [callout EXCEPT ![depth] = TRUE]
      /\ UNCHANGED <<held, queued>>
  BY DepthIsRun DEF RunBlock, Shape, loop
<1>2. /\ due'[depth] = due[depth] \ {d} /\ callout'[depth]
      /\ \A r \in Runs : r # depth => due'[r] = due[r]
  BY <1>1 DEF Shape, TypeOK
<1>3. b = d
  BY <1>1, <1>2 DEF IsKnown
<1> QED
  BY <1>1, <1>2, <1>3

LEMMA OthersKeepBlocks ==
    ASSUME Next, NEW b, IsKnown(b),
           ~(\E p \in DOMAIN PassOf : TakeBlocks(p) \/ RelinkBlocks(p)),
           ~(\E d \in Blocks : RunBlock(d))
    PROVE  IsKnown(b)'
<1> USE DEF perRun, frame, counts, locals, detached, loop, items
<1> SUFFICES UNCHANGED <<due, held>> /\ queued \subseteq queued'
  BY KnownStays
<1>1. CASE Start \/ Top \/ CalloutEnds \/ CalloutReturns
  BY <1>1 DEF Start, Top, CalloutEnds, CalloutReturns
<1>2. CASE CollectSources0 \/ Sources0Done \/ GoToSleep \/ Relock \/ HandleMsg
           \/ DoSource1 \/ Decide \/ Leave
  BY <1>2 DEF CollectSources0, Sources0Done, GoToSleep, Relock, HandleMsg, DoSource1,
     Decide, Leave
<1>3. CASE \E s \in Sources0 : DoSource0(s)
  BY <1>3 DEF DoSource0
<1>4. CASE \E port \in {"none", "wakeUp", "timer"} \cup Sources1 : ServiceMachPort(port)
  BY <1>4 DEF ServiceMachPort
<1>5. CASE RunAgain
  BY <1>5 DEF RunAgain, Run
<1>6. ASSUME NEW c \in Clients, ClientStep(c)
      PROVE  UNCHANGED <<due, held>> /\ queued \subseteq queued'
  <2>1. UNCHANGED <<due, held>>
    BY <1>6, OthersRest DEF LoopRests
  <2>2. CASE Stop(c)
    BY <2>1, <2>2 DEF Stop
  <2>3. CASE \E s \in Sources0 : Signal(c, s)
    BY <2>1, <2>3 DEF Signal
  <2>4. CASE \E d \in Blocks : PerformBlock(c, d)
    BY <2>1, <2>4 DEF PerformBlock
  <2>5. CASE \E m \in Modes : StopMode(c, m)
    BY <2>1, <2>5 DEF StopMode
  <2>6. CASE \E s \in AllSources : SourceInvalidate(c, s) \/ RemoveFromRunLoop(c, s)
    BY <2>1, <2>6 DEF SourceInvalidate, RemoveFromRunLoop
  <2>7. CASE \E s \in AllSources, m \in Modes :
                AddSource(c, s, m) \/ FinishAddSource(c, s, m) \/ RemoveSource(c, s, m)
    BY <2>1, <2>7 DEF AddSource, FinishAddSource, RemoveSource
  <2> QED
    BY <1>6, <2>2, <2>3, <2>4, <2>5, <2>6, <2>7 DEF ClientStep, AllSources
<1>7. CASE \E c \in Callers : WakeUp(c)
  BY <1>7 DEF WakeUp
<1>8. CASE \E s \in Sources1 : Send(s)
  BY <1>8 DEF Send
<1>9. CASE \E r \in Runs : DeadlinePasses(r) \/ Timeout(r)
  BY <1>9 DEF DeadlinePasses, Timeout
<1> QED
  BY <1>1, <1>2, <1>3, <1>4, <1>5, <1>6, <1>7, <1>8, <1>9 DEF Next, LoopStep

\* A block queued with CFRunLoopPerformBlock never disappears: whatever runs
\* are nested and in whatever modes, it leaves __CFRunLoopDoBlocks by being
\* called or by being put back.
THEOREM NoBlockEverLost == Spec => NoBlockLost
<1>1. ASSUME Shape, [Next]_vars, NEW b, IsKnown(b), ~IsKnown(b)'
      PROVE  depth > 0 /\ b \in due[depth] /\ ~callout[depth] /\ callout'[depth]
  <2>1. CASE UNCHANGED vars
    BY <1>1, <2>1, KnownStays DEF vars, detached, loop
  <2>2. CASE Next
    BY <1>1, <2>2, TakeKeepsBlocks, RelinkKeepsBlocks, RunKeepsOtherBlocks,
       OthersKeepBlocks
  <2> QED
    BY <1>1, <2>1, <2>2
<1>2. ASSUME Shape, [Next]_vars
      PROVE  [\A b \in Known \ Known' : /\ depth > 0 /\ b \in due[depth]
                                        /\ ~callout[depth] /\ callout'[depth]]_vars
  <2> SUFFICES ASSUME NEW b \in Known \ Known'
               PROVE  depth > 0 /\ b \in due[depth] /\ ~callout[depth] /\ callout'[depth]
    OBVIOUS
  <2>1. IsKnown(b) /\ ~IsKnown(b)'
    BY DEF IsKnown, Known
  <2> QED
    BY <1>1, <1>2, <2>1
<1> QED
  BY <1>2, StackShape, PTL DEF Spec, NoBlockLost
-----------------------------------------------------------------------------
(* A run that returns after one source. *)

\* The places of a turn before it looks at the sources, those where no port's
\* source has been performed, and those with one source at most behind them.
NoneYet == {"Entry", "start", "top", "BeforeTimers", "BeforeSources", "blocks1",
            "pass1", "sources"}
NoPort  == {"perform", "blocks2", "pass2", "poll", "BeforeWaiting", "asleep", "woken",
            "AfterWaiting", "handle", "timers"}
Turn    == NoPort \cup {"perform1", "blocks3", "pass3", "decide"}

\* What a run that returns after one source has performed, by where it is: until
\* the turn is over sourceHandledThisLoop tells, and then the result.
OnceAt(r) ==
    /\ pc[r] = "none" => ~once[r]
    /\ pc[r] \notin {"Exit", "leave"} => retVal[r] = "none"
    /\ ~once[r] => served0[r] = 0 /\ served1[r] = 0
    /\ served0[r] \in {0, 1} /\ served1[r] \in {0, 1}
    /\ pc[r] \in NoneYet => served0[r] = 0 /\ served1[r] = 0
    /\ pc[r] \in NoPort => served1[r] = 0
    /\ pc[r] = "perform1" /\ ~callout[r] => served1[r] = 0
    /\ once[r] /\ pc[r] \in Turn => (handled[r] <=> served0[r] = 1 \/ served1[r] = 1)
    /\ once[r] /\ pc[r] \in {"Exit", "leave"} =>
          (retVal[r] = "HandledSource" <=> served0[r] = 1 \/ served1[r] = 1)

OnceInv == \A r \in Runs : OnceAt(r)

LEMMA OnceRests ==
    ASSUME NEW r \in Runs, OnceAt(r),
           pc'[r] = pc[r], callout'[r] = callout[r], once'[r] = once[r],
           handled'[r] = handled[r], retVal'[r] = retVal[r],
           served0'[r] = served0[r], served1'[r] = served1[r]
    PROVE  OnceAt(r)'
BY DEF OnceAt

\* A step that performs nothing and neither begins nor ends what a turn counts.
LEMMA OnceGoesOn ==
    ASSUME TypeOK, OnceInv, depth > 0, NEW p, Step(p),
           UNCHANGED <<once, handled, retVal, served0, served1>>,
           \/ pc[depth] \in NoneYet /\ p \in NoneYet
           \/ pc[depth] \in NoPort /\ p \in NoPort \cup {"perform1"}
           \/ pc[depth] \in Turn /\ p \in {"blocks3", "pass3", "decide"}
           \/ pc[depth] = "Exit" /\ p = "leave"
    PROVE  OnceInv'
<1>1. /\ depth \in Runs /\ pc'[depth] = p /\ (p = "perform1" => ~callout'[depth])
      /\ \A r \in Runs : r # depth => pc'[r] = pc[r] /\ callout'[r] = callout[r]
  BY StepGoes DEF Activities
<1> SUFFICES ASSUME NEW r \in Runs PROVE OnceAt(r)'
  BY DEF OnceInv
<1>2. OnceAt(r)
  BY DEF OnceInv
<1>3. CASE r # depth
  BY <1>1, <1>2, <1>3, OnceRests
<1>4. CASE r = depth
  BY <1>1, <1>2, <1>4 DEF OnceAt, NoneYet, NoPort, Turn
<1> QED
  BY <1>3, <1>4

\* A run that ends with result v: in its turn, or before it has begun one.
LEMMA OnceReturns ==
    ASSUME TypeOK, OnceInv, depth > 0, NEW v, v # "none", Return(v),
           UNCHANGED <<once, served0, served1>>,
           \A r \in Runs : r # depth => handled'[r] = handled[r],
           \/ pc[depth] \in NoneYet /\ v # "HandledSource"
           \/ pc[depth] = "decide" /\ (v = "HandledSource" <=> HandledEnough)
    PROVE  OnceInv'
<1>1. /\ depth \in Runs /\ pc'[depth] \in {"Exit", "leave"}
      /\ \A r \in Runs : r # depth => pc'[r] = pc[r] /\ callout'[r] = callout[r]
  BY StepGoes DEF Return, Notify
<1>2. /\ retVal'[depth] = v
      /\ \A r \in Runs : r # depth => retVal'[r] = retVal[r]
  BY <1>1 DEF Return, TypeOK
<1> SUFFICES ASSUME NEW r \in Runs PROVE OnceAt(r)'
  BY DEF OnceInv
<1>3. OnceAt(r)
  BY DEF OnceInv
<1>4. CASE r # depth
  BY <1>1, <1>2, <1>3, <1>4, OnceRests
<1>5. CASE r = depth
  BY <1>1, <1>2, <1>3, <1>5 DEF OnceAt, NoneYet, NoPort, Turn, HandledEnough
<1> QED
  BY <1>4, <1>5

\* A source has been tried, and performed or not.
LEMMA OnceCounts ==
    ASSUME NEW n \in {0, 1}, NEW does \in BOOLEAN, once[depth] => n = 0
    PROVE  /\ Counted(n, does) \in {0, 1}
           /\ ~once[depth] => Counted(n, does) = n
           /\ once[depth] => (Counted(n, does) = 1 <=> does)
BY DEF Counted

LEMMA OnceSource0 ==
    ASSUME Shape, OnceInv, NEW s \in Sources0, DoSource0(s)
    PROVE  OnceInv'
<1> USE DEF perRun, frame, counts, locals, detached, loop, items
<1>0. TypeOK /\ depth \in Runs /\ pc[depth] = "perform"
      /\ UNCHANGED <<pc, once, retVal, served1>>
  BY DepthIsRun DEF Shape, DoSource0, At
<1>1. PICK does \in BOOLEAN :
          /\ handled' = [handled EXCEPT ![depth] = HandledBy(does)]
          /\ callout' = [callout EXCEPT ![depth] = does]
          /\ served0' = [served0 EXCEPT ![depth] = Counted(@, does)]
  BY DEF DoSource0
<1>2. /\ handled'[depth] = HandledBy(does) /\ served0'[depth] = Counted(served0[depth], does)
      /\ \A r \in Runs : r # depth =>
            handled'[r] = handled[r] /\ callout'[r] = callout[r] /\ served0'[r] = served0[r]
  BY <1>0, <1>1 DEF TypeOK
<1>3. ~HandledEnough
  BY DEF DoSource0, MoreSources
<1> SUFFICES ASSUME NEW r \in Runs PROVE OnceAt(r)'
  BY DEF OnceInv
<1>4. OnceAt(r)
  BY DEF OnceInv
<1>5. CASE r # depth
  BY <1>0, <1>2, <1>4, <1>5, OnceRests
<1>6. CASE r = depth
  <2>1. served0[depth] \in {0, 1} /\ (~once[depth] => served0[depth] = 0)
        /\ (once[depth] => ~handled[depth] /\ served0[depth] = 0 /\ served1[depth] = 0)
    BY <1>0, <1>3, <1>4, <1>6 DEF OnceAt, NoPort, Turn, HandledEnough
  <2>2. /\ served0'[depth] \in {0, 1} /\ (~once[depth] => served0'[depth] = 0)
        /\ once[depth] => (served0'[depth] = 1 <=> does)
    BY <1>2, <2>1, OnceCounts
  <2>3. once[depth] => (handled'[depth] <=> does)
    BY <1>2, <2>1 DEF HandledBy
  <2> QED
    BY <1>0, <1>4, <1>6, <2>1, <2>2, <2>3 DEF OnceAt, NoneYet, NoPort, Turn
<1> QED
  BY <1>5, <1>6

LEMMA OnceSource1 ==
    ASSUME Shape, OnceInv, DoSource1
    PROVE  OnceInv'
<1> USE DEF perRun, frame, counts, locals, detached, loop, items
<1>0. TypeOK /\ depth \in Runs /\ depth > 0 /\ pc[depth] = "perform1" /\ ~callout[depth]
      /\ UNCHANGED <<once, retVal, served0>>
  BY DepthIsRun DEF Shape, DoSource1, At
<1>1. PICK does \in BOOLEAN : Source1Does(does)
  BY Source1DoesOrNot
<1>2. /\ handled'[depth] = HandledBy(does) /\ served1'[depth] = Counted(served1[depth], does)
      /\ \A r \in Runs : r # depth => handled'[r] = handled[r] /\ served1'[r] = served1[r]
  BY <1>0, <1>1 DEF Source1Does, TypeOK
<1>3. /\ pc'[depth] = "blocks3" \/ (pc'[depth] = "perform1" /\ callout'[depth])
      /\ \A r \in Runs : r # depth => pc'[r] = pc[r] /\ callout'[r] = callout[r]
  <2>1. CASE does
    BY <1>0, <1>1, <2>1 DEF Source1Does, TypeOK
  <2>2. CASE ~does
    BY <1>0, <1>1, <2>2, StepGoes DEF Source1Does
  <2> QED
    BY <2>1, <2>2
<1> SUFFICES ASSUME NEW r \in Runs PROVE OnceAt(r)'
  BY DEF OnceInv
<1>4. OnceAt(r)
  BY DEF OnceInv
<1>5. CASE r # depth
  BY <1>0, <1>2, <1>3, <1>4, <1>5, OnceRests
<1>6. CASE r = depth
  <2>1. /\ served1[depth] = 0 /\ served0[depth] \in {0, 1}
        /\ ~once[depth] => served0[depth] = 0
        /\ once[depth] => (handled[depth] <=> served0[depth] = 1)
    BY <1>0, <1>4, <1>6 DEF OnceAt, Turn
  <2>2. /\ served1'[depth] \in {0, 1} /\ (~once[depth] => served1'[depth] = 0)
        /\ once[depth] => (served1'[depth] = 1 <=> does)
    BY <1>2, <2>1, OnceCounts
  <2>3. once[depth] => (handled'[depth] <=> served0[depth] = 1 \/ does)
    BY <1>2, <2>1 DEF HandledBy
  <2> QED
    BY <1>0, <1>3, <1>4, <1>6, <2>1, <2>2, <2>3 DEF OnceAt, NoneYet, NoPort, Turn
<1> QED
  BY <1>5, <1>6

LEMMA OnceCollects ==
    ASSUME Shape, OnceInv, CollectSources0
    PROVE  OnceInv'
<1> USE DEF perRun, frame, counts, locals, detached, loop, items
<1>1. /\ TypeOK /\ depth \in Runs /\ depth > 0 /\ pc[depth] = "sources"
      /\ UNCHANGED <<once, retVal, served0, served1>>
      /\ handled' = [handled EXCEPT ![depth] = FALSE]
      /\ Step(IF Ready(mode[depth]) = {} THEN "poll" ELSE "perform")
  BY DepthIsRun DEF Shape, CollectSources0, At
<1>2. /\ pc'[depth] \in {"poll", "perform"}
      /\ \A r \in Runs : r # depth => pc'[r] = pc[r] /\ callout'[r] = callout[r]
  BY <1>1, StepGoes
<1>3. ~handled'[depth] /\ \A r \in Runs : r # depth => handled'[r] = handled[r]
  BY <1>1 DEF TypeOK
<1> SUFFICES ASSUME NEW r \in Runs PROVE OnceAt(r)'
  BY DEF OnceInv
<1>4. OnceAt(r)
  BY DEF OnceInv
<1>5. CASE r # depth
  BY <1>1, <1>2, <1>3, <1>4, <1>5, OnceRests
<1>6. CASE r = depth
  BY <1>1, <1>2, <1>3, <1>4, <1>6 DEF OnceAt, NoneYet, NoPort, Turn
<1> QED
  BY <1>5, <1>6

LEMMA OnceDecides ==
    ASSUME Shape, OnceInv, Decide
    PROVE  OnceInv'
<1> USE DEF perRun, frame, counts, locals, detached, loop, items
<1>1. /\ TypeOK /\ depth \in Runs /\ depth > 0 /\ pc[depth] = "decide"
      /\ UNCHANGED <<once, served0, served1>>
  BY DepthIsRun DEF Shape, Decide, At
<1>2. \A r \in Runs : r # depth => handled'[r] = handled[r]
  BY <1>1 DEF Decide, EndOfTurn, TypeOK
<1>3. CASE HandledEnough /\ Return("HandledSource")
  BY <1>1, <1>2, <1>3, OnceReturns
<1>4. CASE ~HandledEnough /\ (Return("TimedOut") \/ Return("Stopped") \/ Return("Finished"))
  BY <1>1, <1>2, <1>4, OnceReturns
<1>5. CASE ~HandledEnough /\ Step("top") /\ UNCHANGED retVal
  <2>1. /\ pc'[depth] = "top"
        /\ \A r \in Runs : r # depth => pc'[r] = pc[r] /\ callout'[r] = callout[r]
    BY <1>1, <1>5, StepGoes
  <2> SUFFICES ASSUME NEW r \in Runs PROVE OnceAt(r)'
    BY DEF OnceInv
  <2>2. OnceAt(r)
    BY DEF OnceInv
  <2>3. CASE r # depth
    BY <1>1, <1>2, <1>5, <2>1, <2>2, <2>3, OnceRests
  <2>4. CASE r = depth
    BY <1>1, <1>5, <2>1, <2>2, <2>4 DEF OnceAt, NoneYet, NoPort, Turn, HandledEnough
  <2> QED
    BY <2>3, <2>4
<1> QED
  BY <1>3, <1>4, <1>5 DEF Decide, ReturnStopped

LEMMA OnceLeaves ==
    ASSUME Shape, OnceInv, Leave
    PROVE  OnceInv'
<1> USE DEF perRun, frame, counts, locals, detached, loop, items
<1>1. /\ TypeOK /\ depth \in Runs
      /\ pc' = [pc EXCEPT ![depth] = "none"]
      /\ once' = [once EXCEPT ![depth] = FALSE]
      /\ retVal' = [retVal EXCEPT ![depth] = "none"]
      /\ served0' = [served0 EXCEPT ![depth] = 0]
      /\ served1' = [served1 EXCEPT ![depth] = 0]
      /\ UNCHANGED <<callout, handled>>
  BY DepthIsRun DEF Shape, Leave, At
<1> SUFFICES ASSUME NEW r \in Runs PROVE OnceAt(r)'
  BY DEF OnceInv
<1>2. OnceAt(r)
  BY DEF OnceInv
<1>3. CASE r # depth
  BY <1>1, <1>2, <1>3, OnceRests DEF TypeOK
<1>4. CASE r = depth
  BY <1>1, <1>4 DEF OnceAt, TypeOK, NoneYet, NoPort, Turn
<1> QED
  BY <1>3, <1>4

LEMMA LoopOnce ==
    ASSUME Shape, OnceInv, LoopStep
    PROVE  OnceInv'
<1> USE DEF perRun, frame, counts, locals, detached, loop, items
<1>0. TypeOK
  BY DEF Shape
<1>1. CASE Start
  <2>1. depth > 0 /\ pc[depth] = "start"
        /\ UNCHANGED <<once, handled, served0, served1>>
    BY <1>1 DEF Start, At
  <2>2. CASE Step("top") /\ UNCHANGED retVal
    BY <1>0, <2>1, <2>2, OnceGoesOn DEF NoneYet
  <2>3. CASE Return("Stopped")
    BY <1>0, <2>1, <2>3, OnceReturns DEF NoneYet
  <2> QED
    BY <1>1, <2>2, <2>3 DEF Start, ReturnStopped
<1>2. CASE Top
  <2>1. /\ depth > 0 /\ pc[depth] = "top"
        /\ UNCHANGED <<once, handled, retVal, served0, served1>>
        /\ Step(Notify("BeforeTimers", Notify("BeforeSources", "blocks1")))
    BY <1>2 DEF Top, At
  <2>2. Notify("BeforeTimers", Notify("BeforeSources", "blocks1")) \in NoneYet
    BY DEF Notify, NoneYet
  <2> QED
    BY <1>0, <2>1, <2>2, OnceGoesOn DEF NoneYet
<1>3. CASE CalloutEnds
  <2>1. /\ depth > 0 /\ pc[depth] \in DOMAIN After /\ Step(After[pc[depth]])
        /\ UNCHANGED <<once, handled, retVal, served0, served1>>
    BY <1>3 DEF CalloutEnds
  <2>2. \/ pc[depth] \in NoneYet /\ After[pc[depth]] \in NoneYet
        \/ pc[depth] \in NoPort /\ After[pc[depth]] \in NoPort
        \/ pc[depth] \in Turn /\ After[pc[depth]] = "blocks3"
        \/ pc[depth] = "Exit" /\ After[pc[depth]] = "leave"
    BY <2>1, AfterDomain, AfterPlaces DEF NoneYet, NoPort, Turn
  <2> QED
    BY <1>0, <2>1, <2>2, OnceGoesOn
<1>4. CASE CalloutReturns \/ \E b \in Blocks : RunBlock(b)
  <2>1. /\ depth \in Runs /\ pc[depth] \in Passes \cup {"perform"}
        /\ UNCHANGED <<pc, once, handled, retVal, served0, served1>>
        /\ \/ callout' = [callout EXCEPT ![depth] = FALSE]
           \/ callout' = [callout EXCEPT ![depth] = TRUE]
    BY <1>0, <1>4, DepthIsRun DEF CalloutReturns, RunBlock
  <2> SUFFICES ASSUME NEW r \in Runs PROVE OnceAt(r)'
    BY DEF OnceInv
  <2>2. OnceAt(r)
    BY DEF OnceInv
  <2>3. CASE r # depth
    BY <1>0, <2>1, <2>2, <2>3, OnceRests DEF TypeOK
  <2>4. CASE r = depth
    BY <2>1, <2>2, <2>4 DEF OnceAt, Passes
  <2> QED
    BY <2>3, <2>4
<1>5. ASSUME NEW p \in DOMAIN PassOf, TakeBlocks(p) \/ RelinkBlocks(p) PROVE OnceInv'
  <2>1. /\ depth > 0 /\ pc[depth] \in {p, PassOf[p]}
        /\ UNCHANGED <<once, handled, retVal, served0, served1>>
    BY <1>5 DEF TakeBlocks, RelinkBlocks, At
  <2>2. PICK q \in {AfterBlocks[p], PassOf[p]} : Step(q)
    BY <1>5 DEF TakeBlocks, RelinkBlocks
  <2>3. \/ pc[depth] \in NoneYet /\ q \in NoneYet
        \/ pc[depth] \in NoPort /\ q \in NoPort
        \/ pc[depth] \in Turn /\ q \in {"pass3", "decide"}
    BY <2>1, PassDomain, PassPlaces DEF NoneYet, NoPort, Turn
  <2> QED
    BY <1>0, <2>1, <2>2, <2>3, OnceGoesOn
<1>6. CASE Sources0Done \/ GoToSleep
  <2>1. /\ depth > 0 /\ pc[depth] \in NoPort
        /\ UNCHANGED <<once, handled, retVal, served0, served1>>
    BY <1>6 DEF Sources0Done, GoToSleep, At, NoPort
  <2>2. PICK q \in NoPort : Step(q)
    BY <1>6 DEF Sources0Done, GoToSleep, NoPort, Notify
  <2> QED
    BY <1>0, <2>1, <2>2, OnceGoesOn
<1>7. CASE Relock \/ \E port \in {"none", "wakeUp", "timer"} \cup Sources1 : ServiceMachPort(port)
  <2>1. /\ depth > 0 /\ pc[depth] \in NoPort
        /\ UNCHANGED <<once, handled, retVal, served0, served1>>
    BY <1>7 DEF Relock, ServiceMachPort, At, NoPort
  <2>2. PICK q \in NoPort : Step(q)
    BY <1>7 DEF Relock, ServiceMachPort, NoPort, Notify
  <2> QED
    BY <1>0, <2>1, <2>2, OnceGoesOn
<1>8. CASE HandleMsg
  <2>1. /\ depth \in Runs /\ depth > 0 /\ pc[depth] = "handle"
        /\ UNCHANGED <<once, handled, retVal, served0, served1>>
    BY <1>0, <1>8, DepthIsRun DEF HandleMsg, At
  <2>2. CASE Step("blocks3") \/ Step("perform1")
    BY <1>0, <2>1, <2>2, OnceGoesOn DEF NoPort, Turn
  <2>3. CASE /\ pc' = [pc EXCEPT ![depth] = "timers"]
             /\ callout' = [callout EXCEPT ![depth] = TRUE]
    <3> SUFFICES ASSUME NEW r \in Runs PROVE OnceAt(r)'
      BY DEF OnceInv
    <3>1. OnceAt(r)
      BY DEF OnceInv
    <3>2. CASE r # depth
      BY <1>0, <2>1, <2>3, <3>1, <3>2, OnceRests DEF TypeOK
    <3>3. CASE r = depth
      <4>1. pc'[depth] = "timers"
        BY <1>0, <2>1, <2>3 DEF TypeOK
      <4> QED
        BY <2>1, <3>1, <3>3, <4>1 DEF OnceAt, NoneYet, NoPort, Turn
    <3> QED
      BY <3>2, <3>3
  <2> QED
    BY <1>8, <2>2, <2>3 DEF HandleMsg
<1> QED
  BY <1>1, <1>2, <1>3, <1>4, <1>5, <1>6, <1>7, <1>8, OnceSource0, OnceSource1, OnceCollects,
     OnceDecides, OnceLeaves DEF LoopStep

LEMMA NextOnce == Shape /\ OnceInv /\ [Next]_vars => OnceInv'
<1> SUFFICES ASSUME Shape, OnceInv, [Next]_vars PROVE OnceInv'
  OBVIOUS
<1> USE DEF perRun, frame, counts, locals, detached, loop, items
<1>1. CASE LoopStep
  BY <1>1, LoopOnce
<1>2. CASE UNCHANGED <<pc, callout, once, handled, retVal, served0, served1>>
  BY <1>2 DEF OnceInv, OnceAt
<1>3. CASE \E c \in Clients : ClientStep(c)
  <2>1. UNCHANGED <<once, retVal, served0, served1>>
    <3>1. PICK c \in Clients : ClientStep(c)
      BY <1>3
    <3>2. CASE Stop(c) \/ \E m \in Modes : StopMode(c, m)
      BY <3>2 DEF Stop, StopMode
    <3>3. CASE \/ \E s \in Sources0 : Signal(c, s)
               \/ \E b \in Blocks : PerformBlock(c, b)
      BY <3>3 DEF Signal, PerformBlock
    <3>4. CASE \E s \in AllSources : SourceInvalidate(c, s) \/ RemoveFromRunLoop(c, s)
      BY <3>4 DEF SourceInvalidate, RemoveFromRunLoop
    <3>5. CASE \E s \in AllSources, m \in Modes :
                  AddSource(c, s, m) \/ FinishAddSource(c, s, m) \/ RemoveSource(c, s, m)
      BY <3>5 DEF AddSource, FinishAddSource, RemoveSource
    <3> QED
      BY <3>1, <3>2, <3>3, <3>4, <3>5 DEF ClientStep, AllSources
  <2> QED
    BY <1>2, <1>3, <2>1, OthersRest DEF LoopRests
<1>4. CASE \/ \E c \in Callers : WakeUp(c)
           \/ \E s \in Sources1 : Send(s)
           \/ \E r \in Runs : DeadlinePasses(r) \/ Timeout(r)
  BY <1>2, <1>4 DEF WakeUp, Send, DeadlinePasses, Timeout
<1>5. ASSUME NEW m \in Modes, NEW limit \in Limits, NEW only \in Onces, Run(m, limit, only)
      PROVE  OnceInv'
  <2>1. /\ TypeOK /\ depth \in Nat /\ depth + 1 \in Runs
        /\ once' = [once EXCEPT ![depth + 1] = only]
        /\ pc' = [pc EXCEPT ![depth + 1] = Notify("Entry", "start")]
        /\ callout' = [callout EXCEPT ![depth + 1] = "Entry" \in Watched]
        /\ UNCHANGED <<handled, retVal, served0, served1>>
    BY <1>5, NextIsRun DEF Run, Shape, TypeOK
  <2>2. pc[depth + 1] = "none"
    BY <2>1 DEF Shape, Unused
  <2> SUFFICES ASSUME NEW r \in Runs PROVE OnceAt(r)'
    BY DEF OnceInv
  <2>3. OnceAt(r)
    BY DEF OnceInv
  <2>4. CASE r # depth + 1
    BY <2>1, <2>3, <2>4, OnceRests DEF TypeOK
  <2>5. CASE r = depth + 1
    <3>1. pc'[r] \in {"Entry", "start"}
      BY <2>1, <2>5 DEF TypeOK, Notify
    <3>2. served0[r] = 0 /\ served1[r] = 0 /\ retVal[r] = "none"
      BY <2>2, <2>3, <2>5 DEF OnceAt
    <3> QED
      BY <2>1, <3>1, <3>2 DEF OnceAt, NoneYet, NoPort, Turn
  <2> QED
    BY <2>4, <2>5
<1>6. CASE UNCHANGED vars
  BY <1>2, <1>6 DEF vars
<1> QED
  BY <1>1, <1>3, <1>4, <1>5, <1>6 DEF Next, RunAgain

LEMMA InitOnce == Init => OnceInv
BY DEF Init, OnceInv, OnceAt, NoneYet, NoPort, Turn

LEMMA OnceSuffices == OnceInv => OnceServesOnce
<1> SUFFICES ASSUME OnceInv, NEW r \in Runs, once[r]
             PROVE  /\ served0[r] <= 1 /\ served1[r] <= 1
                    /\ retVal[r] # "none" =>
                          (retVal[r] = "HandledSource" <=> served0[r] + served1[r] > 0)
  BY DEF OnceServesOnce
<1>1. /\ served0[r] \in {0, 1} /\ served1[r] \in {0, 1}
      /\ retVal[r] # "none" =>
            (retVal[r] = "HandledSource" <=> served0[r] = 1 \/ served1[r] = 1)
  BY DEF OnceInv, OnceAt
<1> QED
  BY <1>1

\* A run that is to return after one source performs at most one source of
\* version 0 and at most one of version 1, over all its turns and whatever
\* nests in its callouts, and returns HandledSource exactly when it has.
THEOREM OnceServes == Spec => []OnceServesOnce
BY InitOnce, NextOnce, OnceSuffices, StackShape, PTL DEF Spec
-----------------------------------------------------------------------------
(* No wake-up is lost, when only late callouts run the loop again.         *)

Promised == wakeUp \/ \E c \in Callers : job[c] = Wake

\* The places of a turn before it sleeps, and those where blocks and sources
\* that come are not looked at again.
Before      == {"BeforeTimers", "BeforeSources", "blocks1", "pass1", "sources",
                "perform", "poll", "BeforeWaiting", "asleep"}
BlocksSeen  == {"pass1", "sources", "perform", "poll", "BeforeWaiting", "asleep"}
SourcesSeen == {"poll", "BeforeWaiting", "asleep"}

\* The executing run is on its way to a wait that nothing limits.
Waits ==
    /\ depth > 0
    /\ pc[depth] \in Before
    /\ pc[depth] \in {"perform", "poll"} => ~handled[depth]
    /\ pc[depth] \in {"BeforeWaiting", "asleep"} => ~poll[depth]

\* What has come since the run looked for it.
Unseen ==
    \/ StopAsked
    \/ pc[depth] \in BlocksSeen /\ Matching(mode[depth], queued) # {}
    \/ pc[depth] = "perform" /\ ~(Told(mode[depth]) \subseteq collected[depth])
    \/ pc[depth] \in SourcesSeen /\ Told(mode[depth]) # {}
    \/ pc[depth] \in {"BeforeWaiting", "asleep"} /\ term[depth] = "zero"

Heard ==
    /\ At("top") => ~StopAsked
    /\ Waits => ~ignoring[depth] /\ (Unseen => Promised)

\* A step after which the executing run does not wait.
LEMMA NoWait ==
    ASSUME depth' > 0 => pc'[depth'] \notin Before \cup {"top"}
    PROVE  Heard'
BY DEF Heard, Waits, At

\* What a step of another thread leaves alone; it may promise a wake-up.
Outside == UNCHANGED <<depth, pc, callout, mode, handled, poll, ignoring, collected>>

LEMMA PromiseMade ==
    ASSUME Heard, Outside, Promised', At("top") => UNCHANGED <<stopped, modeStopped>>
    PROVE  Heard'
BY DEF Heard, Outside, Waits, At, StopAsked

LEMMA NothingComes ==
    ASSUME Heard, Outside, Promised => Promised', UNCHANGED <<stopped, modeStopped>>,
           depth > 0 /\ Unseen' => Unseen
    PROVE  Heard'
BY DEF Heard, Outside, Waits, At, StopAsked

LEMMA JobPromises ==
    ASSUME TypeOK, NEW c \in Callers, Does(c, Wake)
    PROVE  Promised'
BY DEF TypeOK, Does, Promised

LEMMA PromiseStays ==
    ASSUME TypeOK, NEW c \in Callers, NEW j, Does(c, j), job[c] # Wake, UNCHANGED wakeUp
    PROVE  Promised => Promised'
BY DEF TypeOK, Does, Promised

LEMMA ModeOfRun == Shape /\ depth > 0 => mode[depth] \in Modes
<1> SUFFICES ASSUME Shape, depth > 0 PROVE mode[depth] \in Modes
  OBVIOUS
<1>1. depth \in Runs /\ depth <= depth
  BY DepthIsRun DEF Shape, TypeOK
<1> QED
  BY <1>1 DEF Shape, Suspended

LEMMA FreeNotTop == Free => ~At("top")
BY DEF Free, At, Unlocked, Activities, Passes

LEMMA ClientHeard ==
    ASSUME Shape, Heard, NEW c \in Clients, ClientStep(c)
    PROVE  Heard'
<1> USE DEF perRun, frame, counts, locals, detached, loop, items
<1>0. TypeOK /\ c \in Callers
  BY DEF Shape, Callers
<1>1. CASE Stop(c)
  <2>1. Outside /\ Promised' /\ ~At("top")
    BY <1>0, <1>1, JobPromises, FreeNotTop DEF Stop, Outside
  <2> QED
    BY <2>1, PromiseMade
<1>2. ASSUME NEW s \in Sources0, Signal(c, s) PROVE Heard'
  <2>1. Outside /\ Promised' /\ UNCHANGED <<stopped, modeStopped>>
    BY <1>0, <1>2, JobPromises DEF Signal, Outside
  <2> QED
    BY <2>1, PromiseMade
<1>3. ASSUME NEW b \in Blocks, PerformBlock(c, b) PROVE Heard'
  <2>1. Outside /\ Promised' /\ UNCHANGED <<stopped, modeStopped>>
    BY <1>0, <1>3, JobPromises DEF PerformBlock, Outside
  <2> QED
    BY <2>1, PromiseMade
<1>4. ASSUME NEW m \in Modes, StopMode(c, m) PROVE Heard'
  <2>1. Outside /\ Promised' /\ ~At("top")
    BY <1>0, <1>4, JobPromises, FreeNotTop DEF StopMode, Outside
  <2> QED
    BY <2>1, PromiseMade
<1>5. ASSUME NEW s \in AllSources, SourceInvalidate(c, s) PROVE Heard'
  <2>1. /\ Outside /\ UNCHANGED <<stopped, modeStopped, queued, term, wakeUp, sources>>
        /\ valid' \subseteq valid /\ signaled' = signaled \ {s}
        /\ late' = late \ ({s} \X Modes)
    BY <1>5 DEF SourceInvalidate, Outside
  <2>2. Promised => Promised'
    <3>1. job[c] # Wake
      BY <1>5, JobKinds DEF SourceInvalidate
    <3> QED
      BY <1>0, <1>5, <3>1, PromiseStays DEF SourceInvalidate
  <2>3. Unseen' => Unseen
    BY <2>1 DEF Outside, Unseen, StopAsked, Told, Ready, Matching
  <2> QED
    BY <2>1, <2>2, <2>3, NothingComes
<1>6. ASSUME NEW s \in AllSources, RemoveFromRunLoop(c, s) PROVE Heard'
  <2>1. /\ Outside /\ UNCHANGED <<stopped, modeStopped, queued, term, wakeUp, valid, signaled, late>>
        /\ sources' = [m \in Modes |-> sources[m] \ {s}]
    BY <1>6 DEF RemoveFromRunLoop, Outside
  <2>2. Promised => Promised'
    <3>1. job[c] # Wake
      BY <1>6, JobKinds DEF RemoveFromRunLoop
    <3> QED
      BY <1>0, <1>6, <3>1, PromiseStays DEF RemoveFromRunLoop
  <2>3. ASSUME depth > 0, Unseen' PROVE Unseen
    <3>1. sources'[mode[depth]] \subseteq sources[mode[depth]]
      BY <1>0, <2>1, <2>3, ModeOfRun
    <3> QED
      BY <2>1, <2>3, <3>1 DEF Outside, Unseen, StopAsked, Told, Ready, Matching
  <2> QED
    BY <2>1, <2>2, <2>3, NothingComes
<1>7. ASSUME NEW s \in AllSources, NEW m \in Modes, AddSource(c, s, m) PROVE Heard'
  <2>1. Outside /\ UNCHANGED <<stopped, modeStopped, queued, term, wakeUp, sources, valid,
                               signaled, late>>
    BY <1>7 DEF AddSource, Outside
  <2>2. Promised => Promised'
    <3>1. job[c] # Wake
      BY <1>7, JobKinds DEF AddSource
    <3> QED
      BY <1>0, <1>7, <3>1, PromiseStays DEF AddSource
  <2>3. Unseen' => Unseen
    BY <2>1 DEF Outside, Unseen, StopAsked, Told, Ready, Matching
  <2> QED
    BY <2>1, <2>2, <2>3, NothingComes
<1>8. ASSUME NEW s \in AllSources, NEW m \in Modes, FinishAddSource(c, s, m) PROVE Heard'
  <2>1. /\ Outside /\ UNCHANGED <<stopped, modeStopped, queued, term, wakeUp, valid, signaled>>
        /\ sources' = [sources EXCEPT ![m] = @ \cup {s}]
        /\ late' = late \cup ({s} \cap (signaled \ sources[m])) \X {m}
    BY <1>8 DEF FinishAddSource, Outside
  <2>2. Promised => Promised'
    <3>1. job[c] # Wake
      BY <1>8, JobKinds DEF FinishAddSource
    <3> QED
      BY <1>0, <1>8, <3>1, PromiseStays DEF FinishAddSource
  <2>3. ASSUME depth > 0, Unseen' PROVE Unseen
    <3>1. mode[depth] \in Modes
      BY <2>3, ModeOfRun
    <3>2. sources'[mode[depth]] \subseteq sources[mode[depth]] \cup {s}
          /\ (mode[depth] # m => sources'[mode[depth]] = sources[mode[depth]])
      BY <1>0, <2>1, <3>1 DEF TypeOK
    <3>3. Told(mode[depth])' \subseteq Told(mode[depth])
      BY <2>1, <3>2 DEF Outside, Told, Ready
    <3> QED
      BY <2>1, <2>3, <3>3 DEF Outside, Unseen, StopAsked, Matching
  <2> QED
    BY <2>1, <2>2, <2>3, NothingComes
<1>9. ASSUME NEW s \in AllSources, NEW m \in Modes, RemoveSource(c, s, m) PROVE Heard'
  <2>1. /\ Outside
        /\ UNCHANGED <<stopped, modeStopped, queued, term, wakeUp, valid, signaled, late, job>>
        /\ sources' = [sources EXCEPT ![m] = @ \ {s}]
    BY <1>9 DEF RemoveSource, Outside
  <2>2. Promised => Promised'
    BY <2>1 DEF Promised
  <2>3. ASSUME depth > 0, Unseen' PROVE Unseen
    <3>1. sources'[mode[depth]] \subseteq sources[mode[depth]]
      BY <1>0, <2>1, <2>3, ModeOfRun DEF TypeOK
    <3> QED
      BY <2>1, <2>3, <3>1 DEF Outside, Unseen, StopAsked, Told, Ready, Matching
  <2> QED
    BY <2>1, <2>2, <2>3, NothingComes
<1> QED
  BY <1>1, <1>2, <1>3, <1>4, <1>5, <1>6, <1>7, <1>8, <1>9 DEF ClientStep, AllSources

\* A step of the executing run after which it waits only if it did before, and
\* has nothing new to look at.
LEMMA WaitsOn ==
    ASSUME Heard, UNCHANGED <<depth, ignoring, wakeUp, job>>, pc'[depth] # "top",
           Waits' => Waits /\ (Unseen' => Unseen)
    PROVE  Heard'
BY DEF Heard, At, Promised

LEMMA LoopHeard ==
    ASSUME NestIn \subseteq LateCallouts, Shape, Heard, LoopStep
    PROVE  Heard'
<1> USE DEF perRun, frame, counts, locals, detached, loop, items
<1>0. TypeOK
  BY DEF Shape
<1>1. CASE Start
  <2>1. depth > 0 /\ depth' = depth /\ mode' = mode
    BY <1>1 DEF Start, At
  <2>2. CASE Step("top") /\ ~StopAsked /\ UNCHANGED <<stopped, modeStopped>>
    <3>1. pc'[depth] = "top" /\ ~StopAsked'
      BY <1>0, <2>1, <2>2, StepGoes DEF StopAsked
    <3> QED
      BY <2>1, <3>1 DEF Heard, Waits, Before
  <2>3. CASE Step(Notify("Exit", "leave"))
    <3>1. pc'[depth] \in {"Exit", "leave"}
      BY <1>0, <2>1, <2>3, StepGoes DEF Notify
    <3> QED
      BY <2>1, <3>1, NoWait DEF Before
  <2> QED
    BY <1>1, <2>2, <2>3 DEF Start, ReturnStopped, Return
<1>2. CASE Top
  <2>1. /\ depth > 0 /\ pc[depth] = "top" /\ depth \in 0 .. MaxRuns
        /\ ignoring' = [ignoring EXCEPT ![depth] = FALSE]
        /\ Step(Notify("BeforeTimers", Notify("BeforeSources", "blocks1")))
        /\ UNCHANGED <<depth, mode, stopped, modeStopped>>
    BY <1>0, <1>2 DEF Top, At, TypeOK
  <2>2. pc'[depth] \in {"BeforeTimers", "BeforeSources", "blocks1"}
    BY <1>0, <2>1, StepGoes DEF Notify
  <2>3. ~StopAsked'
    BY <2>1 DEF Heard, At, StopAsked
  <2>4. ~ignoring'[depth]
    BY <1>0, <2>1 DEF TypeOK
  <2>5. ~Unseen'
    BY <2>1, <2>2, <2>3 DEF Unseen, BlocksSeen, SourcesSeen
  <2> QED
    BY <2>1, <2>2, <2>4, <2>5 DEF Heard, At
<1>3. CASE CalloutEnds
  <2>1. /\ depth > 0 /\ pc[depth] \in DOMAIN After /\ Step(After[pc[depth]])
        /\ UNCHANGED <<depth, mode, term, handled, poll, collected, stopped, ignoring,
                       modeStopped, wakeUp, queued, sources, valid, signaled, late, job>>
    BY <1>3 DEF CalloutEnds
  <2>2. pc'[depth] = After[pc[depth]]
    BY <1>0, <2>1, StepGoes
  <2>3. CASE pc[depth] \in {"BeforeTimers", "BeforeSources"}
    <3>1. pc'[depth] \in {"BeforeSources", "blocks1"}
      BY <2>2, <2>3, AfterPlaces
    <3>2. Waits /\ (Unseen' => Unseen)
      BY <2>1, <2>3, <3>1 DEF Waits, Before, Unseen, BlocksSeen, SourcesSeen, StopAsked
    <3> QED
      BY <2>1, <3>1, <3>2, WaitsOn
  <2>4. CASE pc[depth] = "BeforeWaiting"
    <3>1. pc'[depth] = "asleep"
      BY <2>2, <2>4, AfterPlaces
    <3>2. Waits' => Waits
      BY <2>1, <2>4, <3>1 DEF Waits, Before
    <3>3. Unseen' => Unseen
      BY <2>1, <2>4, <3>1
         DEF Unseen, BlocksSeen, SourcesSeen, StopAsked, Matching, Told, Ready
    <3> QED
      BY <2>1, <3>1, <3>2, <3>3, WaitsOn
  <2>5. CASE pc[depth] \in {"Entry", "AfterWaiting", "Exit", "timers", "perform1"}
    <3>1. pc'[depth] \in {"start", "handle", "leave", "blocks3"}
      BY <2>2, <2>5, AfterPlaces
    <3> QED
      BY <2>1, <3>1, NoWait DEF Before
  <2> QED
    BY <2>1, <2>3, <2>4, <2>5, AfterDomain
<1>4. CASE CalloutReturns
  <2>1. /\ pc[depth] \in Passes \cup {"perform"}
        /\ UNCHANGED <<depth, pc, mode, term, handled, poll, collected, stopped, ignoring,
                       modeStopped, wakeUp, queued, sources, valid, signaled, late, job>>
    BY <1>4 DEF CalloutReturns
  <2>2. Waits' => Waits
    BY <2>1 DEF Waits
  <2>3. Unseen' => Unseen
    BY <2>1 DEF Unseen, StopAsked, Matching, Told, Ready
  <2> QED
    BY <2>1, <2>2, <2>3, WaitsOn DEF Passes
<1>5. ASSUME NEW p \in DOMAIN PassOf, TakeBlocks(p) PROVE Heard'
  <2>1. /\ depth > 0 /\ pc[depth] = p /\ queued' = {}
        /\ UNCHANGED <<depth, mode, term, handled, poll, collected, stopped, ignoring,
                       modeStopped, wakeUp, sources, valid, signaled, late, job>>
        /\ Step(AfterBlocks[p]) \/ Step(PassOf[p])
    BY <1>5 DEF TakeBlocks, At
  <2>2. pc'[depth] \in {AfterBlocks[p], PassOf[p]}
    BY <1>0, <2>1, StepGoes
  <2>3. CASE p = "blocks1"
    <3>1. pc'[depth] \in {"sources", "pass1"}
      BY <2>2, <2>3, PassPlaces
    <3>2. Waits
      BY <2>1, <2>3 DEF Waits, Before
    <3>3. Unseen' => Unseen
      BY <2>1, <2>3, <3>1 DEF Unseen, SourcesSeen, StopAsked, Matching
    <3> QED
      BY <2>1, <3>1, <3>2, <3>3, WaitsOn
  <2>4. CASE p = "blocks2"
    <3>1. pc'[depth] \in {"poll", "pass2"}
      BY <2>2, <2>4, PassPlaces
    <3>2. handled'[depth]
      BY <1>0, <2>1, <2>4, DepthIsRun DEF Shape, Performed
    <3>3. ~Waits'
      BY <2>1, <3>1, <3>2 DEF Waits, Before
    <3> QED
      BY <2>1, <3>1, <3>3, WaitsOn
  <2>5. CASE p = "blocks3"
    <3>1. pc'[depth] \in {"decide", "pass3"}
      BY <2>2, <2>5, PassPlaces
    <3> QED
      BY <2>1, <3>1, NoWait DEF Before
  <2> QED
    BY <2>3, <2>4, <2>5, PassDomain
<1>6. ASSUME NEW p \in DOMAIN PassOf, RelinkBlocks(p) PROVE Heard'
  <2>1. /\ depth > 0 /\ depth \in Runs /\ pc[depth] = PassOf[p]
        /\ queued' = queued \cup held[depth]
        /\ UNCHANGED <<depth, mode, term, handled, poll, collected, stopped, ignoring,
                       modeStopped, wakeUp, sources, valid, signaled, late, job>>
        /\ Step(AfterBlocks[p])
    BY <1>0, <1>6, DepthIsRun DEF RelinkBlocks, Relinked, At
  <2>2. pc'[depth] = AfterBlocks[p]
    BY <1>0, <2>1, StepGoes
  <2>3. Matching(mode[depth], queued') = Matching(mode[depth], queued)
    <3>1. Matching(mode[depth], held[depth]) = {}
      BY <2>1 DEF Shape, Detached
    <3> QED
      BY <2>1, <3>1 DEF Matching
  <2>4. CASE p = "blocks1"
    <3>1. pc[depth] = "pass1" /\ pc'[depth] = "sources"
      BY <2>1, <2>2, <2>4, PassPlaces
    <3>2. Waits
      BY <2>1, <3>1 DEF Waits, Before
    <3>3. Unseen' => Unseen
      BY <2>1, <2>3, <3>1 DEF Unseen, BlocksSeen, SourcesSeen, StopAsked, Matching
    <3> QED
      BY <2>1, <3>1, <3>2, <3>3, WaitsOn
  <2>5. CASE p = "blocks2"
    <3>1. pc[depth] = "pass2" /\ pc'[depth] = "poll"
      BY <2>1, <2>2, <2>5, PassPlaces
    <3>2. handled'[depth]
      BY <2>1, <3>1 DEF Shape, Performed
    <3>3. ~Waits'
      BY <2>1, <3>1, <3>2 DEF Waits
    <3> QED
      BY <2>1, <3>1, <3>3, WaitsOn
  <2>6. CASE p = "blocks3"
    <3>1. pc'[depth] = "decide"
      BY <2>2, <2>6, PassPlaces
    <3> QED
      BY <2>1, <3>1, NoWait DEF Before
  <2> QED
    BY <2>4, <2>5, <2>6, PassDomain
<1>7. ASSUME NEW b \in Blocks, RunBlock(b) PROVE Heard'
  <2>1. /\ pc[depth] \in Passes
        /\ UNCHANGED <<depth, pc, mode, term, handled, poll, collected, stopped, ignoring,
                       modeStopped, wakeUp, queued, sources, valid, signaled, late, job>>
    BY <1>7 DEF RunBlock
  <2>2. Waits' => Waits
    BY <2>1 DEF Waits
  <2>3. Unseen' => Unseen
    BY <2>1 DEF Unseen, StopAsked, Matching, Told, Ready
  <2> QED
    BY <2>1, <2>2, <2>3, WaitsOn DEF Passes
<1>8. CASE CollectSources0
  <2>1. /\ depth > 0 /\ depth \in Runs /\ pc[depth] = "sources"
        /\ collected' = [collected EXCEPT ![depth] = Ready(mode[depth])]
        /\ Step(IF Ready(mode[depth]) = {} THEN "poll" ELSE "perform")
        /\ UNCHANGED <<depth, mode, term, poll, stopped, ignoring, modeStopped, wakeUp,
                       queued, sources, valid, signaled, job>>
    BY <1>0, <1>8, DepthIsRun DEF CollectSources0, At
  <2>2. pc'[depth] = IF Ready(mode[depth]) = {} THEN "poll" ELSE "perform"
    BY <1>0, <2>1, StepGoes
  <2>3. Waits
    BY <2>1 DEF Waits, Before
  <2>4. collected'[depth] = Ready(mode[depth]) /\ Ready(mode[depth])' = Ready(mode[depth])
    BY <1>0, <2>1 DEF TypeOK, Ready
  <2>5. Told(mode[depth])' \subseteq Ready(mode[depth])
    BY <2>1, <2>4 DEF Told
  <2>6. Unseen' => Unseen
    BY <2>1, <2>2, <2>4, <2>5 DEF Unseen, BlocksSeen, SourcesSeen, StopAsked, Matching
  <2> QED
    BY <2>1, <2>2, <2>3, <2>6, WaitsOn
<1>9. CASE Sources0Done
  <2>1. /\ depth > 0 /\ depth \in Runs /\ pc[depth] = "perform" /\ ~MoreSources
        /\ Step(IF handled[depth] THEN "blocks2" ELSE "poll")
        /\ UNCHANGED <<depth, mode, term, handled, poll, stopped, ignoring, modeStopped,
                       wakeUp, queued, sources, valid, signaled, late, job>>
    BY <1>0, <1>9, DepthIsRun DEF Sources0Done, At
  <2>2. pc'[depth] = IF handled[depth] THEN "blocks2" ELSE "poll"
    BY <1>0, <2>1, StepGoes
  <2>3. CASE handled[depth]
    BY <2>1, <2>2, <2>3, NoWait DEF Before
  <2>4. CASE ~handled[depth]
    <3>1. collected[depth] = {}
      BY <2>1, <2>4 DEF MoreSources, HandledEnough
    <3>2. Waits
      BY <2>1, <2>4 DEF Waits, Before
    <3>3. Unseen' => Unseen
      BY <2>1, <2>2, <2>4, <3>1 DEF Unseen, BlocksSeen, StopAsked, Matching, Told, Ready
    <3> QED
      BY <2>1, <2>2, <2>4, <3>2, <3>3, WaitsOn
  <2> QED
    BY <2>3, <2>4
<1>10. ASSUME NEW s \in Sources0, DoSource0(s) PROVE Heard'
  <2>1. /\ depth > 0 /\ depth \in Runs /\ pc[depth] = "perform"
        /\ collected' = [collected EXCEPT ![depth] = @ \ {s}]
        /\ signaled' = signaled \ {s}
        /\ UNCHANGED <<depth, pc, mode, term, poll, stopped, ignoring, modeStopped, wakeUp,
                       queued, sources, valid, job>>
        /\ late' = late \ ({s} \X Modes)
    BY <1>0, <1>10, DepthIsRun DEF DoSource0, At
  <2>2. handled[depth] => handled'[depth]
    BY <1>0, <1>10, <2>1 DEF DoSource0, HandledBy, TypeOK
  <2>3. Waits' => Waits
    BY <2>1, <2>2 DEF Waits
  <2>4. collected'[depth] = collected[depth] \ {s}
    BY <1>0, <2>1 DEF TypeOK
  <2>5. Unseen' => Unseen
    BY <2>1, <2>4 DEF Unseen, BlocksSeen, SourcesSeen, StopAsked, Matching, Told, Ready
  <2> QED
    BY <2>1, <2>3, <2>5, WaitsOn
<1>11. CASE GoToSleep
  <2>1. /\ depth > 0 /\ depth \in Runs /\ pc[depth] = "poll"
        /\ Step("asleep") \/ Step(Notify("BeforeWaiting", "asleep"))
        /\ poll' = [poll EXCEPT ![depth] = handled[depth] \/ term[depth] = "zero"]
        /\ UNCHANGED <<depth, mode, term, handled, stopped, ignoring, modeStopped, wakeUp,
                       queued, sources, valid, signaled, late, job>>
    BY <1>0, <1>11, DepthIsRun DEF GoToSleep, At
  <2>2. pc'[depth] \in {"BeforeWaiting", "asleep"}
    BY <1>0, <2>1, StepGoes DEF Notify
  <2>3. Waits' => ~handled[depth] /\ term[depth] # "zero"
    BY <1>0, <2>1, <2>2 DEF Waits, TypeOK
  <2>4. Waits' => Waits
    BY <2>1, <2>3 DEF Waits, Before
  <2>5. term[depth] # "zero" /\ Unseen' => Unseen
    BY <2>1, <2>2 DEF Unseen, BlocksSeen, SourcesSeen, StopAsked, Matching, Told, Ready
  <2> QED
    BY <2>1, <2>2, <2>3, <2>4, <2>5, WaitsOn
<1>12. ASSUME NEW port \in {"none", "wakeUp", "timer"} \cup Sources1, ServiceMachPort(port)
       PROVE Heard'
  <2>1. depth > 0 /\ depth' = depth /\ Step("woken")
    BY <1>12 DEF ServiceMachPort, At
  <2>2. pc'[depth] = "woken"
    BY <1>0, <2>1, StepGoes
  <2> QED
    BY <2>1, <2>2, NoWait DEF Before
<1>13. CASE Relock
  <2>1. depth > 0 /\ depth' = depth
        /\ \/ Step("handle") \/ Step(Notify("AfterWaiting", "handle"))
    BY <1>13 DEF Relock, At
  <2>2. pc'[depth] \in {"AfterWaiting", "handle"}
    BY <1>0, <2>1, StepGoes DEF Notify
  <2> QED
    BY <2>1, <2>2, NoWait DEF Before
<1>14. CASE HandleMsg
  <2>1. depth > 0 /\ depth \in Runs /\ depth' = depth
    BY <1>0, <1>14, DepthIsRun DEF HandleMsg, At
  <2>2. pc'[depth] \in {"blocks3", "timers", "perform1"}
    <3>1. CASE Step("blocks3") \/ Step("perform1")
      BY <1>0, <2>1, <3>1, StepGoes
    <3>2. CASE pc' = [pc EXCEPT ![depth] = "timers"]
      BY <1>0, <2>1, <3>2 DEF TypeOK
    <3> QED
      BY <1>14, <3>1, <3>2 DEF HandleMsg
  <2> QED
    BY <2>1, <2>2, NoWait DEF Before
<1>15. CASE DoSource1
  <2>1. depth > 0 /\ depth' = depth /\ pc[depth] = "perform1"
        /\ \/ Step("blocks3") \/ UNCHANGED pc
    BY <1>15 DEF DoSource1, At
  <2>2. pc'[depth] \in {"blocks3", "perform1"}
    BY <1>0, <2>1, StepGoes
  <2> QED
    BY <2>1, <2>2, NoWait DEF Before
<1>16. CASE Decide
  <2>1. depth > 0 /\ depth' = depth /\ mode' = mode
    BY <1>16 DEF Decide, At
  <2>2. CASE Step("top") /\ ~StopAsked /\ UNCHANGED <<stopped, modeStopped>>
    <3>1. pc'[depth] = "top" /\ ~StopAsked'
      BY <1>0, <2>1, <2>2, StepGoes DEF StopAsked
    <3> QED
      BY <2>1, <3>1 DEF Heard, Waits, Before
  <2>3. CASE Step(Notify("Exit", "leave"))
    <3>1. pc'[depth] \in {"Exit", "leave"}
      BY <1>0, <2>1, <2>3, StepGoes DEF Notify
    <3> QED
      BY <2>1, <3>1, NoWait DEF Before
  <2> QED
    BY <1>16, <2>2, <2>3 DEF Decide, ReturnStopped, Return
<1>17. CASE Leave
  <2>1. /\ depth \in Runs /\ depth' = depth - 1
        /\ pc' = [pc EXCEPT ![depth] = "none"]
        /\ UNCHANGED <<callout, handled>>
    BY <1>0, <1>17, DepthIsRun DEF Leave, At
  <2>2. CASE depth' = 0
    BY <2>2, NoWait
  <2>3. CASE depth' > 0
    <3>1. \A r : r = depth - 1 =>
              r \in Runs /\ pc'[r] = pc[r] /\ callout[r] /\ pc[r] \in LateCallouts
      <4>1. depth - 1 \in Runs /\ depth - 1 < depth /\ depth - 1 # depth
        BY <1>0, <2>1, <2>3, ConstantsAssumption DEF TypeOK, Runs
      <4>2. pc'[depth - 1] = pc[depth - 1]
        BY <1>0, <2>1, <4>1 DEF TypeOK
      <4>3. callout[depth - 1] /\ pc[depth - 1] \in NestIn
        BY <4>1 DEF Shape, Suspended
      <4> QED
        BY <4>1, <4>2, <4>3
    <3>2. \A r : r = depth - 1 => (pc[r] = "perform" => handled[r])
      BY <3>1 DEF Shape, Performed
    <3>3. ~At("top")' /\ ~Waits'
      BY <2>1, <3>1, <3>2 DEF At, Waits, LateCallouts, Before
    <3> QED
      BY <3>3 DEF Heard
  <2> QED
    BY <1>0, <2>1, <2>2, <2>3 DEF TypeOK, Runs
<1> QED
  BY <1>1, <1>2, <1>3, <1>4, <1>5, <1>6, <1>7, <1>8, <1>9, <1>10, <1>11, <1>12,
     <1>13, <1>14, <1>15, <1>16, <1>17 DEF LoopStep

LEMMA NextHeard ==
    ASSUME NestIn \subseteq LateCallouts, Shape, Heard, [Next]_vars
    PROVE  Heard'
<1> USE DEF perRun, frame, counts, locals, detached, loop, items
<1>0. TypeOK
  BY DEF Shape
<1>1. CASE UNCHANGED vars
  BY <1>1 DEF vars, Heard, Waits, Unseen, Promised, At, StopAsked, Matching, Told, Ready
<1>2. ASSUME NEW c \in Callers, WakeUp(c) PROVE Heard'
  <2>1. UNCHANGED <<depth, pc, mode, stopped, ignoring, handled, poll, modeStopped>>
    BY <1>2 DEF WakeUp
  <2>2. ~ignoring[depth] => Promised'
    BY <1>2 DEF WakeUp, SendsWakeUp, Promised
  <2> QED
    BY <2>1, <2>2 DEF Heard, Waits, At, StopAsked
<1>3. ASSUME NEW s \in Sources1, Send(s) PROVE Heard'
  <2>1. Outside /\ UNCHANGED <<stopped, modeStopped, queued, term, wakeUp, sources, valid,
                               signaled, late, job>>
    BY <1>3 DEF Send, Outside
  <2>2. (Promised => Promised') /\ (Unseen' => Unseen)
    BY <2>1 DEF Outside, Promised, Unseen, StopAsked, Told, Ready, Matching
  <2> QED
    BY <2>1, <2>2, NothingComes
<1>4. ASSUME NEW r \in Runs, DeadlinePasses(r) PROVE Heard'
  <2>1. Outside /\ UNCHANGED <<stopped, modeStopped, queued, wakeUp, sources, valid,
                               signaled, late, job>>
        /\ term' = [term EXCEPT ![r] = "due"]
    BY <1>4 DEF DeadlinePasses, Outside
  <2>2. depth > 0 /\ term'[depth] = "zero" => term[depth] = "zero"
    BY <1>0, <2>1, DepthIsRun DEF TypeOK
  <2>3. depth > 0 /\ Unseen' => Unseen
    BY <2>1, <2>2 DEF Outside, Unseen, StopAsked, Told, Ready, Matching
  <2>4. Promised => Promised'
    BY <2>1 DEF Promised
  <2> QED
    BY <2>1, <2>3, <2>4, NothingComes
<1>5. ASSUME NEW r \in Runs, Timeout(r) PROVE Heard'
  <2>1. Outside /\ UNCHANGED <<stopped, modeStopped>> /\ Promised'
    BY <1>0, <1>5, JobPromises DEF Timeout, Outside, Callers
  <2> QED
    BY <2>1, PromiseMade
<1>6. CASE LoopStep
  BY <1>6, LoopHeard
<1>7. ASSUME NEW m \in Modes, NEW limit \in Limits, NEW only \in Onces, Run(m, limit, only)
      PROVE  Heard'
  <2>1. /\ depth + 1 \in Runs /\ depth' = depth + 1
        /\ pc' = [pc EXCEPT ![depth + 1] = Notify("Entry", "start")]
    BY <1>0, <1>7, NextIsRun DEF Run
  <2>2. pc'[depth + 1] \in {"Entry", "start"}
    BY <1>0, <2>1 DEF TypeOK, Notify
  <2> QED
    BY <2>1, <2>2, NoWait DEF Before
<1>8. CASE \E c \in Clients : ClientStep(c)
  BY <1>8, ClientHeard
<1> QED
  BY <1>1, <1>2, <1>3, <1>4, <1>5, <1>6, <1>7, <1>8 DEF Next, RunAgain

LEMMA InitHeard == Init => Heard
BY DEF Init, Heard, Waits, At

LEMMA HeardSuffices == Heard => NoLostWakeUp
<1> SUFFICES ASSUME Heard, At("asleep"), ~poll[depth], HasWork PROVE Promised
  BY DEF NoLostWakeUp, Promised
<1>1. Waits
  BY DEF At, Waits, Before
<1>2. Unseen
  BY DEF At, HasWork, Unseen, BlocksSeen, SourcesSeen
<1> QED
  BY <1>1, <1>2 DEF Heard

\* When only the callouts of late places run the loop again, a run that has
\* been stopped or timed out, or has a block or a version 0 source signaled
\* since the mode has it, never sleeps without a message on the wake-up port or
\* somebody about to send one: for all observers, sources, blocks, clients,
\* modes and time limits and however deep the runs nest.  CFRunLoopAddSource
\* need not wake the loop for a source that is not signaled; for one that is,
\* nobody does, and the theorem says nothing.
THEOREM NoWakeUpLost ==
    ASSUME NestIn \subseteq LateCallouts
    PROVE  Spec => []NoLostWakeUp
<1>1. Shape /\ Heard /\ [Next]_vars => Heard'
  BY NextHeard
<1> QED
  BY <1>1, StackShape, InitHeard, HeardSuffices, PTL DEF Spec
=============================================================================
