----------------------------- MODULE CFRunLoop -----------------------------
(***************************************************************************)
(* CF-1151.16/CFRunLoop.c: one run loop, the thread that runs it and the   *)
(* other threads that give it work.                                        *)
(*                                                                         *)
(* CFRunLoopRunSpecific may be called again from a callout, so the loop's  *)
(* thread has a stack of runs: run 1 is the outermost, run depth the one   *)
(* that executes.  An action is what the code does between two releases    *)
(* of the run loop's lock (the mode's lock is only taken inside it): in    *)
(* the places Unlocked names the loop's thread has released it, and the    *)
(* other threads' calls that take it happen there.  CFRunLoopSourceSignal  *)
(* takes only the source's lock, so it happens anywhere.                   *)
(*                                                                         *)
(* Left out: the main queue's port (served by the main thread's loop       *)
(* only), the order of blocks and of sources, when timers are due, and     *)
(* common modes, which BlockModes has expanded.  Callouts call the same    *)
(* functions as the other threads: the Clients stand for both.             *)
(***************************************************************************)
EXTENDS Naturals, FiniteSets

CONSTANTS
    Modes,       \* the modes of the loop
    NoMode,      \* the mode of a run that is not there
    TimerModes,  \* those with a timer
    Sources0,    \* sources somebody signals
    Sources1,    \* sources with a port
    Blocks,      \* blocks for CFRunLoopPerformBlock
    BlockModes,  \* BlockModes[b]: the modes block b may run in
    Watched,     \* the activities some observer of every mode wants
    Clients,     \* threads, and callouts, that use the loop
    TimerQueue,  \* the dispatch queue that runs __CFRunLoopTimeout
    MaxRuns,     \* bound: runs within runs
    Limits,      \* the time limits runs are given: none, some or zero seconds
    Onces,       \* may a run ask to return after one source?
    NestIn       \* the places whose callouts may run the loop again

Activities == {"Entry", "BeforeTimers", "BeforeSources", "BeforeWaiting",
               "AfterWaiting", "Exit"}
Passes   == {"pass1", "pass2", "pass3"}     \* __CFRunLoopDoBlocks, lists detached
Locked   == {"none", "start", "top", "blocks1", "sources", "blocks2", "poll",
             "handle", "blocks3", "decide", "leave"}
Unlocked == Activities \cup Passes \cup
            {"perform", "perform1", "timers", "asleep", "woken"}

ASSUME ConstantsAssumption ==
    /\ NoMode \notin Modes
    /\ TimerModes \subseteq Modes
    /\ BlockModes \in [Blocks -> SUBSET Modes]
    /\ Watched \subseteq Activities
    /\ TimerQueue \notin Clients
    /\ NestIn \subseteq Unlocked
    /\ MaxRuns \in Nat \ {0}
    /\ Limits \subseteq {"never", "later", "zero"}
    /\ Onces \subseteq BOOLEAN

ASSUME SourcesAssumption ==
    /\ Sources0 \cap Sources1 = {}
    /\ {"none", "wakeUp", "timer"} \cap Sources1 = {}

VARIABLES
    depth,        \* how many runs are on the stack; 0: _currentMode is NULL
    mode,         \* rlm of each run
    pc,           \* where each run is
    callout,      \* is it calling the user's code?
    stopped,      \* _per_run_data.stopped
    ignoring,     \* _per_run_data.ignoreWakeUps (run 0: that of __CFRunLoopCreate)
    term,         \* timeout_context->termTSR: "zero", ahead ("later"), past ("due"), UINT64_MAX ("never")
    once,         \* stopAfterHandle
    handled,      \* sourceHandledThisLoop
    poll,         \* poll
    live,         \* livePort
    retVal,       \* retVal
    due,          \* blocks __CFRunLoopDoBlocks has detached and will run
    held,         \* blocks it has detached and will put back
    collected,    \* sources __CFRunLoopDoSources0 has collected
    modeStopped,  \* rlm->_stopped
    wakeUp,       \* is there a message on _wakeUpPort? (its queue holds one)
    queued,       \* rl->_blocks_head
    sources,      \* sources[m]: _sources0 and _sources1 of mode m
    valid,        \* the sources not invalidated
    signaled,     \* the sources with the signaled bit
    msgs,         \* the Sources1 whose port has a message
    job,          \* job[c]: what is left of the client's call
    late,         \* history: <<s, m>> when s was added to mode m already signaled; until
                  \* it is collected there, signaled again or loses the signaled bit
    served0,      \* history: the version 0 sources a run that returns after one has
    served1       \* performed, and its version 1 sources

perRun   == <<stopped, ignoring>>
frame    == <<mode, term, once>>                        \* arguments of a run
counts   == <<served0, served1>>
locals   == <<handled, poll, live, retVal, counts>>
detached == <<due, held, collected>>
loop     == <<modeStopped, wakeUp, queued>>
items    == <<sources, valid, signaled, msgs, late>>
vars == <<depth, pc, callout, perRun, frame, locals, detached, loop, items, job>>

Runs    == 1 .. MaxRuns
Callers == Clients \cup {TimerQueue}
Idle    == <<"idle">>
Wake    == <<"wake">>                                   \* CFRunLoopWakeUp comes next
Adding(s, m) == <<"add", s, m>>
Removing(s)  == <<"remove", s>>
AllSources == Sources0 \cup Sources1
Jobs ==
    {Idle, Wake} \cup {Removing(s) : s \in AllSources}
                 \cup {Adding(s, m) : s \in AllSources, m \in Modes}

Init ==
    /\ depth = 0
    /\ pc = [r \in Runs |-> "none"]
    /\ callout = [r \in Runs |-> FALSE]
    /\ mode = [r \in Runs |-> NoMode]
    /\ stopped = [r \in Runs |-> FALSE]
    /\ ignoring = [r \in 0 .. MaxRuns |-> r = 0]
    /\ term = [r \in Runs |-> "never"]
    /\ once = [r \in Runs |-> FALSE]
    /\ handled = [r \in Runs |-> FALSE]
    /\ poll = [r \in Runs |-> FALSE]
    /\ live = [r \in Runs |-> "none"]
    /\ retVal = [r \in Runs |-> "none"]
    /\ due = [r \in Runs |-> {}]
    /\ held = [r \in Runs |-> {}]
    /\ collected = [r \in Runs |-> {}]
    /\ modeStopped = [m \in Modes |-> FALSE]
    /\ wakeUp = FALSE
    /\ queued = {}
    /\ sources = [m \in Modes |-> {}]
    /\ valid = Sources0 \cup Sources1
    /\ signaled = {}
    /\ msgs = {}
    /\ late = {}
    /\ served0 = [r \in Runs |-> 0]
    /\ served1 = [r \in Runs |-> 0]
    /\ job = [c \in Callers |-> Idle]

At(p) == depth > 0 /\ pc[depth] = p

\* The run goes on at p; an activity's observers are called at once.
Step(p) ==
    /\ pc' = [pc EXCEPT ![depth] = p]
    /\ callout' = [callout EXCEPT ![depth] = p \in Activities]

Notify(a, next) == IF a \in Watched THEN a ELSE next

After ==
    [Entry         |-> "start",
     BeforeTimers  |-> Notify("BeforeSources", "blocks1"),
     BeforeSources |-> "blocks1",
     BeforeWaiting |-> "asleep",
     AfterWaiting  |-> "handle",
     Exit          |-> "leave",
     timers        |-> "blocks3",
     perform1      |-> "blocks3"]

Matching(m, bs) == {b \in bs : m \in BlockModes[b]}

ModeIsEmpty(m) ==
    /\ sources[m] = {}
    /\ m \notin TimerModes
    /\ Matching(m, queued) = {}

Ready(m) == {s \in sources[m] \cap Sources0 : s \in valid /\ s \in signaled}
-----------------------------------------------------------------------------
(* The loop's thread: CFRunLoopRunSpecific and __CFRunLoopRun.             *)

Run(m, limit, only) ==
    /\ depth < MaxRuns
    /\ depth > 0 => callout[depth] /\ pc[depth] \in NestIn
    /\ ~ModeIsEmpty(m)
    /\ depth' = depth + 1
    /\ mode' = [mode EXCEPT ![depth + 1] = m]
    /\ term' = [term EXCEPT ![depth + 1] = limit]
    /\ once' = [once EXCEPT ![depth + 1] = only]
    /\ stopped' = [stopped EXCEPT ![depth + 1] = FALSE]
    /\ ignoring' = [ignoring EXCEPT ![depth + 1] = FALSE]
    /\ pc' = [pc EXCEPT ![depth + 1] = Notify("Entry", "start")]
    /\ callout' = [callout EXCEPT ![depth + 1] = "Entry" \in Watched]
    /\ UNCHANGED <<locals, detached, loop, items, job>>

\* Leaves __CFRunLoopRun with result r.
Return(r) ==
    /\ retVal' = [retVal EXCEPT ![depth] = r]
    /\ Step(Notify("Exit", "leave"))

StopAsked == stopped[depth] \/ modeStopped[mode[depth]]

\* The run's own flag goes before the mode's, and only one is taken.
ReturnStopped ==
    /\ StopAsked
    /\ stopped' = [stopped EXCEPT ![depth] = FALSE]
    /\ modeStopped' = IF stopped[depth] THEN modeStopped
                      ELSE [modeStopped EXCEPT ![mode[depth]] = FALSE]
    /\ Return("Stopped")

Start ==
    /\ At("start")
    /\ \/ ReturnStopped
       \/ /\ ~StopAsked
          /\ Step("top")
          /\ UNCHANGED <<stopped, modeStopped, retVal>>
    /\ UNCHANGED <<depth, frame, ignoring, handled, poll, live, counts,
                   detached, wakeUp, queued, items, job>>

\* Mutant: the loop goes on ignoring wake-ups.
TopStillIgnoring ==
    /\ At("top")
    /\ Step(Notify("BeforeTimers", Notify("BeforeSources", "blocks1")))
    /\ UNCHANGED <<depth, frame, perRun, locals, detached, loop, items, job>>

Top ==
    /\ At("top")
    /\ ignoring' = [ignoring EXCEPT ![depth] = FALSE]
    /\ Step(Notify("BeforeTimers", Notify("BeforeSources", "blocks1")))
    /\ UNCHANGED <<depth, frame, stopped, locals, detached, loop, items, job>>

\* A callout with nothing after it but the way on returns.
CalloutEnds ==
    /\ depth > 0
    /\ callout[depth]
    /\ pc[depth] \in DOMAIN After
    /\ Step(After[pc[depth]])
    /\ UNCHANGED <<depth, frame, perRun, locals, detached, loop, items, job>>

\* A block's or a source's callout returns; there may be more to call.
CalloutReturns ==
    /\ depth > 0
    /\ callout[depth]
    /\ pc[depth] \in Passes \cup {"perform"}
    /\ callout' = [callout EXCEPT ![depth] = FALSE]
    /\ UNCHANGED <<depth, pc, frame, perRun, locals, detached, loop, items, job>>

(* __CFRunLoopDoBlocks, in its three places. *)
PassOf == [blocks1 |-> "pass1", blocks2 |-> "pass2", blocks3 |-> "pass3"]
AfterBlocks == [blocks1 |-> "sources", blocks2 |-> "poll", blocks3 |-> "decide"]

TakeBlocks(p) ==
    /\ At(p)
    /\ IF queued = {} THEN Step(AfterBlocks[p]) ELSE Step(PassOf[p])
    /\ due' = [due EXCEPT ![depth] = Matching(mode[depth], queued)]
    /\ held' = [held EXCEPT ![depth] = queued \ Matching(mode[depth], queued)]
    /\ queued' = {}
    /\ UNCHANGED <<depth, frame, perRun, locals, collected, modeStopped, wakeUp,
                   items, job>>

RunBlock(b) ==
    /\ depth > 0
    /\ pc[depth] \in Passes
    /\ ~callout[depth]
    /\ b \in due[depth]
    /\ due' = [due EXCEPT ![depth] = @ \ {b}]
    /\ callout' = [callout EXCEPT ![depth] = TRUE]
    /\ UNCHANGED <<depth, pc, frame, perRun, locals, held, collected, loop, items, job>>

\* Mutant: the list put back replaces what was queued during the pass.
RelinkedOver == IF held[depth] = {} THEN queued ELSE held[depth]

Relinked == queued \cup held[depth]

RelinkBlocks(p) ==
    /\ At(PassOf[p])
    /\ ~callout[depth]
    /\ due[depth] = {}
    /\ queued' = Relinked
    /\ held' = [held EXCEPT ![depth] = {}]
    /\ Step(AfterBlocks[p])
    /\ UNCHANGED <<depth, frame, perRun, locals, due, collected, modeStopped, wakeUp,
                   items, job>>

(* __CFRunLoopDoSources0 *)
CollectSources0 ==
    /\ At("sources")
    /\ collected' = [collected EXCEPT ![depth] = Ready(mode[depth])]
    /\ handled' = [handled EXCEPT ![depth] = FALSE]
    /\ late' = late \ (Sources0 \X {mode[depth]})
    /\ Step(IF Ready(mode[depth]) = {} THEN "poll" ELSE "perform")
    /\ UNCHANGED <<depth, frame, perRun, poll, live, retVal, counts, due, held, loop,
                   sources, valid, signaled, msgs, job>>

HandledEnough == once[depth] /\ handled[depth]

\* Mutant: what the port's source answers replaces what the sources before it did.
HandledByLast(does) == does

\* sourceHandledThisLoop, when a source has been tried and did or did not perform.
HandledBy(does) == handled[depth] \/ does

Counted(n, does) == IF once[depth] /\ does THEN n + 1 ELSE n

MoreSources == collected[depth] # {} /\ ~HandledEnough

\* The source may have been invalidated or served since it was collected.
DoSource0(s) ==
    /\ At("perform")
    /\ ~callout[depth]
    /\ MoreSources
    /\ s \in collected[depth]
    /\ collected' = [collected EXCEPT ![depth] = @ \ {s}]
    /\ signaled' = signaled \ {s}
    /\ late' = late \ ({s} \X Modes)
    /\ LET does == s \in signaled /\ s \in valid
       IN /\ handled' = [handled EXCEPT ![depth] = HandledBy(does)]
          /\ callout' = [callout EXCEPT ![depth] = does]
          /\ served0' = [served0 EXCEPT ![depth] = Counted(@, does)]
    /\ UNCHANGED <<depth, pc, frame, perRun, poll, live, retVal, served1, due, held,
                   loop, sources, valid, msgs, job>>

Sources0Done ==
    /\ At("perform")
    /\ ~callout[depth]
    /\ ~MoreSources
    /\ collected' = [collected EXCEPT ![depth] = {}]
    /\ Step(IF handled[depth] THEN "blocks2" ELSE "poll")
    /\ UNCHANGED <<depth, frame, perRun, locals, due, held, loop, items, job>>

GoToSleep ==
    /\ At("poll")
    /\ LET polls == handled[depth] \/ term[depth] = "zero"
       IN /\ poll' = [poll EXCEPT ![depth] = polls]
          /\ Step(IF polls THEN "asleep" ELSE Notify("BeforeWaiting", "asleep"))
    /\ UNCHANGED <<depth, frame, perRun, handled, live, retVal, counts, detached, loop,
                   items, job>>

Ports(m) == msgs \cap sources[m]

\* mach_msg returns with a message of the mode's port set, or empty-handed
\* when it only polls.  When the timer's port has one is left open.
ServiceMachPort(port) ==
    /\ At("asleep")
    /\ \/ port = "wakeUp" /\ wakeUp
       \/ port = "timer" /\ mode[depth] \in TimerModes
       \/ port \in Ports(mode[depth])
       \/ port = "none" /\ poll[depth] /\ ~wakeUp /\ Ports(mode[depth]) = {}
    /\ wakeUp' = (wakeUp /\ port # "wakeUp")
    /\ msgs' = msgs \ {port}
    /\ live' = [live EXCEPT ![depth] = port]
    /\ Step("woken")
    /\ UNCHANGED <<depth, frame, perRun, handled, poll, retVal, counts, detached,
                   modeStopped, queued, sources, valid, signaled, late, job>>

Relock ==
    /\ At("woken")
    /\ ignoring' = [ignoring EXCEPT ![depth] = TRUE]
    /\ Step(IF poll[depth] THEN "handle" ELSE Notify("AfterWaiting", "handle"))
    /\ UNCHANGED <<depth, frame, stopped, locals, detached, loop, items, job>>

\* A timer's port may fire before __CFRunLoopDoTimers finds a timer due; a
\* source's message is dropped when the source has left the mode meanwhile.
HandleMsg ==
    /\ At("handle")
    /\ \/ Step("blocks3") /\ live[depth] \notin sources[mode[depth]]
       \/ /\ live[depth] = "timer"
          /\ pc' = [pc EXCEPT ![depth] = "timers"]
          /\ callout' = [callout EXCEPT ![depth] = TRUE]
       \/ Step("perform1") /\ live[depth] \in sources[mode[depth]]
    /\ UNCHANGED <<depth, frame, perRun, locals, detached, loop, items, job>>

DoSource1 ==
    /\ At("perform1")
    /\ ~callout[depth]
    /\ LET does == live[depth] \in valid
       IN /\ IF does
             THEN /\ signaled' = signaled \ {live[depth]}
                  /\ callout' = [callout EXCEPT ![depth] = TRUE]
                  /\ UNCHANGED pc
             ELSE Step("blocks3") /\ UNCHANGED signaled
          /\ handled' = [handled EXCEPT ![depth] = HandledBy(does)]
          /\ served1' = [served1 EXCEPT ![depth] = Counted(@, does)]
    /\ UNCHANGED <<depth, frame, perRun, poll, live, retVal, served0, detached, loop,
                   sources, valid, msgs, late, job>>

TimedOut == term[depth] \in {"due", "zero"}

\* The turn's variables go out of scope.
EndOfTurn ==
    /\ handled' = [handled EXCEPT ![depth] = FALSE]
    /\ poll' = [poll EXCEPT ![depth] = FALSE]
    /\ live' = [live EXCEPT ![depth] = "none"]

Decide ==
    /\ At("decide")
    /\ \/ HandledEnough /\ Return("HandledSource") /\ UNCHANGED <<stopped, modeStopped>>
       \/ /\ ~HandledEnough
          /\ TimedOut
          /\ Return("TimedOut")
          /\ UNCHANGED <<stopped, modeStopped>>
       \/ ~HandledEnough /\ ~TimedOut /\ ReturnStopped
       \/ /\ ~HandledEnough /\ ~TimedOut /\ ~StopAsked
          /\ IF ModeIsEmpty(mode[depth]) THEN Return("Finished")
             ELSE Step("top") /\ UNCHANGED retVal
          /\ UNCHANGED <<stopped, modeStopped>>
    /\ EndOfTurn
    /\ UNCHANGED <<depth, frame, ignoring, counts, detached, wakeUp, queued, items, job>>

\* Mutant: the run's data popped twice.
LeaveTwice ==
    /\ At("leave")
    /\ depth' = depth - 2
    /\ UNCHANGED <<pc, callout, perRun, frame, locals, detached, loop, items, job>>

\* Pops the run; what it leaves in the stack is gone.
Leave ==
    /\ At("leave")
    /\ depth' = depth - 1
    /\ pc' = [pc EXCEPT ![depth] = "none"]
    /\ mode' = [mode EXCEPT ![depth] = NoMode]
    /\ term' = [term EXCEPT ![depth] = "never"]
    /\ once' = [once EXCEPT ![depth] = FALSE]
    /\ stopped' = [stopped EXCEPT ![depth] = FALSE]
    /\ ignoring' = [ignoring EXCEPT ![depth] = FALSE]
    /\ retVal' = [retVal EXCEPT ![depth] = "none"]
    /\ served0' = [served0 EXCEPT ![depth] = 0]
    /\ served1' = [served1 EXCEPT ![depth] = 0]
    /\ UNCHANGED <<callout, handled, poll, live, detached, loop, items, job>>
-----------------------------------------------------------------------------
(* The other threads.  Whoever gives the loop work wakes it up afterwards. *)

Free == depth > 0 => pc[depth] \in Unlocked

Does(c, j) == job' = [job EXCEPT ![c] = j]

\* Mutant: only a sleeping loop is sent a message.
SendsToSleepers == At("asleep")

SendsWakeUp == ~ignoring[depth]

WakeUp(c) ==
    /\ job[c] = Wake
    /\ Free
    /\ wakeUp' = (wakeUp \/ SendsWakeUp)
    /\ Does(c, Idle)
    /\ UNCHANGED <<depth, pc, callout, perRun, frame, locals, detached, modeStopped,
                   queued, items>>

Signal(c, s) ==
    /\ job[c] = Idle
    /\ s \in valid
    /\ signaled' = signaled \cup {s}
    /\ late' = late \ ({s} \X Modes)
    /\ Does(c, Wake)
    /\ UNCHANGED <<depth, pc, callout, perRun, frame, locals, detached, loop, sources,
                   valid, msgs>>

PerformBlock(c, b) ==
    /\ job[c] = Idle
    /\ Free
    /\ b \notin queued
    /\ \A r \in Runs : b \notin due[r] \cup held[r]
    /\ queued' = queued \cup {b}
    /\ Does(c, Wake)
    /\ UNCHANGED <<depth, pc, callout, perRun, frame, locals, detached, modeStopped,
                   wakeUp, items>>

\* Mutant: CFRunLoopStop without its wake-up.
StopSilently(c) ==
    /\ job[c] = Idle
    /\ Free
    /\ depth > 0
    /\ stopped' = [stopped EXCEPT ![depth] = TRUE]
    /\ UNCHANGED <<depth, pc, callout, ignoring, frame, locals, detached, loop, items, job>>

Stop(c) ==
    /\ job[c] = Idle
    /\ Free
    /\ depth > 0
    /\ stopped' = [stopped EXCEPT ![depth] = TRUE]
    /\ Does(c, Wake)
    /\ UNCHANGED <<depth, pc, callout, ignoring, frame, locals, detached, loop, items>>

StopMode(c, m) ==
    /\ job[c] = Idle
    /\ Free
    /\ modeStopped' = [modeStopped EXCEPT ![m] = TRUE]
    /\ Does(c, Wake)
    /\ UNCHANGED <<depth, pc, callout, perRun, frame, locals, detached, wakeUp, queued,
                   items>>

\* Something sends a message to the port of source s.
Send(s) ==
    /\ msgs' = msgs \cup {s}
    /\ UNCHANGED <<depth, pc, callout, perRun, frame, locals, detached, loop, sources,
                   valid, signaled, late, job>>

\* CFRunLoopAddSource looks at the source's valid bit before it locks the loop.
AddSource(c, s, m) ==
    /\ job[c] = Idle
    /\ s \in valid
    /\ Does(c, Adding(s, m))
    /\ UNCHANGED <<depth, pc, callout, perRun, frame, locals, detached, loop, items>>

\* Nobody wakes the loop for a source that is added, nor does anything change
\* when the mode has it.
FinishAddSource(c, s, m) ==
    /\ job[c] = Adding(s, m)
    /\ Free
    /\ sources' = [sources EXCEPT ![m] = @ \cup {s}]
    /\ late' = late \cup ({s} \cap (signaled \ sources[m])) \X {m}
    /\ Does(c, Idle)
    /\ UNCHANGED <<depth, pc, callout, perRun, frame, locals, detached, loop, valid,
                   signaled, msgs>>

RemoveSource(c, s, m) ==
    /\ job[c] = Idle
    /\ Free
    /\ s \in sources[m]
    /\ sources' = [sources EXCEPT ![m] = @ \ {s}]
    /\ UNCHANGED <<depth, pc, callout, perRun, frame, locals, detached, loop, valid,
                   signaled, msgs, late, job>>

\* Under the source's lock; rls->_runLoops is empty when no mode has it.
SourceInvalidate(c, s) ==
    /\ job[c] = Idle
    /\ s \in valid
    /\ valid' = valid \ {s}
    /\ signaled' = signaled \ {s}
    /\ late' = late \ ({s} \X Modes)
    /\ Does(c, IF \E m \in Modes : s \in sources[m] THEN Removing(s) ELSE Idle)
    /\ UNCHANGED <<depth, pc, callout, perRun, frame, locals, detached, loop, sources,
                   msgs>>

\* Under the run loop's lock, all modes.
RemoveFromRunLoop(c, s) ==
    /\ job[c] = Removing(s)
    /\ Free
    /\ sources' = [m \in Modes |-> sources[m] \ {s}]
    /\ Does(c, Idle)
    /\ UNCHANGED <<depth, pc, callout, perRun, frame, locals, detached, loop, valid,
                   signaled, msgs, late>>

(* The time limit of a run: __CFRunLoopRun arms it, a dispatch queue fires it. *)
Armed(r) == pc[r] \notin {"none", "Entry", "start", "Exit", "leave"}

DeadlinePasses(r) ==
    /\ Armed(r)
    /\ term[r] = "later"
    /\ term' = [term EXCEPT ![r] = "due"]
    /\ UNCHANGED <<depth, pc, callout, perRun, mode, once, locals, detached, loop, items,
                   job>>

\* Mutant: __CFRunLoopTimeout without its wake-up.
TimeoutSilently(r) ==
    /\ Armed(r)
    /\ term[r] = "due"
    /\ term' = [term EXCEPT ![r] = "zero"]
    /\ UNCHANGED <<depth, pc, callout, perRun, mode, once, locals, detached, loop, items, job>>

Timeout(r) ==
    /\ Armed(r)
    /\ term[r] = "due"
    /\ job[TimerQueue] = Idle
    /\ term' = [term EXCEPT ![r] = "zero"]
    /\ Does(TimerQueue, Wake)
    /\ UNCHANGED <<depth, pc, callout, perRun, mode, once, locals, detached, loop, items>>
-----------------------------------------------------------------------------
LoopStep ==
    \/ Start \/ Top \/ CalloutEnds \/ CalloutReturns
    \/ \E p \in DOMAIN PassOf : TakeBlocks(p) \/ RelinkBlocks(p)
    \/ \E b \in Blocks : RunBlock(b)
    \/ CollectSources0 \/ Sources0Done
    \/ \E s \in Sources0 : DoSource0(s)
    \/ GoToSleep
    \/ \E port \in {"none", "wakeUp", "timer"} \cup Sources1 : ServiceMachPort(port)
    \/ Relock \/ HandleMsg \/ DoSource1 \/ Decide \/ Leave

RunAgain ==
    \E m \in Modes, limit \in Limits, only \in Onces :
        Run(m, limit, only)

ClientStep(c) ==
    \/ Stop(c)
    \/ \E s \in Sources0 : Signal(c, s)
    \/ \E b \in Blocks : PerformBlock(c, b)
    \/ \E m \in Modes : StopMode(c, m)
    \/ \E s \in Sources0 \cup Sources1 :
        \/ SourceInvalidate(c, s)
        \/ RemoveFromRunLoop(c, s)
        \/ \E m \in Modes : AddSource(c, s, m) \/ FinishAddSource(c, s, m)
                            \/ RemoveSource(c, s, m)

Next ==
    \/ LoopStep
    \/ RunAgain
    \/ \E c \in Clients : ClientStep(c)
    \/ \E c \in Callers : WakeUp(c)
    \/ \E s \in Sources1 : Send(s)
    \/ \E r \in Runs : DeadlinePasses(r) \/ Timeout(r)

Spec == Init /\ [][Next]_vars

\* The loop's thread goes on while it can (a callout returns), a caller does
\* not stop before it has woken the loop, and time passes.
Fairness ==
    /\ WF_vars(LoopStep)
    /\ \A c \in Callers : WF_vars(WakeUp(c))
    /\ \A r \in Runs : WF_vars(DeadlinePasses(r)) /\ WF_vars(Timeout(r))

FairSpec == Spec /\ Fairness
-----------------------------------------------------------------------------
(* Properties *)

\* Every variable has its type.
TypeOK ==
    /\ depth \in 0 .. MaxRuns
    /\ mode \in [Runs -> Modes \cup {NoMode}]
    /\ pc \in [Runs -> Locked \cup Unlocked]
    /\ callout \in [Runs -> BOOLEAN]
    /\ stopped \in [Runs -> BOOLEAN]
    /\ ignoring \in [0 .. MaxRuns -> BOOLEAN]
    /\ term \in [Runs -> {"never", "later", "due", "zero"}]
    /\ once \in [Runs -> BOOLEAN]
    /\ handled \in [Runs -> BOOLEAN]
    /\ poll \in [Runs -> BOOLEAN]
    /\ live \in [Runs -> {"none", "wakeUp", "timer"} \cup Sources1]
    /\ retVal \in [Runs -> {"none", "HandledSource", "TimedOut", "Stopped", "Finished"}]
    /\ due \in [Runs -> SUBSET Blocks]
    /\ held \in [Runs -> SUBSET Blocks]
    /\ collected \in [Runs -> SUBSET Sources0]
    /\ modeStopped \in [Modes -> BOOLEAN]
    /\ wakeUp \in BOOLEAN
    /\ queued \subseteq Blocks
    /\ sources \in [Modes -> SUBSET (Sources0 \cup Sources1)]
    /\ valid \subseteq Sources0 \cup Sources1
    /\ signaled \subseteq Sources0
    /\ msgs \subseteq Sources1
    /\ job \in [Callers -> Jobs]
    /\ late \subseteq Sources0 \X Modes
    /\ served0 \in [Runs -> Nat]
    /\ served1 \in [Runs -> Nat]

\* The places of a run from which every way to sleep leads through a new look
\* at the stop flags, the sources and the blocks.
LateCallouts ==
    {"Entry", "perform", "pass2", "AfterWaiting", "timers", "perform1", "pass3", "Exit"}

\* The ready sources of a mode that were signaled, or collected, after they
\* were added to it: CFRunLoopAddSource wakes nobody, so for the others the
\* loop sleeps until something else wakes it.
Told(m) == {s \in Ready(m) : <<s, m>> \notin late}

\* What the executing run would do if it looked.
HasWork ==
    \/ StopAsked
    \/ term[depth] = "zero"
    \/ Told(mode[depth]) # {}
    \/ Matching(mode[depth], queued) # {}

\* No wake-up is lost: while the loop waits for a message without a time limit
\* of its own and has work, a source signaled before it was added apart, its
\* wake-up port has a message or somebody is about to send one - although
\* wake-ups are dropped between the return of mach_msg and the top of the loop,
\* and although the stop flags, signaled bits, blocks and the time limit are
\* set under different locks, or none.
NoLostWakeUp ==
    At("asleep") /\ ~poll[depth] /\ HasWork
        => wakeUp \/ \E c \in Callers : job[c] = Wake

\* The blocks that are queued or with a run that took them.
Known == queued \cup UNION {due[r] \cup held[r] : r \in Runs}

\* A block that leaves the queue is with the run that took it, and comes back
\* or is run: no step makes one disappear.
NoBlockLost ==
    [][\A b \in Known \ Known' : /\ depth > 0 /\ b \in due[depth]
                                 /\ ~callout[depth] /\ callout'[depth]]_vars

\* A run that is to return after one source performs at most one version 0
\* source and at most one version 1 source, whose message it finds when it
\* polls, over all its turns; and it says HandledSource exactly when it has
\* performed one, whatever else has come to an end meanwhile.
OnceServesOnce ==
    \A r \in Runs : once[r] =>
        /\ served0[r] <= 1 /\ served1[r] <= 1
        /\ retVal[r] # "none" =>
              (retVal[r] = "HandledSource" <=> served0[r] + served1[r] > 0)

\* A stopped run ends, however deep its callouts and whatever it waits for.
StopReturns == depth = 1 /\ stopped[1] ~> depth = 0

\* A run with a time limit ends.
TimeoutReturns == depth = 1 /\ term[1] = "later" ~> depth = 0

\* A source of the mode the loop runs in that is signaled after it was added is
\* performed, removed or invalidated, or the run ends.
SourceServed ==
    \A s \in Sources0 :
        (depth = 1 /\ s \in Told(mode[1]))
            ~> (depth = 0 \/ s \notin Ready(mode[1]))

\* A block for the mode the loop runs in is run, or the run ends.
BlockRuns ==
    \A b \in Blocks :
        (depth = 1 /\ b \in Matching(mode[1], queued))
            ~> (depth = 0 \/ b \notin queued \cup due[1])
=============================================================================
