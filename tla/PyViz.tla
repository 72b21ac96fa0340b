------------------------------- MODULE PyViz -------------------------------
(***************************************************************************)
(* The visualizer: the thread of the GUI (class Visualizer, in the GLib    *)
(* main loop) and the thread of the simulator (class SimulationThread with *)
(* ns3::PyViz), which share the simulator under a lock.  Neither the GUI   *)
(* nor anyone else keeps the lock while something else happens, except the *)
(* simulator thread, which has it exactly at "running".                    *)
(***************************************************************************)
EXTENDS Naturals, Sequences, FiniteSets

CONSTANTS
    Periods,      \* values of sample_period: SAMPLE_PERIOD times the speed
    TimerIds,     \* bound of the model: identities of GLib timeout sources
    MaxNested,    \* bound of the model: calls of update_view_timeout on the stack
    MaxTime,      \* bound of the model: simulated time
    MaxPauses     \* bound of the model: calls of PyViz::Pause

ASSUME PyVizAssumption ==
    /\ Periods \subseteq Nat \ {0} /\ TimerIds \subseteq Nat \ {0}
    /\ {MaxNested, MaxTime, MaxPauses} \subseteq Nat

VARIABLES
    now,          \* Simulator::Now
    messages,     \* m_pauseMessages, their number
    unread,       \* are there samples that nobody has fetched yet
    simPc,        \* where SimulationThread.run is
    go,           \* the event the simulator thread waits for
    quit,         \* self.quit
    target,       \* target_time
    pauses,       \* pause_messages, their number
    idle,         \* calls of update_model added to the main loop
    guiPc,        \* where the GUI thread is
    playing,      \* is the play button active
    period,       \* sample_period
    timers,       \* the live timeout sources
    timerId,      \* _update_timeout_id, 0 for None
    nested,       \* calls of update_view_timeout on the stack, by their timers
    taken,        \* pause_messages of update_view_timeout, their number
    shown,        \* history: the time the view was last updated at
    raised,       \* history: calls of PyViz::Pause
    reported,     \* history: pause messages shown
    lost          \* history: have samples been cleared that nobody fetched

simulator == <<now, messages, unread, lost, raised>>
shared == <<go, quit, target, pauses, idle>>
timing == <<playing, period, timers, timerId>>
view == <<nested, taken, shown, reported>>
gui == <<guiPc, timing, view>>
vars == <<simulator, simPc, shared, gui>>

Min2(a, b) == IF a <= b THEN a ELSE b

\* Creating the widgets starts the update timer (_speed_changed).
Init ==
    /\ now = 0 /\ messages = 0 /\ unread = FALSE /\ simPc = "check"
    /\ go = FALSE /\ quit = FALSE /\ target = 0 /\ pauses = 0 /\ idle = 0
    /\ guiPc = "loop" /\ playing = FALSE /\ period \in Periods
    /\ timerId \in TimerIds /\ timers = {timerId} /\ \A id \in TimerIds : timerId <= id
    /\ nested = <<>> /\ taken = 0
    /\ shown = 0 /\ raised = 0 /\ reported = 0 /\ lost = FALSE

---------------------------------------------------------------------------
(***************************************************************************)
(* The simulator thread.                                                   *)
(***************************************************************************)

SimMoves(from, to) == simPc = from /\ simPc' = to

SimCheck ==
    /\ SimMoves("check", IF quit THEN "ended" ELSE "waiting")
    /\ UNCHANGED <<simulator, shared, gui>>

SimWake == SimMoves("waiting", "woken") /\ go /\ UNCHANGED <<simulator, shared, gui>>

SimClear ==
    /\ SimMoves("woken", "cleared")
    /\ go' = FALSE
    /\ UNCHANGED <<simulator, quit, target, pauses, idle, gui>>

SimGo ==
    /\ SimMoves("cleared", IF quit THEN "ended" ELSE "locking")
    /\ UNCHANGED <<simulator, shared, gui>>

SimLock == SimMoves("locking", "running") /\ UNCHANGED <<simulator, shared, gui>>

\* The simulator runs up to the target, or a stop of its program, and its
\* events pause the visualizer at most once.
Run ==
    \E t \in now + 1..target, paused \in {0, 1} :
        /\ now' = t /\ unread' = TRUE
        /\ raised + paused <= MaxPauses
        /\ raised' = raised + paused /\ messages' = paused

\* Mutant: with nothing to run it returns before anything is cleared.
SimulatorRunUntilEarly ==
    IF now >= target
    THEN UNCHANGED simulator
    ELSE lost' = (lost \/ unread) /\ Run

\* m_stop is set by Pause and never read: a pause lets the period run to its end.
SimulatorRunUntil ==
    /\ lost' = (lost \/ unread)
    /\ IF now >= target
       THEN messages' = 0 /\ unread' = FALSE /\ UNCHANGED <<now, raised>>
       ELSE Run

SimRun ==
    /\ SimMoves("running", "check")
    /\ SimulatorRunUntil
    /\ pauses' = pauses + messages'
    /\ idle' = idle + 1
    /\ UNCHANGED <<go, quit, target, gui>>

---------------------------------------------------------------------------
(***************************************************************************)
(* The timers of the GUI.                                                  *)
(***************************************************************************)

OnStack == {nested[k] : k \in DOMAIN nested}

\* An identity for a new source: the least that nothing refers to.
Fresh(id) ==
    LET unused == TimerIds \ (timers \cup OnStack \cup {timerId})
    IN  id \in unused /\ \A other \in unused : id <= other

\* Mutant: a timer is not started while there is an identity of one.
StartUpdateTimerUnlessKnown ==
    \/ timerId # 0 /\ UNCHANGED <<timers, timerId>>
    \/ timerId = 0 /\ \E id \in TimerIds :
           Fresh(id) /\ timers' = timers \cup {id} /\ timerId' = id

StartUpdateTimer ==
    \E id \in TimerIds :
        /\ Fresh(id)
        /\ timers' = (timers \ {timerId}) \cup {id}
        /\ timerId' = id

---------------------------------------------------------------------------
(***************************************************************************)
(* The GUI thread.  It handles events in the main loop, and in the calls   *)
(* of update_view_timeout that find the simulator running.                 *)
(***************************************************************************)

GuiMoves(from, to) == guiPc = from /\ guiPc' = to

\* PRIORITY_UPDATE_MODEL is above that of all other sources.
Handling(to) == GuiMoves("loop", to) /\ idle = 0 /\ ~quit

\* The samples of the period are fetched (simulation-periodic-update).
UpdateModel ==
    /\ GuiMoves("loop", "loop")
    /\ idle > 0 /\ simPc # "running"
    /\ idle' = idle - 1
    /\ unread' = FALSE
    /\ UNCHANGED <<now, messages, lost, raised, simPc, go, quit, target, pauses,
                   timing, view>>

PlayButtonOn ==
    /\ Handling("loop") /\ ~playing
    /\ playing' = TRUE
    /\ StartUpdateTimer
    /\ UNCHANGED <<simulator, simPc, shared, period, view>>

\* The identity of the removed source is kept.
PlayButtonOff ==
    /\ Handling("loop") /\ playing
    /\ playing' = FALSE
    /\ timers' = timers \ {timerId}
    /\ UNCHANGED <<simulator, simPc, shared, period, timerId, view>>

SpeedChanged ==
    /\ Handling("loop")
    /\ period' \in Periods \ {period}
    /\ StartUpdateTimer
    /\ UNCHANGED <<simulator, simPc, shared, playing, view>>

\* A tooltip, a dragged node or a command of the shell waits for the lock.
UseSimulator ==
    /\ Handling("blocked")
    /\ UNCHANGED <<simulator, simPc, shared, timing, view>>

SimulatorUsed ==
    /\ GuiMoves("blocked", "loop")
    /\ simPc # "running"
    /\ UNCHANGED <<simulator, simPc, shared, timing, view>>

\* The node menu and autoscale_view use the simulator without the lock.
PeekAtSimulator ==
    /\ Handling("peeking")
    /\ UNCHANGED <<simulator, simPc, shared, timing, view>>

PeekEnds ==
    /\ GuiMoves("peeking", "loop")
    /\ UNCHANGED <<simulator, simPc, shared, timing, view>>

\* A timeout source is not dispatched while its callback runs.
UpdateViewTimeout(timer) ==
    /\ Handling("try")
    /\ timer \in timers \ OnStack
    /\ Len(nested) < MaxNested
    /\ nested' = Append(nested, timer)
    /\ UNCHANGED <<simulator, simPc, shared, timing, taken, shown, reported>>

\* The simulator is busy: handle what is pending, then try again.
SimulatorBusy ==
    /\ GuiMoves("try", "loop")
    /\ simPc = "running"
    /\ UNCHANGED <<simulator, simPc, shared, timing, view>>

NothingPending ==
    /\ Handling("try")
    /\ nested # <<>>
    /\ UNCHANGED <<simulator, simPc, shared, timing, view>>

\* Mutant: the target is counted from the target of before.
NextTargetFromTarget == Min2(target + period, MaxTime)

NextTarget == Min2(now + period, MaxTime)

UpdateView ==
    /\ GuiMoves("try", "updated")
    /\ simPc # "running"
    /\ taken' = pauses /\ pauses' = 0
    /\ shown' = now
    /\ target' = NextTarget
    /\ UNCHANGED <<simulator, simPc, go, quit, idle, timing, nested, reported>>

Callers == SubSeq(nested, 1, Len(nested) - 1)

\* Mutant: a paused view keeps its timer and lets the simulator go on.
GoOnEvenIfPaused ==
    /\ timers' = IF taken > 0 /\ playing THEN timers \ {timerId} ELSE timers
    /\ UNCHANGED timerId
    /\ go' = TRUE

GoOnUnlessPaused ==
    LET off == IF taken > 0 /\ playing THEN {timerId} ELSE {}
    IN  IF taken > 0 \/ ~playing
        THEN /\ timers' = (timers \ off) \ {nested[Len(nested)]}
             /\ timerId' = 0
             /\ UNCHANGED go
        ELSE go' = TRUE /\ UNCHANGED <<timers, timerId>>

\* The rest of update_view_timeout, after the lock is released: the messages
\* are shown and pause the view; a view that is not paused goes on.
UpdateViewEnds ==
    /\ GuiMoves("updated", IF ~quit THEN "loop" ELSE IF Callers = <<>> THEN "ended" ELSE "try")
    /\ reported' = reported + taken /\ taken' = 0
    /\ playing' = (playing /\ taken = 0)
    /\ GoOnUnlessPaused
    /\ nested' = Callers
    /\ UNCHANGED <<simulator, simPc, quit, target, pauses, idle, period, shown>>

\* Mutant: the simulator thread is let go before it is told to quit.
TellToQuitSwapped(first) ==
    IF first THEN go' = TRUE /\ UNCHANGED quit ELSE quit' = TRUE /\ UNCHANGED go

\* The simulator thread is told to quit first, and let go second.
TellToQuit(first) ==
    IF first THEN quit' = TRUE /\ UNCHANGED go ELSE go' = TRUE /\ UNCHANGED quit

Quit ==
    /\ Handling("quitting")
    /\ timers' = timers \ {timerId} /\ timerId' = 0
    /\ TellToQuit(TRUE)
    /\ UNCHANGED <<simulator, simPc, target, pauses, idle, playing, period, view>>

QuitLetsGo ==
    /\ GuiMoves("quitting", "joining")
    /\ TellToQuit(FALSE)
    /\ UNCHANGED <<simulator, simPc, target, pauses, idle, timing, view>>

\* The main loop ends once every nested call has returned.
Joined ==
    /\ GuiMoves("joining", IF nested = <<>> THEN "ended" ELSE "try")
    /\ simPc = "ended"
    /\ UNCHANGED <<simulator, simPc, shared, timing, view>>

---------------------------------------------------------------------------
(***************************************************************************)
(* The whole.                                                              *)
(***************************************************************************)

SimulatorThread ==
    SimCheck \/ SimWake \/ SimClear \/ SimGo \/ SimLock \/ SimRun

TimeoutFires == \E timer \in TimerIds : UpdateViewTimeout(timer)

User ==
    \/ PlayButtonOn \/ PlayButtonOff \/ SpeedChanged
    \/ UseSimulator \/ PeekAtSimulator \/ Quit

\* What the GUI thread does without waiting for anybody.
GuiGoesOn ==
    \/ UpdateModel \/ SimulatorUsed \/ PeekEnds
    \/ SimulatorBusy \/ UpdateView \/ UpdateViewEnds
    \/ QuitLetsGo \/ Joined

Closed == guiPc = "ended" /\ simPc = "ended" /\ UNCHANGED vars

Next == SimulatorThread \/ GuiGoesOn \/ NothingPending \/ TimeoutFires \/ User \/ Closed

\* Both threads run.  The user leaves the main loop idle again and again, and
\* long enough for a timer: that takes strong fairness, since handling what
\* the user does disables what the main loop would come to otherwise.
Fairness ==
    /\ WF_vars(SimulatorThread) /\ WF_vars(GuiGoesOn)
    /\ SF_vars(NothingPending) /\ SF_vars(TimeoutFires)

Spec == Init /\ [][Next]_vars /\ Fairness

---------------------------------------------------------------------------
(***************************************************************************)
(* Properties.                                                             *)
(***************************************************************************)

TypeOK ==
    /\ {now, target, shown} \subseteq 0..MaxTime
    /\ {messages, pauses, taken, raised, reported} \subseteq 0..MaxPauses /\ idle \in Nat
    /\ {go, quit, playing, unread, lost} \subseteq BOOLEAN
    /\ simPc \in {"check", "waiting", "woken", "cleared", "locking", "running", "ended"}
    /\ guiPc \in {"loop", "blocked", "peeking", "try", "updated", "quitting", "joining", "ended"}
    /\ period \in Periods
    /\ timers \subseteq TimerIds /\ timerId \in TimerIds \cup {0}
    /\ nested \in Seq(TimerIds)
    /\ guiPc \in {"try", "updated"} => nested # <<>>

\* The simulator is never ahead of the view by more than one period, at the
\* slowest or the fastest speed there is, however often and from wherever the
\* simulator thread is let go.
NotAheadOfView == \E p \in Periods : now <= shown + p /\ target <= shown + p

\* Every call of PyViz::Pause is shown once, or still waits to be shown.
PausesConserved == raised = reported + taken + pauses

\* A view that is playing has a timer: no sequence of clicks, changes of speed
\* and pauses, at whatever point of a call of update_view_timeout they come,
\* leaves a play button that is active and does nothing.
PlayingIsTimed == playing /\ ~quit => timers # {}

\* While the play button is active, simulated time goes on.
PlayProgress ==
    \A t \in 0..MaxTime :
        playing /\ now = t /\ t < MaxTime ~> now > t \/ ~playing \/ quit

\* When the play button is off the simulator thread comes to rest.
PauseTakesEffect == ~playing ~> (simPc = "waiting" /\ ~go) \/ playing \/ quit

\* Closing the window ends both threads.
QuitEnds == quit ~> guiPc = "ended" /\ simPc = "ended"

\* "signal emitted after every simulation period (SAMPLE_PERIOD seconds of
\* simulated time)": the samples of every period are fetched.
\* It fails: see the README.
EveryPeriodSampled == ~lost

\* "NS 3 is not thread safe, so it could cause serious problems": the GUI uses
\* the simulator only while the simulator thread does not.  It fails: see
\* the README.
SimulatorNotShared == ~(guiPc = "peeking" /\ simPc = "running")
=============================================================================
