---------------------------- MODULE PyVizProofs ----------------------------
(***************************************************************************)
(* Proofs about the visualizer, for any speeds, any number of timers and   *)
(* of nested calls of update_view_timeout, and any bounds of the model.    *)
(***************************************************************************)
EXTENDS PyViz, SequenceTheorems, TLAPS

(***************************************************************************)
(* The inductive invariant.  NotAheadOfView bounds the target as well, or  *)
(* a run could break it.  What update_view_timeout has taken is counted    *)
(* once only because nothing else is taken before it is shown.  The counts *)
(* have their bounds from what was raised.                                 *)
(***************************************************************************)

TakenIsShownNext == taken # 0 => guiPc = "updated"

PyVizInv == TypeOK /\ NotAheadOfView /\ PausesConserved /\ PlayingIsTimed /\ TakenIsShownNext

\* The variables that the properties read, but for the places of the threads.
counted == <<now, messages, unread, lost, raised, go, quit, target, pauses, idle>>

\* The window opens with its timer and nothing to show.
LEMMA InitInv == Init => PyVizInv
<1> SUFFICES ASSUME Init PROVE PyVizInv
  OBVIOUS
<1>1. period \in Periods /\ period \in Nat
  BY PyVizAssumption DEF Init
<1>2. MaxTime \in Nat /\ MaxPauses \in Nat
  BY PyVizAssumption
<1>3. TypeOK
  <2>1. nested \in Seq(TimerIds)
    BY DEF Init
  <2>2. {now, target, shown} \subseteq 0..MaxTime
    BY <1>2 DEF Init
  <2>3. {messages, pauses, taken, raised, reported} \subseteq 0..MaxPauses /\ idle \in Nat
    BY <1>2 DEF Init
  <2>4. {go, quit, playing, unread, lost} \subseteq BOOLEAN
    BY DEF Init
  <2>5. timers \subseteq TimerIds /\ timerId \in TimerIds \cup {0}
    BY DEF Init
  <2>6. QED
    BY <1>1, <2>1, <2>2, <2>3, <2>4, <2>5 DEF Init, TypeOK
<1>4. NotAheadOfView
  BY <1>1 DEF Init, NotAheadOfView
<1>5. PausesConserved /\ PlayingIsTimed
  BY DEF Init, PausesConserved, PlayingIsTimed
<1>6. TakenIsShownNext
  BY DEF Init, TakenIsShownNext
<1>7. QED
  BY <1>3, <1>4, <1>5, <1>6 DEF PyVizInv

\* A timer that is started is one, and replaces the one that was known.
LEMMA StartUpdateTimerType ==
    ASSUME TypeOK, StartUpdateTimer
    PROVE  timers' \subseteq TimerIds /\ timers' # {} /\ timerId' \in TimerIds
BY DEF TypeOK, StartUpdateTimer

\* Actions that change neither a counter nor what the view has taken, shown or
\* reported: they may start or stop timers, and move the threads.
LEMMA QuietStep ==
    ASSUME PyVizInv, UNCHANGED <<counted, taken, shown, reported>>,
           simPc' \in {"check", "waiting", "woken", "cleared", "locking", "running", "ended"},
           guiPc' \in {"loop", "blocked", "peeking", "try", "updated", "quitting", "joining", "ended"},
           nested' \in Seq(TimerIds), guiPc' \in {"try", "updated"} => nested' # <<>>,
           period' \in Periods, playing' \in BOOLEAN,
           timers' \subseteq TimerIds, timerId' \in TimerIds \cup {0},
           playing' /\ ~quit => timers' # {},
           taken # 0 => guiPc' = "updated"
    PROVE  PyVizInv'
<1>1. TypeOK'
  BY DEF PyVizInv, TypeOK, counted
<1>2. NotAheadOfView'
  BY DEF PyVizInv, NotAheadOfView, counted
<1>3. PausesConserved'
  BY DEF PyVizInv, PausesConserved, counted
<1>4. PlayingIsTimed'
  BY DEF PlayingIsTimed, counted
<1>5. TakenIsShownNext'
  BY DEF TakenIsShownNext
<1>6. QED
  BY <1>1, <1>2, <1>3, <1>4, <1>5 DEF PyVizInv

(***************************************************************************)
(* The simulator thread.                                                   *)
(***************************************************************************)

\* The simulator thread waits for its event and for the lock.
LEMMA SimMovesInv ==
    ASSUME PyVizInv, SimCheck \/ SimWake \/ SimGo \/ SimLock
    PROVE  PyVizInv'
<1>1. UNCHANGED <<simulator, shared, gui>>
  BY DEF SimCheck, SimWake, SimGo, SimLock
<1>2. simPc' \in {"ended", "waiting", "woken", "locking", "running"}
  BY DEF SimCheck, SimWake, SimGo, SimLock, SimMoves
<1>3. QED
  BY <1>1, <1>2, QuietStep
     DEF simulator, shared, gui, timing, view, counted,
         PyVizInv, TypeOK, PlayingIsTimed, TakenIsShownNext

\* Clearing the event loses nothing that the invariant counts.
LEMMA SimClearInv ==
    ASSUME PyVizInv, SimClear
    PROVE  PyVizInv'
<1>1. UNCHANGED <<simulator, quit, target, pauses, idle, gui>> /\ go' = FALSE /\ simPc' = "cleared"
  BY DEF SimClear, SimMoves
<1>2. QED
  BY <1>1 DEF simulator, gui, timing, view,
              PyVizInv, TypeOK, NotAheadOfView, PausesConserved,
              PlayingIsTimed, TakenIsShownNext

\* What a run does to the clock and the messages: time goes on up to the
\* target, and what is raised is in the list of the run.
LEMMA RunBounds ==
    ASSUME PyVizInv, SimulatorRunUntil
    PROVE  /\ now' \in Nat /\ (now' = now \/ now' <= target)
           /\ raised' \in 0..MaxPauses /\ messages' \in 0..MaxPauses
           /\ raised' = raised + messages'
           /\ unread' \in BOOLEAN /\ lost' \in BOOLEAN
<1>1. now \in Nat /\ target \in Nat /\ raised \in 0..MaxPauses /\ MaxPauses \in Nat
      /\ unread \in BOOLEAN /\ lost \in BOOLEAN
  BY PyVizAssumption DEF PyVizInv, TypeOK
<1>2. lost' \in BOOLEAN
  BY <1>1 DEF SimulatorRunUntil
<1>3. CASE now >= target
  <2>1. messages' = 0 /\ unread' = FALSE /\ now' = now /\ raised' = raised
    BY <1>3 DEF SimulatorRunUntil
  <2>2. unread' \in BOOLEAN
    BY <2>1
  <2>3. now' = now /\ now' \in Nat /\ raised' \in 0..MaxPauses
    BY <1>1, <2>1
  <2>4. messages' \in 0..MaxPauses /\ raised' = raised + messages'
    BY <1>1, <2>1
  <2>5. QED
    BY <1>2, <2>2, <2>3, <2>4
<1>4. CASE ~(now >= target)
  <2>1. PICK t \in now + 1..target, paused \in {0, 1} :
            /\ now' = t /\ unread' = TRUE
            /\ raised + paused <= MaxPauses
            /\ raised' = raised + paused /\ messages' = paused
    BY <1>4 DEF SimulatorRunUntil, Run
  <2>2. QED
    BY <1>1, <1>2, <2>1
<1>5. QED
  BY <1>3, <1>4

\* A run ends at the target at the latest and hands its messages on.
LEMMA SimRunInv ==
    ASSUME PyVizInv, SimRun
    PROVE  PyVizInv'
<1>1. /\ now' \in Nat /\ (now' = now \/ now' <= target)
      /\ raised' \in 0..MaxPauses /\ messages' \in 0..MaxPauses
      /\ raised' = raised + messages'
      /\ unread' \in BOOLEAN /\ lost' \in BOOLEAN
  BY RunBounds DEF SimRun
<1>2. /\ pauses' = pauses + messages' /\ idle' = idle + 1 /\ simPc' = "check"
      /\ UNCHANGED <<go, quit, target, guiPc, playing, period, timers, timerId,
                     nested, taken, shown, reported>>
  BY DEF SimRun, SimMoves, gui, timing, view
<1>3. /\ {now, target, shown} \subseteq 0..MaxTime /\ MaxTime \in Nat /\ MaxPauses \in Nat
      /\ {messages, pauses, taken, raised, reported} \subseteq 0..MaxPauses /\ idle \in Nat
      /\ raised = reported + taken + pauses
  BY PyVizAssumption DEF PyVizInv, TypeOK, PausesConserved
<1>4. PausesConserved'
  BY <1>1, <1>2, <1>3 DEF PausesConserved
<1>5. /\ {now', target', shown'} \subseteq 0..MaxTime
      /\ {messages', pauses', taken', raised', reported'} \subseteq 0..MaxPauses /\ idle' \in Nat
  BY <1>1, <1>2, <1>3
<1>6. TypeOK'
  BY <1>1, <1>2, <1>5 DEF PyVizInv, TypeOK
<1>7. NotAheadOfView'
  <2>1. PICK p \in Periods : now <= shown + p /\ target <= shown + p
    BY DEF PyVizInv, NotAheadOfView
  <2>2. p \in Nat
    BY PyVizAssumption
  <2>3. now' <= shown' + p /\ target' <= shown' + p
    BY <1>1, <1>2, <1>3, <2>1, <2>2
  <2>4. QED
    BY <2>3 DEF NotAheadOfView
<1>8. PlayingIsTimed'
  BY <1>2 DEF PyVizInv, PlayingIsTimed
<1>9. TakenIsShownNext'
  BY <1>2 DEF PyVizInv, TakenIsShownNext
<1>10. QED
  BY <1>4, <1>6, <1>7, <1>8, <1>9 DEF PyVizInv

(***************************************************************************)
(* The GUI thread.                                                         *)
(***************************************************************************)

\* What the user does, but for closing the window.
LEMMA UserInv ==
    ASSUME PyVizInv, PlayButtonOn \/ PlayButtonOff \/ SpeedChanged \/ UseSimulator \/ PeekAtSimulator
    PROVE  PyVizInv'
<1>0. TypeOK /\ PlayingIsTimed /\ taken = 0
  BY DEF PyVizInv, TakenIsShownNext,
         PlayButtonOn, PlayButtonOff, SpeedChanged, UseSimulator, PeekAtSimulator, Handling, GuiMoves
<1>1. CASE PlayButtonOn
  <2>1. timers' \subseteq TimerIds /\ timers' # {} /\ timerId' \in TimerIds
    BY <1>0, <1>1, StartUpdateTimerType DEF PlayButtonOn
  <2>2. /\ UNCHANGED <<simulator, simPc, shared, period, view>>
        /\ playing' = TRUE /\ guiPc' = "loop"
    BY <1>1 DEF PlayButtonOn, Handling, GuiMoves
  <2>3. QED
    BY <1>0, <2>1, <2>2, QuietStep DEF simulator, shared, view, counted, TypeOK
<1>2. CASE PlayButtonOff
  <2>1. /\ UNCHANGED <<simulator, simPc, shared, period, timerId, view>>
        /\ playing' = FALSE /\ guiPc' = "loop" /\ timers' = timers \ {timerId}
    BY <1>2 DEF PlayButtonOff, Handling, GuiMoves
  <2>2. QED
    BY <1>0, <2>1, QuietStep DEF simulator, shared, view, counted, TypeOK
<1>3. CASE SpeedChanged
  <2>1. timers' \subseteq TimerIds /\ timers' # {} /\ timerId' \in TimerIds
    BY <1>0, <1>3, StartUpdateTimerType DEF SpeedChanged
  <2>2. /\ UNCHANGED <<simulator, simPc, shared, playing, view>>
        /\ period' \in Periods /\ guiPc' = "loop"
    BY <1>3 DEF SpeedChanged, Handling, GuiMoves
  <2>3. QED
    BY <1>0, <2>1, <2>2, QuietStep DEF simulator, shared, view, counted, TypeOK
<1>4. CASE UseSimulator \/ PeekAtSimulator
  <2>1. UNCHANGED <<simulator, simPc, shared, timing, view>> /\ guiPc' \in {"blocked", "peeking"}
    BY <1>4 DEF UseSimulator, PeekAtSimulator, Handling, GuiMoves
  <2>2. QED
    BY <1>0, <2>1, QuietStep DEF simulator, shared, timing, view, counted, TypeOK, PlayingIsTimed
<1>5. QED
  BY <1>1, <1>2, <1>3, <1>4

\* Waiting for the lock, and what is handled while waiting.
LEMMA GuiMovesInv ==
    ASSUME PyVizInv, SimulatorUsed \/ PeekEnds \/ SimulatorBusy \/ NothingPending \/ Joined
    PROVE  PyVizInv'
<1>1. UNCHANGED <<simulator, simPc, shared, timing, view>>
  BY DEF SimulatorUsed, PeekEnds, SimulatorBusy, NothingPending, Joined
<1>2. guiPc' \in {"loop", "try", "ended"} /\ (guiPc' = "try" => nested # <<>>) /\ taken = 0
  BY DEF PyVizInv, TypeOK, TakenIsShownNext,
          SimulatorUsed, PeekEnds, SimulatorBusy, NothingPending, Joined, Handling, GuiMoves
<1>3. QED
  BY <1>1, <1>2, QuietStep
     DEF simulator, shared, timing, view, counted,
         PyVizInv, TypeOK, PlayingIsTimed, TakenIsShownNext

\* Fetching the samples leaves everything but them as it is.
LEMMA UpdateModelInv ==
    ASSUME PyVizInv, UpdateModel
    PROVE  PyVizInv'
<1>1. /\ guiPc' = "loop" /\ idle > 0 /\ idle' = idle - 1 /\ unread' = FALSE
      /\ UNCHANGED <<now, messages, lost, raised, simPc, go, quit, target, pauses, timing, view>>
  BY DEF UpdateModel, GuiMoves
<1>2. idle' \in Nat
  BY <1>1 DEF PyVizInv, TypeOK
<1>3. taken = 0
  BY DEF PyVizInv, TakenIsShownNext, UpdateModel, GuiMoves
<1>4. TypeOK'
  BY <1>1, <1>2 DEF timing, view, PyVizInv, TypeOK
<1>5. NotAheadOfView' /\ PausesConserved' /\ PlayingIsTimed' /\ TakenIsShownNext'
  BY <1>1, <1>3 DEF timing, view, PyVizInv, NotAheadOfView, PausesConserved,
              PlayingIsTimed, TakenIsShownNext
<1>6. QED
  BY <1>4, <1>5 DEF PyVizInv

\* A timer that fires puts a call on the stack.
LEMMA UpdateViewTimeoutInv ==
    ASSUME PyVizInv, NEW timer \in TimerIds, UpdateViewTimeout(timer)
    PROVE  PyVizInv'
<1>1. /\ UNCHANGED <<simulator, simPc, shared, timing, taken, shown, reported>>
      /\ nested' = Append(nested, timer) /\ guiPc' = "try"
  BY DEF UpdateViewTimeout, Handling, GuiMoves
<1>2. nested' \in Seq(TimerIds) /\ nested' # <<>>
  BY <1>1, AppendProperties DEF PyVizInv, TypeOK
<1>3. taken = 0
  BY DEF PyVizInv, TakenIsShownNext, UpdateViewTimeout, Handling, GuiMoves
<1>4. QED
  BY <1>1, <1>2, <1>3, QuietStep DEF simulator, shared, timing, counted,
         PyVizInv, TypeOK, PlayingIsTimed, TakenIsShownNext

\* The view shows the time it is; the target is a period later, or sooner.
LEMMA UpdateViewInv ==
    ASSUME PyVizInv, UpdateView
    PROVE  PyVizInv'
<1>1. /\ guiPc = "try" /\ guiPc' = "updated"
      /\ taken' = pauses /\ pauses' = 0 /\ shown' = now /\ target' = NextTarget
      /\ UNCHANGED <<simulator, simPc, go, quit, idle, timing, nested, reported>>
  BY DEF UpdateView, GuiMoves
<1>2. /\ now \in 0..MaxTime /\ MaxTime \in Nat /\ MaxPauses \in Nat
      /\ period \in Periods /\ period \in Nat
      /\ {pauses, taken, reported, raised} \subseteq 0..MaxPauses
  BY PyVizAssumption DEF PyVizInv, TypeOK
<1>3. target' \in 0..MaxTime /\ target' <= now + period
  BY <1>1, <1>2 DEF NextTarget, Min2
<1>4. NotAheadOfView'
  <2>1. now' <= shown' + period /\ target' <= shown' + period
    BY <1>1, <1>2, <1>3 DEF simulator
  <2>2. QED
    BY <1>2, <2>1 DEF NotAheadOfView
<1>5. PausesConserved'
  <2>1. raised = reported + taken + pauses /\ taken = 0
    BY <1>1 DEF PyVizInv, PausesConserved, TakenIsShownNext
  <2>2. QED
    BY <1>1, <1>2, <2>1 DEF PausesConserved, simulator
<1>6. TypeOK'
  <2>1. {now', target', shown'} \subseteq 0..MaxTime
    BY <1>1, <1>2, <1>3 DEF simulator
  <2>2. {messages', pauses', taken', raised', reported'} \subseteq 0..MaxPauses /\ idle' \in Nat
    BY <1>1, <1>2 DEF simulator, PyVizInv, TypeOK
  <2>3. nested' \in Seq(TimerIds) /\ nested' # <<>>
    BY <1>1 DEF PyVizInv, TypeOK
  <2>4. QED
    BY <1>1, <2>1, <2>2, <2>3 DEF simulator, timing, PyVizInv, TypeOK
<1>7. PlayingIsTimed' /\ TakenIsShownNext'
  BY <1>1 DEF timing, PyVizInv, PlayingIsTimed, TakenIsShownNext
<1>8. QED
  BY <1>4, <1>5, <1>6, <1>7 DEF PyVizInv

\* The calls below one on the stack.
LEMMA CallersType ==
    ASSUME TypeOK
    PROVE  Callers \in Seq(TimerIds)
<1>1. nested \in Seq(TimerIds)
  BY DEF TypeOK
<1>2. CASE nested = <<>>
  BY <1>2 DEF Callers
<1>3. CASE nested # <<>>
  <2>1. Len(nested) \in Nat /\ Len(nested) > 0
    BY <1>1, <1>3, EmptySeq, LenProperties
  <2>2. 1 \in 1..Len(nested) + 1 /\ Len(nested) - 1 \in 1 - 1..Len(nested)
    BY <2>1
  <2>3. QED
    BY <1>1, <2>1, SubSeqProperties DEF Callers
<1>4. QED
  BY <1>2, <1>3

\* What was taken is reported once; a view that goes on keeps its timers.
LEMMA UpdateViewEndsInv ==
    ASSUME PyVizInv, UpdateViewEnds
    PROVE  PyVizInv'
<1>1. /\ guiPc' = IF ~quit THEN "loop" ELSE IF Callers = <<>> THEN "ended" ELSE "try"
      /\ reported' = reported + taken /\ taken' = 0 /\ playing' = (playing /\ taken = 0)
      /\ nested' = Callers
      /\ UNCHANGED <<simulator, simPc, quit, target, pauses, idle, period, shown>>
  BY DEF UpdateViewEnds, GuiMoves
<1>2. TypeOK /\ PlayingIsTimed /\ PausesConserved
  BY DEF PyVizInv
<1>3. /\ MaxPauses \in Nat /\ raised = reported + taken + pauses
      /\ {pauses, taken, reported, raised} \subseteq 0..MaxPauses
  BY <1>2, PyVizAssumption DEF TypeOK, PausesConserved
<1>4. PausesConserved'
  BY <1>1, <1>3 DEF PausesConserved, simulator
<1>5. {messages', pauses', taken', raised', reported'} \subseteq 0..MaxPauses
  BY <1>1, <1>2, <1>3 DEF simulator, TypeOK
<1>6. playing' \in BOOLEAN
  BY <1>1
<1>7. timers' \subseteq timers /\ timerId' \in {0, timerId} /\ go' \in BOOLEAN
  BY <1>2 DEF UpdateViewEnds, GoOnUnlessPaused, TypeOK
<1>8. playing' => timers' = timers /\ playing
  <2>1. SUFFICES ASSUME playing' PROVE timers' = timers /\ playing
    OBVIOUS
  <2>2. playing /\ taken = 0
    BY <1>1, <2>1
  <2>3. ~(taken > 0)
    BY <2>2
  <2>4. QED
    BY <2>2, <2>3 DEF UpdateViewEnds, GoOnUnlessPaused
<1>9. nested' \in Seq(TimerIds) /\ (guiPc' = "try" => nested' # <<>>)
  BY <1>1, <1>2, CallersType
<1>10. TypeOK'
  BY <1>1, <1>2, <1>5, <1>6, <1>7, <1>9 DEF simulator, TypeOK
<1>11. NotAheadOfView' /\ PlayingIsTimed' /\ TakenIsShownNext'
  BY <1>1, <1>2, <1>8 DEF PyVizInv, NotAheadOfView, PlayingIsTimed, TakenIsShownNext, simulator
<1>12. QED
  BY <1>4, <1>10, <1>11 DEF PyVizInv

\* Closing the window stops the timer and tells the simulator thread.
LEMMA QuitInv ==
    ASSUME PyVizInv, Quit \/ QuitLetsGo
    PROVE  PyVizInv'
<1>1. /\ UNCHANGED <<simulator, simPc, target, pauses, idle, playing, period, view>>
      /\ guiPc' \in {"quitting", "joining"} /\ taken = 0
      /\ timers' \subseteq TimerIds /\ timerId' \in TimerIds \cup {0}
  BY DEF Quit, QuitLetsGo, Handling, GuiMoves, timing, PyVizInv, TypeOK, TakenIsShownNext
<1>2. go' \in BOOLEAN /\ quit' \in BOOLEAN
  BY DEF Quit, QuitLetsGo, TellToQuit, PyVizInv, TypeOK
<1>3. PlayingIsTimed'
  <2>1. CASE Quit
    BY <2>1 DEF Quit, TellToQuit, PlayingIsTimed
  <2>2. CASE QuitLetsGo
    BY <2>2 DEF QuitLetsGo, TellToQuit, timing, PyVizInv, PlayingIsTimed
  <2>3. QED
    BY <2>1, <2>2
<1>4. TypeOK'
  BY <1>1, <1>2 DEF simulator, view, PyVizInv, TypeOK
<1>5. NotAheadOfView' /\ PausesConserved' /\ TakenIsShownNext'
  BY <1>1 DEF simulator, view, PyVizInv, NotAheadOfView, PausesConserved, TakenIsShownNext
<1>6. QED
  BY <1>3, <1>4, <1>5 DEF PyVizInv

(***************************************************************************)
(* The theorems.                                                           *)
(***************************************************************************)

\* Every step keeps the invariant.
LEMMA NextInv == PyVizInv /\ [Next]_vars => PyVizInv'
<1> SUFFICES ASSUME PyVizInv, [Next]_vars PROVE PyVizInv'
  OBVIOUS
<1>1. CASE SimulatorThread
  BY <1>1, SimMovesInv, SimClearInv, SimRunInv DEF SimulatorThread
<1>2. CASE GuiGoesOn
  BY <1>2, GuiMovesInv, UpdateModelInv, UpdateViewInv, UpdateViewEndsInv, QuitInv DEF GuiGoesOn
<1>3. CASE NothingPending
  BY <1>3, GuiMovesInv
<1>4. CASE TimeoutFires
  BY <1>4, UpdateViewTimeoutInv DEF TimeoutFires
<1>5. CASE User
  BY <1>5, UserInv, QuitInv DEF User
<1>6. CASE UNCHANGED vars
  BY <1>6 DEF vars, simulator, shared, timing, view, gui, PyVizInv, TypeOK, NotAheadOfView,
              PausesConserved, PlayingIsTimed, TakenIsShownNext
<1>7. QED
  BY <1>1, <1>2, <1>3, <1>4, <1>5, <1>6 DEF Next, Closed

\* The inductive invariant holds in every behaviour of the visualizer.
THEOREM PyVizInvariant == Spec => []PyVizInv
BY InitInv, NextInv, PTL DEF Spec

\* The types and bounds of the visualizer's state.
THEOREM TypeCorrect == Spec => []TypeOK
<1>1. PyVizInv => TypeOK
  BY DEF PyVizInv
<1>2. QED
  BY <1>1, PyVizInvariant, PTL

\* The simulator is never ahead of the view by more than one period, whenever
\* and however often the simulator thread is let go.
THEOREM NeverAhead == Spec => []NotAheadOfView
<1>1. PyVizInv => NotAheadOfView
  BY DEF PyVizInv
<1>2. QED
  BY <1>1, PyVizInvariant, PTL

\* No pause message is lost or shown twice on its way through the two lists.
THEOREM NoPauseLost == Spec => []PausesConserved
<1>1. PyVizInv => PausesConserved
  BY DEF PyVizInv
<1>2. QED
  BY <1>1, PyVizInvariant, PTL

\* An active play button has a timer, whatever is clicked while calls of
\* update_view_timeout wait for the simulator.
THEOREM PlayingHasTimer == Spec => []PlayingIsTimed
<1>1. PyVizInv => PlayingIsTimed
  BY DEF PyVizInv
<1>2. QED
  BY <1>1, PyVizInvariant, PTL
=============================================================================
