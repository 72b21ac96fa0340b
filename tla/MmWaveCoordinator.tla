------------------------- MODULE MmWaveCoordinator -------------------------
(***************************************************************************)
(* The LTE cell of a dual connected UE (LteEnbRrc with m_ismmWave false    *)
(* and m_interRatHoMode false, and its UeManager for the UE).  It collects *)
(* the SINR of the UE at every mmWave cell and, once every m_crtPeriod,    *)
(* decides whether the UE is served by LTE or by mmWave and from which     *)
(* cell.  One UE is modelled: all the state below is per IMSI.             *)
(***************************************************************************)
EXTENDS McX2, FiniteSets

CONSTANTS
    Modes,                     \* the values of m_handoverMode explored
    SinrLevels,                \* SINR of a cell, in steps of a few dB
    OutageThreshold,           \* m_outageThreshold
    LteHysteresis,             \* the 2 dB a UE on LTE needs on top of it
    SinrThresholdDifference,   \* m_sinrThresholdDifference
    MaxDecisions               \* bound of the model: decisions that send

\* A UE has an entry in m_imsiCellSinrMap from the first report of a cell, so
\* that there is a best of the cells, and there are finitely many.
ASSUME CoordinatorAssumption ==
    /\ Cells # {} /\ IsFiniteSet(Cells)
    /\ Modes \subseteq {"threshold", "ttt"}
    /\ SinrLevels \subseteq Nat /\ OutageThreshold \in Nat
    /\ LteHysteresis \in Nat /\ SinrThresholdDifference \in Nat
    /\ MaxDecisions \in Nat

VARIABLES
    mode,           \* m_handoverMode: THRESHOLD, or FIXED_TTT and DYNAMIC_TTT
    lastCell,       \* m_lastMmWaveCell, 0 before the first
    setup,          \* m_mmWaveCellSetupCompleted; its negation is onHandoverImsi
    usingLte,       \* m_imsiUsingLte
    allInOutage,    \* m_allMmWaveInOutageAtInitialAccess
    handover,       \* the entry of m_imsiHandoverEventsMap, or NoHandover
    reconfiguring,  \* is the UeManager in MC_CONNECTION_RECONFIGURATION
    bearerIsMc,     \* m_isMc of the data bearer
    mmWaveCell,     \* m_mmWaveCellId of the UeManager
    mmWaveRnti,     \* m_mmWaveRnti of the UeManager
    downlinkMmWave, \* m_useMmWaveConnection of the bearer's McEnbPdcp
    lteDl,          \* RRC messages under way to the UE over LTE
    decisions       \* history: decisions that have sent something

served == <<lastCell, setup, usingLte, downlinkMmWave>>
secondary == <<reconfiguring, bearerIsMc, mmWaveCell, mmWaveRnti>>
coordinatorVars ==
    <<mode, served, allInOutage, handover, secondary, lteDl, decisions>>

NoHandover == [source |-> 0, target |-> 0]
Handover(target) == [source |-> lastCell, target |-> target]

\* The UE has its LTE bearer.  At that moment either no mmWave cell was out of
\* outage, or it was told to connect to the best one (SwitchToState).
CoordinatorInit ==
    /\ mode \in Modes
    /\ lastCell = 0 /\ setup = FALSE
    /\ allInOutage \in BOOLEAN /\ usingLte = allInOutage
    /\ handover = NoHandover
    /\ reconfiguring = FALSE /\ bearerIsMc = FALSE
    /\ mmWaveCell = 0 /\ mmWaveRnti = 0
    /\ downlinkMmWave = FALSE
    /\ \/ allInOutage /\ lteDl = <<>>
       \/ ~allInOutage /\ \E cell \in Cells : lteDl = <<[type |-> "Connect", cell |-> cell]>>
    /\ decisions = 0

---------------------------------------------------------------------------
(***************************************************************************)
(* Deciding.                                                               *)
(***************************************************************************)

\* The cell with the greatest SINR; of several, the first in the map.
Best(sinr) ==
    CHOOSE c \in Cells : \A d \in Cells \ {c} :
        sinr[c] > sinr[d] \/ (sinr[c] = sinr[d] /\ c < d)

NoCellServes(sinr) ==
    sinr[Best(sinr)] < OutageThreshold + (IF usingLte THEN LteHysteresis ELSE 0)

Exceeds(sinr, cell, other) == sinr[cell] > sinr[other] + SinrThresholdDifference

Decide == decisions < MaxDecisions /\ decisions' = decisions + 1

SendRrcConnectionSwitch(useMmWave) ==
    /\ downlinkMmWave' = IF bearerIsMc THEN useMmWave ELSE downlinkMmWave
    /\ x2' = IF bearerIsMc /\ ~useMmWave
             THEN Sent(x2, LteCell, mmWaveCell, [type |-> "SwitchConnection", rnti |-> mmWaveRnti])
             ELSE x2
    /\ lteDl' = Append(lteDl, [type |-> "Switch", mmWave |-> useMmWave, bearer |-> bearerIsMc])

\* Mutant: the coordinator does not note that a handover is running.
SendMcHandoverRequestUnnoted(target) ==
    /\ x2' = Sent(x2, LteCell, lastCell, [type |-> "McHandoverRequest", target |-> target])
    /\ UNCHANGED setup

SendMcHandoverRequest(target) ==
    /\ x2' = Sent(x2, LteCell, lastCell, [type |-> "McHandoverRequest", target |-> target])
    /\ setup' = FALSE

\* Mutant: the handover stays scheduled.
CancelHandoverNot == UNCHANGED handover

CancelHandover == handover' = NoHandover

\* No mmWave cell can serve the UE: fall back to LTE, whatever is running.
FallBackToLte(sinr) ==
    /\ NoCellServes(sinr) /\ ~usingLte
    /\ Decide
    /\ usingLte' = TRUE
    /\ SendRrcConnectionSwitch(FALSE)
    /\ CancelHandover
    /\ UNCHANGED <<mode, lastCell, setup, allInOutage, secondary>>

\* Mutant: also with a time to trigger the set-up must have been completed.
MayConnectOnceSetUp == setup

MayConnect == mode = "threshold" => setup

\* A UE that found every cell in outage when it connected to LTE is told to
\* connect to the first that is not.  THRESHOLD asks for a completed set-up
\* as well, and leaves the flag as it is.
ConnectToMmWave(sinr) ==
    /\ ~NoCellServes(sinr) /\ usingLte /\ allInOutage
    /\ MayConnect
    /\ Decide
    /\ lteDl' = Append(lteDl, [type |-> "Connect", cell |-> Best(sinr)])
    /\ allInOutage' = (mode = "threshold")
    /\ UNCHANGED <<mode, served, handover, secondary, x2>>

\* A UE on LTE goes back to the mmWave cell it has.
ReturnToMmWave(sinr) ==
    /\ ~NoCellServes(sinr) /\ usingLte /\ ~allInOutage
    /\ setup /\ Best(sinr) = lastCell
    /\ Decide
    /\ usingLte' = FALSE
    /\ SendRrcConnectionSwitch(TRUE)
    /\ UNCHANGED <<mode, lastCell, setup, allInOutage, handover, secondary>>

\* A handover at once: of a UE on LTE, and with THRESHOLD of a UE on mmWave
\* when the best cell is better by the threshold.
HandOverNow(sinr) ==
    /\ ~NoCellServes(sinr)
    /\ setup /\ Best(sinr) # lastCell
    /\ \/ usingLte /\ ~allInOutage
       \/ ~usingLte /\ mode = "threshold" /\ Exceeds(sinr, Best(sinr), lastCell)
    /\ Decide
    /\ SendMcHandoverRequest(Best(sinr))
    /\ UNCHANGED <<mode, lastCell, usingLte, downlinkMmWave, allInOutage, handover, secondary, lteDl>>

\* What becomes of the scheduled handover.  The time to trigger is not modelled:
\* whether a handover to the same target is scheduled afresh is left open.
Rescheduled(sinr) ==
    LET best == Best(sinr)
        toBest == IF best = lastCell THEN NoHandover ELSE Handover(best)
    IN  CASE handover = NoHandover -> {toBest}
          [] handover # NoHandover /\ handover.target = best -> {handover, Handover(best)}
          [] OTHER -> {IF best = lastCell \/ Exceeds(sinr, best, handover.target)
                       THEN toBest ELSE handover}

TttBasedHandover(sinr) ==
    /\ ~NoCellServes(sinr) /\ ~usingLte
    /\ mode = "ttt" /\ setup
    /\ handover' \in Rescheduled(sinr)
    /\ UNCHANGED <<mode, served, allInOutage, secondary, lteDl, decisions, x2>>

\* There is nothing to change.
KeepServing(sinr) ==
    /\ \/ NoCellServes(sinr) /\ usingLte
       \/ ~NoCellServes(sinr) /\ ~setup /\ (usingLte /\ mode = "ttt" => ~allInOutage)
       \/ /\ ~NoCellServes(sinr) /\ setup /\ ~usingLte /\ mode = "threshold"
          /\ Best(sinr) = lastCell \/ ~Exceeds(sinr, Best(sinr), lastCell)
    /\ UNCHANGED <<coordinatorVars, x2>>

\* The time to trigger is over.
PerformHandover ==
    /\ handover # NoHandover
    /\ handover.source = lastCell     \* NS_ASSERT_MSG
    /\ IF setup
       THEN Decide /\ SendMcHandoverRequest(handover.target)
       ELSE UNCHANGED <<decisions, setup, x2>>
    /\ handover' = NoHandover
    /\ UNCHANGED <<mode, lastCell, usingLte, downlinkMmWave, allInOutage, secondary, lteDl>>

TriggerUeAssociationUpdate(sinr) ==
    \/ FallBackToLte(sinr)
    \/ ConnectToMmWave(sinr)
    \/ ReturnToMmWave(sinr)
    \/ HandOverNow(sinr)
    \/ TttBasedHandover(sinr)
    \/ KeepServing(sinr)

---------------------------------------------------------------------------
(***************************************************************************)
(* Setting up the secondary cell and following its handovers.              *)
(***************************************************************************)

\* Mutants: the downlink stays where it was; the handover is not marked as
\* completed; the cell of the coordinator itself is noted.
ServeOverOldLeg(cell) ==
    lastCell' = cell /\ setup' = TRUE /\ usingLte' = FALSE /\ UNCHANGED downlinkMmWave
ServeUnfinished(cell) ==
    lastCell' = cell /\ usingLte' = FALSE /\ downlinkMmWave' = TRUE /\ UNCHANGED setup
ServeFromLte(cell) ==
    lastCell' = LteCell /\ setup' = TRUE /\ usingLte' = FALSE /\ downlinkMmWave' = TRUE

Serve(cell) ==
    lastCell' = cell /\ setup' = TRUE /\ usingLte' = FALSE /\ downlinkMmWave' = TRUE

\* Mutant: the RNTI at the first cell is kept.
NoteSecondaryOnce(cell, rnti) ==
    /\ mmWaveCell' = cell
    /\ mmWaveRnti' = IF mmWaveRnti = 0 THEN rnti ELSE mmWaveRnti

NoteSecondary(cell, rnti) == mmWaveCell' = cell /\ mmWaveRnti' = rnti

\* The UE reports over LTE the mmWave cell it has connected to.
RecvSecondaryCellInitialAccess(rnti, cell) ==
    /\ NoteSecondary(cell, rnti)
    /\ x2' = IF ~bearerIsMc \/ lastCell # cell
             THEN Sent(x2, LteCell, cell, [type |-> "RlcSetupRequest", rnti |-> rnti])
             ELSE x2
    /\ UNCHANGED <<mode, served, allInOutage, handover, reconfiguring, bearerIsMc, lteDl, decisions>>

RecvRlcSetupCompleted(cell) ==
    /\ Arrived(cell, LteCell, "RlcSetupCompleted")
    /\ x2' = Received(x2, cell, LteCell)
    /\ bearerIsMc' = TRUE
    /\ reconfiguring' = TRUE
    /\ lteDl' = Append(lteDl, [type |-> "Reconfiguration"])
    /\ UNCHANGED <<mode, served, allInOutage, handover, mmWaveCell, mmWaveRnti, decisions>>

RecvReconfigurationCompleted ==
    /\ reconfiguring
    /\ reconfiguring' = FALSE
    /\ Serve(mmWaveCell)
    /\ UNCHANGED <<mode, allInOutage, handover, bearerIsMc, mmWaveCell, mmWaveRnti, lteDl, decisions, x2>>

\* Mutant: the release goes to the cell the UE has come to.
ReleasingTarget(links, cell, source) ==
    Sent(links, LteCell, cell, [type |-> "UeContextRelease", rnti |-> source])

\* The release of the source goes to the cell of before, known by mmWaveCell.
ReleasingSource(links, cell, source) ==
    Sent(links, LteCell, mmWaveCell, [type |-> "UeContextRelease", rnti |-> source])

RecvSecondaryCellHandoverCompleted(cell) ==
    /\ Arrived(cell, LteCell, "SecondaryCellHandoverCompleted")
    /\ LET msg == Oldest(cell, LteCell)
       IN  /\ x2' = ReleasingSource(Received(x2, cell, LteCell), cell, msg.source)
           /\ NoteSecondary(cell, msg.rnti)
    /\ IF ~bearerIsMc \/ lastCell # cell THEN Serve(cell) ELSE UNCHANGED served
    /\ UNCHANGED <<mode, allInOutage, handover, reconfiguring, bearerIsMc, lteDl, decisions>>

\* RecvFromX2cSocket has no case for this message: a build with assertions
\* stops, one without drops it.
RecvHandoverFailed(cell) ==
    /\ Arrived(cell, LteCell, "HandoverFailed")
    /\ x2' = Received(x2, cell, LteCell)
    /\ UNCHANGED coordinatorVars
=============================================================================
