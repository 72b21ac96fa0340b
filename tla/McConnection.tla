--------------------------- MODULE McConnection ---------------------------
(***************************************************************************)
(* A dual connected UE among mmWave cells and the LTE cell that            *)
(* coordinates them: the coordinator, the contexts of the mmWave cells and *)
(* the two RRC entities of the UE (LteUeRrc, once for LTE and once with    *)
(* m_isSecondaryRRC), over X2 and the radio.                               *)
(***************************************************************************)
EXTENDS MmWaveCoordinator, MmWaveUeContext

VARIABLES
    ueState,       \* of the secondary RRC
    ueRnti,        \* m_rnti of the secondary RRC, a context; 0 for none
    ueMmWaveRnti,  \* m_mmWaveRnti of the LTE RRC
    uplinkMmWave,  \* m_useMmWaveConnection of the bearer's McUePdcp
    handoverTo,    \* the context the UE is accessing, 0 for none
    lteUl          \* RRC messages under way from the UE over LTE

ueVars == <<ueState, ueRnti, ueMmWaveRnti, uplinkMmWave, handoverTo, lteUl>>
vars == <<coordinatorVars, contextVars, ueVars, x2>>

Init ==
    /\ X2Init /\ CoordinatorInit /\ UeContextInit
    /\ ueState = "Idle" /\ ueRnti = 0 /\ ueMmWaveRnti = 0
    /\ uplinkMmWave = FALSE /\ handoverTo = 0 /\ lteUl = <<>>

---------------------------------------------------------------------------
(***************************************************************************)
(* The UE.                                                                 *)
(***************************************************************************)

FromLte(type) == lteDl # <<>> /\ Head(lteDl).type = type

\* The UE connects to the mmWave cell: NAS, random access and RRC set-up up to
\* NotifySecondaryCellConnected, in one step.
UeConnectToMmWave ==
    /\ FromLte("Connect") /\ ueState = "Idle"
    /\ LET cell == Head(lteDl).cell
           id == Len(ctx) + 1
       IN  /\ ctx' = Append(ctx, NewContext(cell, "Connected", 0, FALSE))
           /\ imsiRnti' = [imsiRnti EXCEPT ![cell] = id]
           /\ ueRnti' = id /\ ueMmWaveRnti' = id
           /\ lteUl' = Append(lteUl, [type |-> "SecondaryCellConnected", rnti |-> id, cell |-> cell])
    /\ ueState' = "Connected"
    /\ lteDl' = Tail(lteDl)
    /\ UNCHANGED <<mode, served, allInOutage, handover, secondary, decisions, x2,
                   forwarding, commands, completes, mishaps, uplinkMmWave, handoverTo>>

\* The mmWave RLC of the bearer is created and the PDCP uses it.
UeReconfigure ==
    /\ FromLte("Reconfiguration")
    /\ uplinkMmWave' = TRUE
    /\ lteUl' = Append(lteUl, [type |-> "ReconfigurationCompleted"])
    /\ lteDl' = Tail(lteDl)
    /\ UNCHANGED <<mode, served, allInOutage, handover, secondary, decisions, x2, contextVars,
                   ueState, ueRnti, ueMmWaveRnti, handoverTo>>

UeRecvConnectionSwitch ==
    /\ FromLte("Switch")
    /\ LET msg == Head(lteDl)
       IN  uplinkMmWave' = IF msg.bearer THEN msg.mmWave ELSE uplinkMmWave
    /\ lteDl' = Tail(lteDl)
    /\ UNCHANGED <<mode, served, allInOutage, handover, secondary, decisions, x2, contextVars,
                   ueState, ueRnti, ueMmWaveRnti, handoverTo, lteUl>>

\* The command reaches the secondary RRC, which goes to the target and has the
\* LTE RRC renew the mmWave RLC: that leaves the uplink of the PDCP as it is.
UeRecvHandoverCommand ==
    /\ ueState = "Connected"
    /\ \E command \in commands :
           /\ command.from = ueRnti /\ ueMmWaveRnti = ueRnti
           /\ commands' = commands \ {command}
           /\ ueRnti' = command.to /\ ueMmWaveRnti' = command.to
           /\ handoverTo' = command.to
    /\ ueState' = "Handover"
    /\ UNCHANGED <<coordinatorVars, contexts, completes, mishaps, x2, uplinkMmWave, lteUl>>

UeRandomAccessSuccessful ==
    /\ ueState = "Handover"
    /\ ctx[handoverTo].state = "Joining"
    /\ completes' = completes \cup {handoverTo}
    /\ ueState' = "Connected" /\ handoverTo' = 0
    /\ UNCHANGED <<coordinatorVars, contexts, commands, mishaps, x2,
                   ueRnti, ueMmWaveRnti, uplinkMmWave, lteUl>>

\* The UE stays in CONNECTED_HANDOVER: re-establishment is not implemented.
UeRandomAccessFailed ==
    /\ ueState = "Handover"
    /\ Mishap
    /\ ueState' = "Failed"
    /\ UNCHANGED <<coordinatorVars, contexts, commands, completes, x2,
                   ueRnti, ueMmWaveRnti, uplinkMmWave, handoverTo, lteUl>>

RecvSecondaryCellConnected ==
    /\ lteUl # <<>> /\ Head(lteUl).type = "SecondaryCellConnected"
    /\ RecvSecondaryCellInitialAccess(Head(lteUl).rnti, Head(lteUl).cell)
    /\ lteUl' = Tail(lteUl)
    /\ UNCHANGED <<contextVars, ueState, ueRnti, ueMmWaveRnti, uplinkMmWave, handoverTo>>

RecvUeReconfigured ==
    /\ lteUl # <<>> /\ Head(lteUl).type = "ReconfigurationCompleted"
    /\ RecvReconfigurationCompleted
    /\ lteUl' = Tail(lteUl)
    /\ UNCHANGED <<contextVars, ueState, ueRnti, ueMmWaveRnti, uplinkMmWave, handoverTo>>

---------------------------------------------------------------------------
(***************************************************************************)
(* The whole.                                                              *)
(***************************************************************************)

\* Every m_crtPeriod the coordinator looks at the SINR of the cells.
Trigger ==
    /\ \E sinr \in [Cells -> SinrLevels] : TriggerUeAssociationUpdate(sinr)
    /\ UNCHANGED <<contextVars, ueVars>>

TimeToTrigger == PerformHandover /\ UNCHANGED <<contextVars, ueVars>>

CoordinatorReceives ==
    \E cell \in Cells :
        /\ \/ RecvRlcSetupCompleted(cell)
           \/ RecvSecondaryCellHandoverCompleted(cell)
           \/ RecvHandoverFailed(cell)
        /\ UNCHANGED <<contextVars, ueVars>>

CellReceives ==
    \E cell \in Cells :
        /\ \/ RecvRlcSetupRequest(cell)
           \/ RecvMcHandoverRequest(cell)
           \/ RecvSwitchConnection(cell)
           \/ RecvUeContextRelease(cell)
           \/ \E other \in Cells \ {cell} :
                  \/ AdmitHandover(other, cell)
                  \/ RecvHandoverRequestAck(other, cell)
                  \/ RecvHandoverPreparationFailure(other, cell)
        /\ UNCHANGED <<coordinatorVars, ueVars>>

CellHearsUe ==
    \E id \in DOMAIN ctx :
        RecvReconfigurationComplete(id) /\ UNCHANGED <<coordinatorVars, ueVars>>

Timers ==
    \E id \in DOMAIN ctx :
        /\ \/ HandoverJoiningTimeout(id) \/ RemoveUe(id) \/ HandoverLeavingTimeout(id)
        /\ UNCHANGED <<coordinatorVars, ueVars>>

Mishaps ==
    /\ \/ \E cell \in Cells : \E other \in Cells \ {cell} : RefuseHandover(other, cell)
       \/ LoseCommand
       \/ LoseComplete
    /\ UNCHANGED <<coordinatorVars, ueVars>>

Ue ==
    \/ UeConnectToMmWave \/ UeReconfigure \/ UeRecvConnectionSwitch
    \/ UeRecvHandoverCommand \/ UeRandomAccessSuccessful

LteCellHearsUe == RecvSecondaryCellConnected \/ RecvUeReconfigured

Next ==
    \/ Trigger \/ TimeToTrigger
    \/ CoordinatorReceives \/ CellReceives \/ CellHearsUe \/ LteCellHearsUe
    \/ Ue \/ UeRandomAccessFailed
    \/ Timers \/ Mishaps

\* The event queue of the simulator runs what is scheduled: messages arrive,
\* timers expire and the coordinator goes on deciding.  Mishaps need not happen.
Fairness ==
    /\ WF_vars(CoordinatorReceives) /\ WF_vars(CellReceives)
    /\ WF_vars(CellHearsUe) /\ WF_vars(LteCellHearsUe)
    /\ WF_vars(Ue) /\ WF_vars(Timers)
    /\ WF_vars(TimeToTrigger)
    /\ WF_vars(\E sinr \in [Cells -> SinrLevels] :
                   ConnectToMmWave(sinr) /\ UNCHANGED <<contextVars, ueVars>>)

Spec == Init /\ [][Next]_vars /\ Fairness

---------------------------------------------------------------------------
(***************************************************************************)
(* Properties.                                                             *)
(***************************************************************************)

Contexts == 0..Len(ctx)

TypeOK ==
    /\ mode \in Modes /\ decisions \in 0..MaxDecisions /\ mishaps \in 0..MaxMishaps
    /\ {lastCell, mmWaveCell} \subseteq Cells \cup {0}
    /\ {setup, usingLte, allInOutage, reconfiguring, bearerIsMc,
        downlinkMmWave, uplinkMmWave} \subseteq BOOLEAN
    /\ handover \in [source : Cells \cup {0}, target : Cells \cup {0}]
    /\ {mmWaveRnti, ueRnti, ueMmWaveRnti, handoverTo} \subseteq Contexts
    /\ imsiRnti \in [Cells -> Contexts]
    /\ forwarding \in [Cells -> Cells \cup {0}]
    /\ completes \subseteq Contexts
    /\ \A id \in DOMAIN ctx : ctx[id].cell \in Cells /\ ctx[id].state \in States
    /\ ueState \in {"Idle", "Connected", "Handover", "Failed"}

\* What is under way between the cells, of one type.
UnderWay(type) ==
    {link \in Interfaces : \E k \in DOMAIN x2[link] : x2[link][k].type = type}

ServingContext == ctx[mmWaveRnti]

\* A handover that waits for its time to trigger is one of a UE that mmWave
\* serves, that is not being handed over, and that is still where it was
\* (PerformHandover asserts the last, long after it was scheduled).
ScheduledHandoverIsCurrent ==
    handover # NoHandover =>
        /\ setup /\ ~usingLte
        /\ handover.source = lastCell /\ handover.target # lastCell

\* While the coordinator takes no handover to be running, none is: no request,
\* command or completion of one is under way and no context is in the middle.
\* A request therefore never finds a context in HANDOVER_JOINING.
SetupMeansIdle ==
    setup =>
        /\ \A type \in {"McHandoverRequest", "HandoverRequest", "HandoverRequestAck",
                          "SecondaryCellHandoverCompleted", "RlcSetupRequest", "RlcSetupCompleted"} :
               UnderWay(type) = {}
        /\ commands = {} /\ completes = {}
        /\ \A id \in DOMAIN ctx : ctx[id].state \notin {"Preparation", "Joining"}

\* If nothing has gone wrong, a UE that is not being handed over has, at the
\* cell it was last connected to, the context the coordinator and both RRC
\* entities of the UE know, with an RLC for the bearer.
ServedByItsContext ==
    setup /\ mishaps = 0 =>
        /\ Found(lastCell, mmWaveRnti) /\ mmWaveCell = lastCell
        /\ ServingContext.state = "Connected" /\ ServingContext.rlc
        /\ imsiRnti[lastCell] = mmWaveRnti
        /\ ueRnti = mmWaveRnti /\ ueMmWaveRnti = mmWaveRnti

\* What the handler of a message asserts of the context it looks up.
CanHandle(from, to, msg) ==
    CASE msg.type = "McHandoverRequest" -> InState(to, imsiRnti[to], "Connected")
      [] msg.type = "RlcSetupRequest" -> Found(to, msg.rnti)
      [] msg.type = "SwitchConnection" -> Found(to, msg.rnti) /\ ctx[msg.rnti].rlc
      [] msg.type = "UeContextRelease" -> InState(to, msg.rnti, "Leaving") /\ forwarding[to] # 0
      [] msg.type = "HandoverRequestAck" ->
             InState(to, msg.source, "Preparation") /\ forwarding[to] = 0
      [] msg.type = "HandoverPreparationFailure" ->
             InState(to, msg.source, "Preparation") /\ ctx[msg.source].target = from
      [] OTHER -> TRUE

\* If nothing has gone wrong, every message meets, when it arrives, the context
\* it is about in a state its handler asserts, whatever else the coordinator
\* has decided meanwhile and however the cells' messages overtake each other.
HandlersAccept ==
    mishaps = 0 =>
        \A link \in Interfaces :
            x2[link] # <<>> => CanHandle(link[1], link[2], Head(x2[link]))

\* A cell forwards what arrives for the UE exactly while one of the contexts it
\* has of the UE is leaving.
ForwardingMeansLeaving ==
    mishaps = 0 =>
        \A cell \in Cells :
            forwarding[cell] # 0 <=> \E id \in DOMAIN ctx : InState(cell, id, "Leaving")

\* The path of the downlink is the one the coordinator believes in.
DownlinkPath == lastCell # 0 => downlinkMmWave = ~usingLte

NothingGoesWrong == [](mishaps = 0)

\* A handover the coordinator has asked for ends, and it decides again.
HandoverEnds == NothingGoesWrong => (lastCell # 0 /\ ~setup ~> setup)

\* A UE that connects to a cell at its first connection, or with a time to
\* trigger after an outage, gets its secondary cell.
SecondaryCellIsSetUp ==
    NothingGoesWrong => (mode = "ttt" \/ ~allInOutage ~> setup)

\* TriggerUeAssociationUpdate promises the same with THRESHOLD: "perform
\* initial access to mmWave eNB, since for the first time one mmWave eNB is not
\* in outage!"
OutageAtInitialAccessEnds == allInOutage ~> lastCell # 0

\* EpcX2 asserts that it knows every procedure code it receives, and the cell
\* of a failed handover means to "notify the LTE eNB (coordinator) of the failure".
\* It fails: see the README.
ProcedureCodeSupported == \A cell \in Cells : ~Arrived(cell, LteCell, "HandoverFailed")

\* RecvHandoverPreparationFailure asserts that the cell that refuses is the one
\* the context was to go to.  It fails: see the README.
RefusalIsFromTheTarget ==
    \A cell \in Cells : \A target \in Cells \ {cell} :
        Arrived(target, cell, "HandoverPreparationFailure") =>
            ctx[Oldest(target, cell).source].target = target
=============================================================================
