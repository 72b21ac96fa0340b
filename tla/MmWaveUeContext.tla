-------------------------- MODULE MmWaveUeContext --------------------------
(***************************************************************************)
(* The contexts that the mmWave cells keep of a dual connected UE          *)
(* (LteEnbRrc with m_ismmWave true and its UeManagers, m_isMc true), and   *)
(* the forwarding that EpcX2 does while the UE is handed over from one     *)
(* mmWave cell to another.  The target keeps a context of its own, so that *)
(* the UE may have several; they are numbered over all the cells.          *)
(***************************************************************************)
EXTENDS McX2

CONSTANT MaxMishaps    \* bound of the model: what may go wrong, in all

ASSUME UeContextAssumption == MaxMishaps \in Nat

VARIABLES
    ctx,          \* the contexts there have been, in the order of their making
    imsiRnti,     \* m_imsiRntiMap of each cell: the newest context, 0 for none
    forwarding,   \* m_teidToBeForwardedMap of each cell: the target, 0 for none
    commands,     \* handover commands under way to the UE
    completes,    \* contexts whose RRC reconfiguration complete is under way
    mishaps       \* history: what has gone wrong

contexts == <<ctx, imsiRnti, forwarding>>
contextVars == <<contexts, commands, completes, mishaps>>

States == {"Connected", "Preparation", "Joining", "Leaving", "Removed"}

UeContextInit ==
    /\ ctx = <<>>
    /\ imsiRnti = [cell \in Cells |-> 0]
    /\ forwarding = [cell \in Cells |-> 0]
    /\ commands = {} /\ completes = {}
    /\ mishaps = 0

NewContext(cell, state, source, rlc) ==
    [cell |-> cell, state |-> state, source |-> source, target |-> 0,
     rlc |-> rlc,         \* is m_rlcMap not empty
     requests |-> rlc,    \* is m_rlcRequestVector not empty
     expired |-> FALSE]   \* has m_handoverJoiningTimeout expired

\* GetUeManager finds the context at the cell.
Found(cell, id) ==
    /\ id \in DOMAIN ctx
    /\ ctx[id].cell = cell /\ ctx[id].state # "Removed"

InState(cell, id, state) == Found(cell, id) /\ ctx[id].state = state

Mishap == mishaps < MaxMishaps /\ mishaps' = mishaps + 1

---------------------------------------------------------------------------
(***************************************************************************)
(* Messages from the LTE cell.  The assertions of the handlers are         *)
(* conjuncts: a message that meets none of its handler's states stays.     *)
(***************************************************************************)

RecvRlcSetupRequest(cell) ==
    /\ Arrived(LteCell, cell, "RlcSetupRequest")
    /\ LET id == Oldest(LteCell, cell).rnti
       IN  /\ Found(cell, id)
           /\ ctx' = [ctx EXCEPT ![id].rlc = TRUE, ![id].requests = TRUE]
           /\ x2' = IF ctx[id].state # "Joining"
                    THEN Sent(Received(x2, LteCell, cell), cell, LteCell,
                              [type |-> "RlcSetupCompleted"])
                    ELSE Received(x2, LteCell, cell)
    /\ UNCHANGED <<imsiRnti, forwarding, commands, completes, mishaps>>

\* PrepareHandover of a UE that is CONNECTED_NORMALLY.  A request that finds it
\* in HANDOVER_JOINING would be queued; SetupMeansIdle shows there is none.
RecvMcHandoverRequest(cell) ==
    /\ Arrived(LteCell, cell, "McHandoverRequest")
    /\ LET id == imsiRnti[cell]
           target == Oldest(LteCell, cell).target
       IN  /\ InState(cell, id, "Connected")
           /\ ctx' = [ctx EXCEPT ![id].state = "Preparation", ![id].target = target,
                                 ![id].requests = FALSE]
           /\ x2' = Sent(Received(x2, LteCell, cell), cell, target,
                         [type |-> "HandoverRequest", source |-> id, rlc |-> ctx[id].requests])
    /\ UNCHANGED <<imsiRnti, forwarding, commands, completes, mishaps>>

\* The UE falls back to LTE: what the RLC has buffered goes to the LTE cell,
\* also while the cell is preparing a handover to another.
RecvSwitchConnection(cell) ==
    /\ Arrived(LteCell, cell, "SwitchConnection")
    /\ LET id == Oldest(LteCell, cell).rnti
       IN  /\ Found(cell, id) /\ ctx[id].rlc
           /\ ctx' = [ctx EXCEPT ![id].target = LteCell]
    /\ x2' = Received(x2, LteCell, cell)
    /\ UNCHANGED <<imsiRnti, forwarding, commands, completes, mishaps>>

\* Mutant: RemoveTeidToBeForwarded is left out.
StopForwardingNot(cell) == UNCHANGED forwarding

StopForwarding(cell) == forwarding' = [forwarding EXCEPT ![cell] = 0]

RecvUeContextRelease(cell) ==
    /\ Arrived(LteCell, cell, "UeContextRelease")
    /\ LET id == Oldest(LteCell, cell).rnti
       IN  /\ InState(cell, id, "Leaving") /\ forwarding[cell] # 0
           /\ ctx' = [ctx EXCEPT ![id].state = "Removed"]
    /\ StopForwarding(cell)
    /\ x2' = Received(x2, LteCell, cell)
    /\ UNCHANGED <<imsiRnti, commands, completes, mishaps>>

---------------------------------------------------------------------------
(***************************************************************************)
(* Messages from another mmWave cell.                                      *)
(***************************************************************************)

AdmitHandover(source, cell) ==
    /\ Arrived(source, cell, "HandoverRequest")
    /\ LET msg == Oldest(source, cell)
           id == Len(ctx) + 1
       IN  /\ ctx' = Append(ctx, NewContext(cell, "Joining", msg.source, msg.rlc))
           /\ imsiRnti' = [imsiRnti EXCEPT ![cell] = id]
           /\ x2' = Sent(Received(x2, source, cell), cell, source,
                         [type |-> "HandoverRequestAck", source |-> msg.source, new |-> id])
    /\ UNCHANGED <<forwarding, commands, completes, mishaps>>

\* m_admitHandoverRequest of the cell is false.
RefuseHandover(source, cell) ==
    /\ Arrived(source, cell, "HandoverRequest")
    /\ Mishap
    /\ x2' = Sent(Received(x2, source, cell), cell, source,
                  [type |-> "HandoverPreparationFailure", source |-> Oldest(source, cell).source])
    /\ UNCHANGED <<contexts, commands, completes>>

RecvHandoverRequestAck(target, cell) ==
    /\ Arrived(target, cell, "HandoverRequestAck")
    /\ LET msg == Oldest(target, cell)
       IN  /\ Found(cell, msg.source) /\ forwarding[cell] = 0
           /\ ctx' = [ctx EXCEPT ![msg.source].state = "Leaving"]
           /\ commands' = commands \cup {[from |-> msg.source, to |-> msg.new]}
    /\ forwarding' = [forwarding EXCEPT ![cell] = target]
    /\ x2' = Received(x2, target, cell)
    /\ UNCHANGED <<imsiRnti, completes, mishaps>>

RecvHandoverPreparationFailure(target, cell) ==
    /\ Arrived(target, cell, "HandoverPreparationFailure")
    /\ LET id == Oldest(target, cell).source
       IN  /\ InState(cell, id, "Preparation") /\ ctx[id].target = target
           /\ ctx' = [ctx EXCEPT ![id].state = "Connected"]
    /\ x2' = Received(x2, target, cell)
    /\ UNCHANGED <<imsiRnti, forwarding, commands, completes, mishaps>>

---------------------------------------------------------------------------
(***************************************************************************)
(* The UE at the target, and the timers.                                   *)
(***************************************************************************)

\* The UE tells the target that it has come (HANDOVER_JOINING).
RecvReconfigurationComplete(id) ==
    /\ id \in completes
    /\ ctx[id].state = "Joining"
    /\ ctx' = [ctx EXCEPT ![id].state = "Connected"]
    /\ completes' = completes \ {id}
    /\ x2' = Sent(x2, ctx[id].cell, LteCell,
                  [type |-> "SecondaryCellHandoverCompleted", rnti |-> id, source |-> ctx[id].source])
    /\ UNCHANGED <<imsiRnti, forwarding, commands, mishaps>>

\* The timers of 45 s outlast a handover that nothing befalls.
HandoverJoiningTimeout(id) ==
    /\ mishaps > 0
    /\ id \in DOMAIN ctx /\ ctx[id].state = "Joining" /\ ~ctx[id].expired
    /\ ctx' = [ctx EXCEPT ![id].expired = TRUE]
    /\ x2' = Sent(x2, ctx[id].cell, LteCell, [type |-> "HandoverFailed"])
    /\ UNCHANGED <<imsiRnti, forwarding, commands, completes, mishaps>>

\* RemoveUe runs 300 ms later, whatever has happened to the context.  Neither
\* it nor the timeout below takes the context out of m_imsiRntiMap.
RemoveUe(id) ==
    /\ id \in DOMAIN ctx /\ ctx[id].expired /\ ctx[id].state # "Removed"
    /\ ctx' = [ctx EXCEPT ![id].state = "Removed"]
    /\ UNCHANGED <<imsiRnti, forwarding, commands, completes, mishaps, x2>>

HandoverLeavingTimeout(id) ==
    /\ mishaps > 0
    /\ id \in DOMAIN ctx /\ ctx[id].state = "Leaving"
    /\ ctx' = [ctx EXCEPT ![id].state = "Removed"]
    /\ UNCHANGED <<imsiRnti, forwarding, commands, completes, mishaps, x2>>

\* What may befall a handover on the radio.
LoseCommand ==
    /\ Mishap
    /\ \E command \in commands : commands' = commands \ {command}
    /\ UNCHANGED <<contexts, completes, x2>>

LoseComplete ==
    /\ Mishap
    /\ \E id \in completes : completes' = completes \ {id}
    /\ UNCHANGED <<contexts, commands, x2>>
=============================================================================
