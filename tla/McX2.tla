------------------------------- MODULE McX2 -------------------------------
(***************************************************************************)
(* The X2 interfaces between the LTE cell, which coordinates a dual        *)
(* connected UE, and the mmWave cells, which serve it (class EpcX2).  An   *)
(* interface is a pair of UDP sockets on a point-to-point link of its own: *)
(* what one cell sends to another arrives in order, and nothing is said of *)
(* the order of what arrives over two interfaces.                          *)
(***************************************************************************)
EXTENDS Naturals, Sequences

CONSTANTS
    LteCell,      \* the LTE cell
    Cells         \* the mmWave cells, by their cell identities

ASSUME CellsAssumption == Cells \subseteq Nat \ {0} /\ LteCell \notin Cells

VARIABLE x2       \* what is under way on each interface, oldest first

Enbs == Cells \cup {LteCell}
Interfaces == {link \in Enbs \X Enbs : link[1] # link[2]}

\* The interfaces links once from has sent msg to to, and once to has taken
\* the oldest message of from.
Sent(links, from, to, msg) == [links EXCEPT ![<<from, to>>] = Append(@, msg)]
Received(links, from, to) == [links EXCEPT ![<<from, to>>] = Tail(@)]

Arrived(from, to, type) ==
    x2[<<from, to>>] # <<>> /\ Head(x2[<<from, to>>]).type = type

Oldest(from, to) == Head(x2[<<from, to>>])

X2Init == x2 = [link \in Interfaces |-> <<>>]
=============================================================================
