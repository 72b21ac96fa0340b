------------------------- MODULE McConnectionProofs -------------------------
(***************************************************************************)
(* Proofs about a dual connected UE.  For any number of mmWave cells, of   *)
(* decisions and of mishaps, and whatever the SINR does, at most one       *)
(* procedure of the UE is under way, and none is while the coordinator     *)
(* takes it to be set up (McInv).                                          *)
(*                                                                         *)
(* The second half is about the course that the procedures take as long    *)
(* as nothing goes wrong: the first connection to a mmWave cell, the       *)
(* set-up of the RLC of the bearer there, and each handover to another     *)
(* cell, while the coordinator goes on moving the bearer to LTE and back.  *)
(* The message of the procedure under way is a token: each place of it     *)
(* comes with what the cells, the coordinator and the UE know of the       *)
(* contexts (Course), and what is under way besides it, the releases and   *)
(* the switches to LTE, with what waits for it.  Course is inductive       *)
(* together with McInv and the types, and gives that the UE is served by   *)
(* the context everyone knows, that no handler's assertion fails, and that *)
(* a cell forwards while it has a context that leaves.                     *)
(***************************************************************************)
EXTENDS McConnection, FiniteSetTheorems, WellFoundedInduction, TLAPS

(***************************************************************************)
(* Sequences of messages, of whatever messages are like.                   *)
(***************************************************************************)

IsSequence(s) == \E S : s \in Seq(S)

\* No message, at most one message of the sequence has its type in types.
FreeIn(s, types) == \A k \in DOMAIN s : s[k].type \notin types
OneIn(s, types) ==
    \A j, k \in DOMAIN s : s[j].type \in types /\ s[k].type \in types => j = k

\* The elements of a sequence that is appended to.
LEMMA AppendFacts ==
    ASSUME NEW s, IsSequence(s), NEW e
    PROVE  /\ IsSequence(Append(s, e))
           /\ Len(s) \in Nat /\ DOMAIN s = 1..Len(s)
           /\ DOMAIN Append(s, e) = 1..(Len(s) + 1)
           /\ \A k \in 1..Len(s) : Append(s, e)[k] = s[k]
           /\ Append(s, e)[Len(s) + 1] = e
<1>1. PICK S : s \in Seq(S)
  BY DEF IsSequence
<1>2. s \in Seq(S \cup {e})
  BY <1>1
<1>3. Append(s, e) \in Seq(S \cup {e})
  BY <1>2
<1>4. /\ Len(s) \in Nat /\ DOMAIN s = 1..Len(s)
      /\ DOMAIN Append(s, e) = 1..(Len(s) + 1)
      /\ \A k \in 1..Len(s) : Append(s, e)[k] = s[k]
      /\ Append(s, e)[Len(s) + 1] = e
  BY <1>2
<1>5. QED
  BY <1>3, <1>4 DEF IsSequence

\* The elements of a sequence without its first.
LEMMA TailFacts ==
    ASSUME NEW s, IsSequence(s), s # <<>>
    PROVE  /\ IsSequence(Tail(s))
           /\ Len(s) \in Nat \ {0} /\ DOMAIN s = 1..Len(s)
           /\ DOMAIN Tail(s) = 1..(Len(s) - 1)
           /\ \A k \in 1..(Len(s) - 1) : Tail(s)[k] = s[k + 1]
           /\ Head(s) = s[1]
<1>1. PICK S : s \in Seq(S)
  BY DEF IsSequence
<1>2. Tail(s) \in Seq(S)
  BY <1>1
<1>3. /\ Len(s) \in Nat \ {0} /\ DOMAIN s = 1..Len(s)
      /\ DOMAIN Tail(s) = 1..(Len(s) - 1)
      /\ \A k \in 1..(Len(s) - 1) : Tail(s)[k] = s[k + 1]
      /\ Head(s) = s[1]
  BY <1>1
<1>4. QED
  BY <1>2, <1>3 DEF IsSequence

\* What is appended is the only one of its types, or leaves them as they are.
LEMMA AppendTypes ==
    ASSUME NEW s, IsSequence(s), NEW e, NEW types
    PROVE  /\ FreeIn(s, types) => OneIn(Append(s, e), types)
           /\ e.type \notin types /\ FreeIn(s, types) => FreeIn(Append(s, e), types)
           /\ e.type \notin types /\ OneIn(s, types) => OneIn(Append(s, e), types)
<1> DEFINE n == Len(s)
           t == Append(s, e)
<1>1. /\ n \in Nat /\ DOMAIN s = 1..n /\ DOMAIN t = 1..(n + 1)
      /\ \A k \in 1..n : t[k] = s[k]
      /\ t[n + 1] = e
  BY AppendFacts
<1> HIDE DEF n, t
<1>2. \A k \in 1..(n + 1) : k \in 1..n \/ k = n + 1
  BY <1>1
<1>3. FreeIn(s, types) => OneIn(t, types)
  BY <1>1, <1>2 DEF FreeIn, OneIn
<1>4. e.type \notin types /\ FreeIn(s, types) => FreeIn(t, types)
  BY <1>1, <1>2 DEF FreeIn
<1>5. e.type \notin types /\ OneIn(s, types) => OneIn(t, types)
  BY <1>1, <1>2 DEF OneIn
<1>6. QED
  BY <1>3, <1>4, <1>5 DEF t

\* Taking the first message adds none, and takes the only one if it is the first.
LEMMA TailTypes ==
    ASSUME NEW s, IsSequence(s), s # <<>>, NEW types
    PROVE  /\ FreeIn(s, types) => FreeIn(Tail(s), types)
           /\ OneIn(s, types) => OneIn(Tail(s), types)
           /\ OneIn(s, types) /\ Head(s).type \in types => FreeIn(Tail(s), types)
           /\ FreeIn(s, types) => Head(s).type \notin types
<1> DEFINE n == Len(s)
           t == Tail(s)
<1>1. /\ n \in Nat \ {0} /\ DOMAIN s = 1..n /\ DOMAIN t = 1..(n - 1)
      /\ \A k \in 1..(n - 1) : t[k] = s[k + 1]
      /\ Head(s) = s[1]
  BY TailFacts
<1> HIDE DEF n, t
<1>2. /\ 1 \in 1..n
      /\ \A k \in 1..(n - 1) : k + 1 \in 1..n /\ k + 1 # 1
      /\ \A j, k \in 1..(n - 1) : j + 1 = k + 1 => j = k
  BY <1>1
<1>3. FreeIn(s, types) => FreeIn(t, types)
  BY <1>1, <1>2 DEF FreeIn
<1>4. OneIn(s, types) => OneIn(t, types)
  <2>1. SUFFICES ASSUME OneIn(s, types), NEW j \in 1..(n - 1), NEW k \in 1..(n - 1),
                        t[j].type \in types, t[k].type \in types
                 PROVE  j = k
    BY <1>1 DEF OneIn
  <2>2. j + 1 \in 1..n /\ k + 1 \in 1..n
    BY <1>2
  <2>3. s[j + 1].type \in types /\ s[k + 1].type \in types
    BY <1>1, <2>1
  <2>4. j + 1 = k + 1
    BY <1>1, <2>1, <2>2, <2>3 DEF OneIn
  <2>5. QED
    BY <1>2, <2>4
<1>5. OneIn(s, types) /\ Head(s).type \in types => FreeIn(t, types)
  BY <1>1, <1>2 DEF OneIn, FreeIn
<1>6. FreeIn(s, types) => Head(s).type \notin types
  BY <1>1, <1>2 DEF FreeIn
<1>7. QED
  BY <1>3, <1>4, <1>5, <1>6 DEF t

(***************************************************************************)
(* The X2 interfaces.                                                      *)
(***************************************************************************)

HandoverTypes ==
    {"McHandoverRequest", "HandoverRequest", "HandoverRequestAck", "SecondaryCellHandoverCompleted"}
TokenTypes == HandoverTypes \cup {"RlcSetupRequest", "RlcSetupCompleted"}

Links(links) == DOMAIN links = Interfaces /\ \A l \in Interfaces : IsSequence(links[l])

X2Free(links) == \A l \in Interfaces : FreeIn(links[l], TokenTypes)
X2One(links) ==
    \A l \in Interfaces :
        /\ OneIn(links[l], TokenTypes)
        /\ \A m \in Interfaces \ {l} :
               FreeIn(links[l], TokenTypes) \/ FreeIn(links[m], TokenTypes)

\* The messages under way.
InTransit(links) == UNION {{links[l][k] : k \in DOMAIN links[l]} : l \in Interfaces}

\* Sending leaves one message of a procedure under way at most, if there was none.
LEMMA SentLinks ==
    ASSUME NEW links, Links(links), NEW from, NEW to, NEW msg
    PROVE  /\ Links(Sent(links, from, to, msg))
           /\ X2Free(links) => X2One(Sent(links, from, to, msg))
           /\ msg.type \notin TokenTypes /\ X2Free(links) => X2Free(Sent(links, from, to, msg))
           /\ msg.type \notin TokenTypes /\ X2One(links) => X2One(Sent(links, from, to, msg))
           /\ InTransit(Sent(links, from, to, msg)) \subseteq InTransit(links) \cup {msg}
<1> DEFINE new == Sent(links, from, to, msg)
           q == links[<<from, to>>]
<1>1. /\ DOMAIN new = Interfaces
      /\ \A l \in Interfaces : l # <<from, to>> => new[l] = links[l]
      /\ <<from, to>> \in Interfaces => new[<<from, to>>] = Append(q, msg)
  BY DEF Sent, Links
<1>2. <<from, to>> \in Interfaces => IsSequence(q)
  BY DEF Links
<1>3. <<from, to>> \in Interfaces => IsSequence(Append(q, msg))
  BY <1>2, AppendFacts
<1>4. Links(new)
  BY <1>1, <1>3 DEF Links
<1>5. <<from, to>> \in Interfaces =>
        /\ FreeIn(q, TokenTypes) => OneIn(Append(q, msg), TokenTypes)
        /\ msg.type \notin TokenTypes /\ FreeIn(q, TokenTypes) => FreeIn(Append(q, msg), TokenTypes)
        /\ msg.type \notin TokenTypes /\ OneIn(q, TokenTypes) => OneIn(Append(q, msg), TokenTypes)
  BY <1>2, AppendTypes
<1>6. \A l \in Interfaces : FreeIn(links[l], TokenTypes) => OneIn(links[l], TokenTypes)
  BY DEF FreeIn, OneIn
<1> HIDE DEF new, q
<1>7. X2Free(links) => X2One(new)
  BY <1>1, <1>5, <1>6 DEF X2Free, X2One, q
<1>8. msg.type \notin TokenTypes /\ X2Free(links) => X2Free(new)
  BY <1>1, <1>5 DEF X2Free, q
<1>9. msg.type \notin TokenTypes /\ X2One(links) => X2One(new)
  BY <1>1, <1>5 DEF X2One, q
<1>10. InTransit(new) \subseteq InTransit(links) \cup {msg}
  <2>1. SUFFICES ASSUME NEW l \in Interfaces, NEW k \in DOMAIN new[l]
                 PROVE  new[l][k] \in InTransit(links) \cup {msg}
    BY DEF InTransit
  <2>2. CASE l # <<from, to>>
    BY <1>1, <2>2 DEF InTransit
  <2>3. CASE l = <<from, to>>
    <3>1. /\ DOMAIN q = 1..Len(q) /\ DOMAIN Append(q, msg) = 1..(Len(q) + 1) /\ Len(q) \in Nat
          /\ \A j \in 1..Len(q) : Append(q, msg)[j] = q[j]
          /\ Append(q, msg)[Len(q) + 1] = msg
      BY <1>2, <2>3, AppendFacts
    <3>2. k \in 1..Len(q) \/ k = Len(q) + 1
      BY <1>1, <2>3, <3>1
    <3>3. CASE k = Len(q) + 1
      BY <1>1, <2>3, <3>1, <3>3
    <3>4. CASE k \in 1..Len(q)
      <4>1. new[l][k] = links[l][k] /\ k \in DOMAIN links[l]
        BY <1>1, <2>3, <3>1, <3>4 DEF q
      <4>2. QED
        BY <4>1 DEF InTransit
    <3>5. QED
      BY <3>2, <3>3, <3>4
  <2>4. QED
    BY <2>2, <2>3
<1>11. QED
  BY <1>4, <1>7, <1>8, <1>9, <1>10 DEF new

\* Receiving adds nothing, and takes the message of a procedure if that is the first.
LEMMA ReceivedLinks ==
    ASSUME NEW links, Links(links), NEW from, NEW to,
           <<from, to>> \in Interfaces, links[<<from, to>>] # <<>>
    PROVE  /\ Links(Received(links, from, to))
           /\ X2Free(links) => X2Free(Received(links, from, to))
           /\ X2One(links) => X2One(Received(links, from, to))
           /\ X2One(links) /\ Head(links[<<from, to>>]).type \in TokenTypes
                => X2Free(Received(links, from, to))
           /\ X2Free(links) => Head(links[<<from, to>>]).type \notin TokenTypes
           /\ InTransit(Received(links, from, to)) \subseteq InTransit(links)
           /\ Head(links[<<from, to>>]) \in InTransit(links)
<1> DEFINE new == Received(links, from, to)
           q == links[<<from, to>>]
<1>1. /\ DOMAIN new = Interfaces
      /\ \A l \in Interfaces : l # <<from, to>> => new[l] = links[l]
      /\ new[<<from, to>>] = Tail(q)
  BY DEF Received, Links
<1>2. IsSequence(q) /\ IsSequence(Tail(q))
  BY TailFacts DEF Links
<1>3. Links(new)
  BY <1>1, <1>2 DEF Links
<1>4. /\ FreeIn(q, TokenTypes) => FreeIn(Tail(q), TokenTypes)
      /\ OneIn(q, TokenTypes) => OneIn(Tail(q), TokenTypes)
      /\ OneIn(q, TokenTypes) /\ Head(q).type \in TokenTypes => FreeIn(Tail(q), TokenTypes)
      /\ FreeIn(q, TokenTypes) => Head(q).type \notin TokenTypes
  BY <1>2, TailTypes
<1>5. /\ DOMAIN q = 1..Len(q) /\ DOMAIN Tail(q) = 1..(Len(q) - 1) /\ Len(q) \in Nat \ {0}
      /\ \A k \in 1..(Len(q) - 1) : Tail(q)[k] = q[k + 1]
      /\ Head(q) = q[1]
  BY <1>2, TailFacts
<1> HIDE DEF new, q
<1>6. X2Free(links) => X2Free(new)
  BY <1>1, <1>4 DEF X2Free, q
<1>7. X2One(links) => X2One(new)
  BY <1>1, <1>4 DEF X2One, q
<1>8. X2One(links) /\ Head(q).type \in TokenTypes => X2Free(new)
  BY <1>1, <1>4 DEF X2One, X2Free, q
<1>9. X2Free(links) => Head(q).type \notin TokenTypes
  BY <1>4 DEF X2Free, q
<1>10. InTransit(new) \subseteq InTransit(links)
  <2>1. SUFFICES ASSUME NEW l \in Interfaces, NEW k \in DOMAIN new[l]
                 PROVE  new[l][k] \in InTransit(links)
    BY DEF InTransit
  <2>2. CASE l # <<from, to>>
    BY <1>1, <2>2 DEF InTransit
  <2>3. CASE l = <<from, to>>
    <3>1. k \in 1..(Len(q) - 1) /\ k + 1 \in 1..Len(q)
      BY <1>1, <1>5, <2>3
    <3>2. QED
      BY <1>1, <1>5, <2>3, <3>1 DEF InTransit, q
  <2>4. QED
    BY <2>2, <2>3
<1>11. Head(q) \in InTransit(links)
  BY <1>5 DEF InTransit, q
<1>12. QED
  BY <1>3, <1>6, <1>7, <1>8, <1>9, <1>10, <1>11 DEF new, q

(***************************************************************************)
(* The contexts.                                                           *)
(***************************************************************************)

\* Contexts are added and changed, and all have a state.
Contextual(c) == IsSequence(c) /\ \A id \in DOMAIN c : "state" \in DOMAIN c[id]

\* The contexts in the middle of a handover.
Busy(c) == {id \in DOMAIN c : c[id].state \in {"Preparation", "Joining"}}

\* Changing fields of the contexts does not change which there are.
LEMMA ChangedSequence ==
    ASSUME NEW s, IsSequence(s), NEW t, t = [k \in DOMAIN s |-> t[k]]
    PROVE  IsSequence(t)
<1>1. PICK S : s \in Seq(S)
  BY DEF IsSequence
<1>2. Len(s) \in Nat /\ DOMAIN s = 1..Len(s)
  BY <1>1
<1>3. t \in Seq({t[k] : k \in 1..Len(s)})
  BY <1>2
<1>4. QED
  BY <1>3 DEF IsSequence

\* A context whose state changes is in the middle of a handover if the new
\* state is, and the others are if they were.
LEMMA NewState ==
    ASSUME Contextual(ctx), NEW id, NEW state, ctx' = [ctx EXCEPT ![id].state = state]
    PROVE  /\ Contextual(ctx')
           /\ state \notin {"Preparation", "Joining"} => Busy(ctx') \subseteq Busy(ctx) \ {id}
<1>1. /\ DOMAIN ctx' = DOMAIN ctx
      /\ \A k \in DOMAIN ctx : k # id => ctx'[k] = ctx[k]
      /\ id \in DOMAIN ctx => /\ DOMAIN ctx'[id] = DOMAIN ctx[id]
                              /\ ctx'[id].state = state
  BY DEF Contextual
<1>2. ctx' = [k \in DOMAIN ctx |-> ctx'[k]]
  OBVIOUS
<1>3. Contextual(ctx')
  BY <1>1, <1>2, ChangedSequence DEF Contextual
<1>4. state \notin {"Preparation", "Joining"} => Busy(ctx') \subseteq Busy(ctx) \ {id}
  BY <1>1 DEF Busy
<1>5. QED
  BY <1>3, <1>4

\* Changing other fields changes no state.
LEMMA SameStates ==
    ASSUME Contextual(ctx), ctx' = [k \in DOMAIN ctx |-> ctx'[k]],
           \A k \in DOMAIN ctx : DOMAIN ctx'[k] = DOMAIN ctx[k] /\ ctx'[k].state = ctx[k].state
    PROVE  Contextual(ctx') /\ Busy(ctx') = Busy(ctx)
BY ChangedSequence DEF Contextual, Busy

\* A context that is added may be in the middle of a handover itself.
LEMMA AddedContext ==
    ASSUME Contextual(ctx), NEW new, "state" \in DOMAIN new, ctx' = Append(ctx, new)
    PROVE  /\ Contextual(ctx')
           /\ Busy(ctx') \subseteq Busy(ctx) \cup {Len(ctx) + 1}
           /\ new.state \notin {"Preparation", "Joining"} => Busy(ctx') \subseteq Busy(ctx)
<1>1. IsSequence(ctx)
  BY DEF Contextual
<1>2. /\ IsSequence(ctx') /\ Len(ctx) \in Nat /\ DOMAIN ctx = 1..Len(ctx)
      /\ DOMAIN ctx' = 1..(Len(ctx) + 1)
      /\ \A k \in 1..Len(ctx) : ctx'[k] = ctx[k]
      /\ ctx'[Len(ctx) + 1] = new
  BY <1>1, AppendFacts
<1>3. \A k \in 1..(Len(ctx) + 1) : k \in 1..Len(ctx) \/ k = Len(ctx) + 1
  BY <1>2
<1>4. Contextual(ctx')
  BY <1>2, <1>3 DEF Contextual
<1>5. Busy(ctx') \subseteq Busy(ctx) \cup {Len(ctx) + 1}
  BY <1>2, <1>3 DEF Busy
<1>6. new.state \notin {"Preparation", "Joining"} => Busy(ctx') \subseteq Busy(ctx)
  BY <1>2, <1>3 DEF Busy
<1>7. QED
  BY <1>4, <1>5, <1>6

(***************************************************************************)
(* The inductive invariant.  A procedure of the UE, the set-up of its      *)
(* secondary cell or a handover, is always at one place: in a message on   *)
(* X2 or over LTE, in a command or its completion on the way, or with the  *)
(* UE.  It follows that the coordinator, which starts one only when none   *)
(* is under way, and the messages of one, which set it free to start the   *)
(* next, cannot disagree.                                                  *)
(***************************************************************************)

DlTypes == {"Connect", "Reconfiguration"}
UlTypes == {"SecondaryCellConnected", "ReconfigurationCompleted"}
Places == {"none", "x2", "lteDl", "lteUl", "command", "ue", "complete"}

\* There is a procedure under way at no other place, and one at most at this.
TokenAt(place) ==
    /\ X2One(x2) /\ OneIn(lteDl, DlTypes) /\ OneIn(lteUl, UlTypes)
    /\ place # "x2" => X2Free(x2)
    /\ place # "lteDl" => FreeIn(lteDl, DlTypes)
    /\ place # "lteUl" => FreeIn(lteUl, UlTypes)
    /\ place # "command" => commands = {}
    /\ place # "ue" => ueState # "Handover"
    /\ place # "complete" => completes = {}
    /\ \A c, d \in commands : c = d
    /\ \A c, d \in completes : c = d

OneProcedure ==
    \E place \in Places : TokenAt(place) /\ (setup \/ allInOutage => place = "none")

Shapes == Links(x2) /\ IsSequence(lteDl) /\ IsSequence(lteUl) /\ Contextual(ctx)

\* The contexts that the handover of a message is about.
Involved(msg) ==
    CASE msg.type = "HandoverRequest" -> {msg.source}
      [] msg.type = "HandoverRequestAck" -> {msg.source, msg.new}
      [] OTHER -> {}

\* Only the contexts of the handover that is under way are in the middle of one.
BusyIsInvolved ==
    /\ setup \/ allInOutage => Busy(ctx) = {}
    /\ FreeIn(lteDl, DlTypes) \/ Busy(ctx) = {}
    /\ FreeIn(lteUl, UlTypes) \/ Busy(ctx) = {}
    /\ \A msg \in InTransit(x2) : msg.type \in TokenTypes => Busy(ctx) \subseteq Involved(msg)
    /\ \A command \in commands : Busy(ctx) \subseteq {command.to}
    /\ ueState = "Handover" => Busy(ctx) \subseteq {handoverTo}
    /\ \A id \in completes : Busy(ctx) \subseteq {id}

\* There is a handover only of a bearer that was set up over mmWave.
BearerFirst ==
    /\ setup \/ reconfiguring \/ lastCell # 0 => bearerIsMc
    /\ \A msg \in InTransit(x2) : msg.type \in HandoverTypes => bearerIsMc
    /\ commands # {} \/ completes # {} \/ ueState = "Handover" => bearerIsMc

Coordinated ==
    /\ allInOutage => ~setup
    /\ mode = "threshold" => handover = NoHandover
    /\ ScheduledHandoverIsCurrent
    /\ DownlinkPath

McInv == Shapes /\ OneProcedure /\ BusyIsInvolved /\ BearerFirst /\ Coordinated

(***************************************************************************)
(* What a step does to the procedure under way.                            *)
(***************************************************************************)

\* The interface between two cells.
LEMMA InterfaceOfCells ==
    ASSUME NEW cell \in Cells
    PROVE  /\ <<LteCell, cell>> \in Interfaces /\ <<cell, LteCell>> \in Interfaces
           /\ \A other \in Cells \ {cell} : <<other, cell>> \in Interfaces
BY CellsAssumption DEF Interfaces, Enbs

\* While there is no message of a procedure, none is of its types.
LEMMA FreeTransit ==
    ASSUME NEW links, X2Free(links), NEW msg \in InTransit(links)
    PROVE  msg.type \notin TokenTypes
BY DEF X2Free, FreeIn, InTransit

\* No message of a procedure is at most one.
LEMMA FreeIsOne ==
    ASSUME NEW links, X2Free(links)
    PROVE  X2One(links)
BY DEF X2Free, X2One, FreeIn, OneIn

\* A message of a procedure that arrives is all there is of it.
LEMMA TokenArrives ==
    ASSUME McInv, NEW from, NEW to, <<from, to>> \in Interfaces,
           NEW type \in TokenTypes, Arrived(from, to, type)
    PROVE  /\ TokenAt("x2") /\ ~setup /\ ~allInOutage
           /\ Links(x2) /\ X2Free(Received(x2, from, to)) /\ Links(Received(x2, from, to))
           /\ Oldest(from, to) \in InTransit(x2) /\ Oldest(from, to).type = type
           /\ Busy(ctx) \subseteq Involved(Oldest(from, to))
<1>1. x2[<<from, to>>] # <<>> /\ Head(x2[<<from, to>>]).type = type /\ Links(x2)
  BY DEF Arrived, McInv, Shapes
<1>2. PICK place \in Places : TokenAt(place) /\ (setup \/ allInOutage => place = "none")
  BY DEF McInv, OneProcedure
<1>3. ~X2Free(x2) /\ (X2One(x2) => X2Free(Received(x2, from, to))) /\ Links(Received(x2, from, to))
      /\ Oldest(from, to) \in InTransit(x2) /\ Oldest(from, to).type = type
  BY <1>1, ReceivedLinks DEF Oldest
<1>4. place = "x2"
  BY <1>2, <1>3 DEF TokenAt
<1>5. Busy(ctx) \subseteq Involved(Oldest(from, to))
  BY <1>3 DEF McInv, BusyIsInvolved
<1>6. QED
  BY <1>1, <1>2, <1>3, <1>4, <1>5 DEF TokenAt

\* A message of a procedure is answered by one message.
LEMMA Reply ==
    ASSUME NEW links, Links(links), X2Free(links), NEW from, NEW to, NEW msg,
           x2' = Sent(links, from, to, msg)
    PROVE  /\ Links(x2') /\ X2One(x2')
           /\ \A m \in InTransit(x2') : m.type \in TokenTypes => m = msg
           /\ msg.type \notin TokenTypes => X2Free(x2')
<1>1. Links(x2') /\ X2One(x2') /\ InTransit(x2') \subseteq InTransit(links) \cup {msg}
      /\ (msg.type \notin TokenTypes => X2Free(x2'))
  BY SentLinks
<1>2. \A m \in InTransit(links) : m.type \notin TokenTypes
  BY FreeTransit
<1>3. QED
  BY <1>1, <1>2

\* A procedure that stays on X2.
LEMMA X2Step ==
    ASSUME McInv, TokenAt("x2"), ~setup', ~allInOutage',
           UNCHANGED <<lteDl, lteUl, commands, completes, ueState>>,
           Links(x2'), X2One(x2'), Contextual(ctx'),
           \A m \in InTransit(x2') : m.type \in TokenTypes => Busy(ctx') \subseteq Involved(m)
    PROVE  Shapes' /\ OneProcedure' /\ BusyIsInvolved'
<1>1. Shapes'
  BY DEF McInv, Shapes
<1>2. TokenAt("x2")'
  BY DEF TokenAt
<1>3. OneProcedure'
  BY <1>2 DEF OneProcedure, Places
<1>4. commands' = {} /\ completes' = {} /\ ueState' # "Handover"
      /\ FreeIn(lteDl', DlTypes) /\ FreeIn(lteUl', UlTypes)
  BY DEF TokenAt
<1>5. BusyIsInvolved'
  BY <1>4 DEF BusyIsInvolved
<1>6. QED
  BY <1>1, <1>3, <1>5

\* A step that takes a procedure no further: it may end one, and send what
\* belongs to none.
LEMMA QuietStep ==
    ASSUME McInv, UNCHANGED <<setup, allInOutage, lteUl, handoverTo>>,
           Links(x2'), X2Free(x2) => X2Free(x2'), X2One(x2) => X2One(x2'),
           \A m \in InTransit(x2') : m.type \in TokenTypes => m \in InTransit(x2),
           IsSequence(lteDl'), FreeIn(lteDl, DlTypes) => FreeIn(lteDl', DlTypes),
           OneIn(lteDl, DlTypes) => OneIn(lteDl', DlTypes),
           Contextual(ctx'), Busy(ctx') \subseteq Busy(ctx),
           commands' \subseteq commands, completes' \subseteq completes,
           ueState' = "Handover" => ueState = "Handover"
    PROVE  Shapes' /\ OneProcedure' /\ BusyIsInvolved'
<1>1. Shapes'
  BY DEF McInv, Shapes
<1>2. PICK place \in Places : TokenAt(place) /\ (setup \/ allInOutage => place = "none")
  BY DEF McInv, OneProcedure
<1>3. TokenAt(place)'
  BY <1>2 DEF TokenAt
<1>4. OneProcedure'
  BY <1>2, <1>3 DEF OneProcedure
<1>5. BusyIsInvolved'
  <2>1. BusyIsInvolved
    BY DEF McInv
  <2>2. (setup' \/ allInOutage' => Busy(ctx') = {})
        /\ (FreeIn(lteDl', DlTypes) \/ Busy(ctx') = {})
        /\ (FreeIn(lteUl', UlTypes) \/ Busy(ctx') = {})
    BY <2>1 DEF BusyIsInvolved
  <2>3. \A m \in InTransit(x2') : m.type \in TokenTypes => Busy(ctx') \subseteq Involved(m)
    BY <2>1 DEF BusyIsInvolved
  <2>4. /\ \A command \in commands' : Busy(ctx') \subseteq {command.to}
        /\ ueState' = "Handover" => Busy(ctx') \subseteq {handoverTo'}
        /\ \A id \in completes' : Busy(ctx') \subseteq {id}
    BY <2>1 DEF BusyIsInvolved
  <2>5. QED
    BY <2>2, <2>3, <2>4 DEF BusyIsInvolved
<1>6. QED
  BY <1>1, <1>4, <1>5

\* A step of a mmWave cell or of the UE leaves the coordinator as it is.
LEMMA CoordinatorFrame ==
    ASSUME McInv, UNCHANGED <<mode, served, allInOutage, handover>>
    PROVE  Coordinated'
BY DEF McInv, Coordinated, ScheduledHandoverIsCurrent, DownlinkPath, served

\* A bearer that is set up stays so.
LEMMA BearerStays ==
    ASSUME McInv, bearerIsMc => bearerIsMc',
           setup' \/ reconfiguring' \/ lastCell' # 0 =>
               setup \/ reconfiguring \/ lastCell # 0 \/ bearerIsMc',
           \A m \in InTransit(x2') : m.type \in HandoverTypes => m \in InTransit(x2) \/ bearerIsMc',
           commands' # {} \/ completes' # {} \/ ueState' = "Handover" =>
               commands # {} \/ completes # {} \/ ueState = "Handover" \/ bearerIsMc'
    PROVE  BearerFirst'
BY DEF McInv, BearerFirst

(***************************************************************************)
(* The mmWave cells.  What they leave alone:                               *)
(***************************************************************************)

AtCells == UNCHANGED <<coordinatorVars, ueVars>>

\* A step of a mmWave cell keeps what is said of the coordinator.
LEMMA AtCellsFrame ==
    ASSUME McInv, AtCells
    PROVE  /\ Coordinated'
           /\ UNCHANGED <<mode, lastCell, setup, usingLte, downlinkMmWave, allInOutage, handover,
                          reconfiguring, bearerIsMc, mmWaveCell, mmWaveRnti, lteDl,
                          ueState, handoverTo, lteUl>>
<1>1. UNCHANGED <<mode, lastCell, setup, usingLte, downlinkMmWave, allInOutage, handover,
                  reconfiguring, bearerIsMc, mmWaveCell, mmWaveRnti, lteDl,
                  ueState, handoverTo, lteUl>>
  BY DEF AtCells, coordinatorVars, served, secondary, ueVars
<1>2. QED
  BY <1>1, CoordinatorFrame DEF served

\* The RLC of the bearer is set up, and the coordinator told.
LEMMA RecvRlcSetupRequestInv ==
    ASSUME McInv, NEW cell \in Cells, RecvRlcSetupRequest(cell), AtCells
    PROVE  McInv'
<1> DEFINE links == Received(x2, LteCell, cell)
           id == Oldest(LteCell, cell).rnti
           done == [type |-> "RlcSetupCompleted"]
<1>1. /\ Arrived(LteCell, cell, "RlcSetupRequest")
      /\ ctx' = [ctx EXCEPT ![id].rlc = TRUE, ![id].requests = TRUE]
      /\ x2' = IF ctx[id].state # "Joining" THEN Sent(links, cell, LteCell, done) ELSE links
      /\ UNCHANGED <<commands, completes>>
  BY DEF RecvRlcSetupRequest
<1>2. /\ TokenAt("x2") /\ ~setup /\ ~allInOutage
      /\ X2Free(links) /\ Links(links)
      /\ Busy(ctx) = {}
  <2>1. /\ TokenAt("x2") /\ ~setup /\ ~allInOutage
        /\ X2Free(links) /\ Links(links)
        /\ Oldest(LteCell, cell).type = "RlcSetupRequest"
        /\ Busy(ctx) \subseteq Involved(Oldest(LteCell, cell))
    BY <1>1, TokenArrives, InterfaceOfCells DEF TokenTypes
  <2>2. QED
    BY <2>1 DEF Involved
<1>3. done.type \in TokenTypes /\ done.type \notin HandoverTypes
  BY DEF TokenTypes, HandoverTypes
<1>4. Contextual(ctx') /\ Busy(ctx') = Busy(ctx)
  <2> HIDE DEF links, id, done
  <2>1. ctx' = [k \in DOMAIN ctx |-> ctx'[k]]
    BY <1>1
  <2>2. \A k \in DOMAIN ctx : DOMAIN ctx'[k] = DOMAIN ctx[k]
    BY <1>1
  <2>3. \A k \in DOMAIN ctx : ctx'[k].state = ctx[k].state
    BY <1>1 DEF McInv, Shapes, Contextual
  <2>4. QED
    BY <2>1, <2>2, <2>3, SameStates DEF McInv, Shapes
<1> HIDE DEF links, id, done
<1>5. Links(x2') /\ X2One(x2') /\ \A m \in InTransit(x2') : m.type \in TokenTypes => m = done
  BY <1>1, <1>2, Reply, FreeIsOne, FreeTransit
<1>6. Shapes' /\ OneProcedure' /\ BusyIsInvolved'
  <2>1. ~setup' /\ ~allInOutage' /\ UNCHANGED <<lteDl, lteUl, commands, completes, ueState>>
    BY <1>1, <1>2, AtCellsFrame
  <2>2. \A m \in InTransit(x2') : m.type \in TokenTypes => Busy(ctx') \subseteq Involved(m)
    BY <1>2, <1>4
  <2>3. QED
    BY <1>2, <1>4, <1>5, <2>1, <2>2, X2Step
<1>7. BearerFirst'
  BY <1>1, <1>3, <1>5, AtCellsFrame, BearerStays DEF TokenTypes
<1>8. QED
  BY <1>6, <1>7, AtCellsFrame DEF McInv

\* The serving cell asks the target.
LEMMA RecvMcHandoverRequestInv ==
    ASSUME McInv, NEW cell \in Cells, RecvMcHandoverRequest(cell), AtCells
    PROVE  McInv'
<1> DEFINE links == Received(x2, LteCell, cell)
           id == imsiRnti[cell]
           target == Oldest(LteCell, cell).target
           request == [type |-> "HandoverRequest", source |-> id, rlc |-> ctx[id].requests]
<1>1. /\ Arrived(LteCell, cell, "McHandoverRequest")
      /\ ctx' = [ctx EXCEPT ![id].state = "Preparation", ![id].target = target,
                            ![id].requests = FALSE]
      /\ x2' = Sent(links, cell, target, request)
      /\ UNCHANGED <<commands, completes>>
  BY DEF RecvMcHandoverRequest
<1>2. /\ TokenAt("x2") /\ ~setup /\ ~allInOutage
      /\ X2Free(links) /\ Links(links)
      /\ Oldest(LteCell, cell) \in InTransit(x2)
      /\ Oldest(LteCell, cell).type = "McHandoverRequest"
      /\ Busy(ctx) \subseteq Involved(Oldest(LteCell, cell))
  BY <1>1, TokenArrives, InterfaceOfCells DEF TokenTypes, HandoverTypes
<1>3. Busy(ctx) = {} /\ bearerIsMc
  BY <1>2 DEF Involved, McInv, BearerFirst, HandoverTypes
<1>4. Contextual(ctx') /\ Busy(ctx') \subseteq {id}
  <2> HIDE DEF id, target
  <2>1. /\ ctx' = [k \in DOMAIN ctx |-> ctx'[k]]
        /\ \A k \in DOMAIN ctx : DOMAIN ctx'[k] = DOMAIN ctx[k] /\ (k # id => ctx'[k] = ctx[k])
    <3>1. ctx' = [k \in DOMAIN ctx |-> ctx'[k]]
      BY <1>1
    <3>2. \A k \in DOMAIN ctx : k # id => ctx'[k] = ctx[k]
      BY <1>1
    <3>3. \A k \in DOMAIN ctx : DOMAIN ctx'[k] = DOMAIN ctx[k]
      BY <1>1
    <3>4. QED
      BY <3>1, <3>2, <3>3
  <2>2. IsSequence(ctx')
    BY <2>1, ChangedSequence DEF McInv, Shapes, Contextual
  <2>3. Contextual(ctx')
    BY <2>1, <2>2 DEF McInv, Shapes, Contextual
  <2>4. Busy(ctx') \subseteq Busy(ctx) \cup {id}
    BY <2>1 DEF Busy
  <2>5. QED
    BY <1>3, <2>3, <2>4
<1>5. request.type = "HandoverRequest" /\ request.source = id
  OBVIOUS
<1> HIDE DEF links, id, target, request
<1>6. Links(x2') /\ X2One(x2') /\ \A m \in InTransit(x2') : m.type \in TokenTypes => m = request
  BY <1>1, <1>2, Reply
<1>7. \A m \in InTransit(x2') : m.type \in TokenTypes => Busy(ctx') \subseteq Involved(m)
  BY <1>4, <1>5, <1>6 DEF Involved
<1>8. Shapes' /\ OneProcedure' /\ BusyIsInvolved'
  <2>1. ~setup' /\ ~allInOutage' /\ UNCHANGED <<lteDl, lteUl, commands, completes, ueState>>
    BY <1>1, <1>2, AtCellsFrame
  <2>2. Links(x2') /\ X2One(x2') /\ Contextual(ctx')
    BY <1>4, <1>6
  <2>3. QED
    BY <1>2, <1>7, <2>1, <2>2, X2Step
<1>9. BearerFirst'
  BY <1>1, <1>3, AtCellsFrame, BearerStays
<1>10. QED
  BY <1>8, <1>9, AtCellsFrame DEF McInv

\* The target admits the UE.
LEMMA AdmitHandoverInv ==
    ASSUME McInv, NEW cell \in Cells, NEW source \in Cells \ {cell},
           AdmitHandover(source, cell), AtCells
    PROVE  McInv'
<1> DEFINE links == Received(x2, source, cell)
           msg == Oldest(source, cell)
           id == Len(ctx) + 1
           new == NewContext(cell, "Joining", msg.source, msg.rlc)
           ack == [type |-> "HandoverRequestAck", source |-> msg.source, new |-> id]
<1>1. /\ Arrived(source, cell, "HandoverRequest")
      /\ ctx' = Append(ctx, new)
      /\ x2' = Sent(links, cell, source, ack)
      /\ UNCHANGED <<commands, completes>>
  BY DEF AdmitHandover
<1>2. /\ TokenAt("x2") /\ ~setup /\ ~allInOutage
      /\ X2Free(links) /\ Links(links)
      /\ msg \in InTransit(x2) /\ msg.type = "HandoverRequest"
      /\ Busy(ctx) \subseteq Involved(msg)
  BY <1>1, TokenArrives, InterfaceOfCells DEF TokenTypes, HandoverTypes
<1>3. Busy(ctx) \subseteq {msg.source} /\ bearerIsMc
  BY <1>2 DEF Involved, McInv, BearerFirst, HandoverTypes
<1>4. Contextual(ctx') /\ Busy(ctx') \subseteq {msg.source, id}
  <2>1. "state" \in DOMAIN new
    BY DEF NewContext
  <2> HIDE DEF new
  <2>2. Contextual(ctx') /\ Busy(ctx') \subseteq Busy(ctx) \cup {id}
    BY <1>1, <2>1, AddedContext DEF McInv, Shapes
  <2>3. QED
    BY <1>3, <2>2
<1>5. ack.type = "HandoverRequestAck" /\ ack.source = msg.source /\ ack.new = id
  OBVIOUS
<1> HIDE DEF links, id, msg, new, ack
<1>6. Links(x2') /\ X2One(x2') /\ \A m \in InTransit(x2') : m.type \in TokenTypes => m = ack
  BY <1>1, <1>2, Reply
<1>7. \A m \in InTransit(x2') : m.type \in TokenTypes => Busy(ctx') \subseteq Involved(m)
  BY <1>4, <1>5, <1>6 DEF Involved
<1>8. Shapes' /\ OneProcedure' /\ BusyIsInvolved'
  <2>1. ~setup' /\ ~allInOutage' /\ UNCHANGED <<lteDl, lteUl, commands, completes, ueState>>
    BY <1>1, <1>2, AtCellsFrame
  <2>2. Links(x2') /\ X2One(x2') /\ Contextual(ctx')
    BY <1>4, <1>6
  <2>3. QED
    BY <1>2, <1>7, <2>1, <2>2, X2Step
<1>9. BearerFirst'
  BY <1>1, <1>3, AtCellsFrame, BearerStays
<1>10. QED
  BY <1>8, <1>9, AtCellsFrame DEF McInv

\* The source commands the UE to go.
LEMMA RecvHandoverRequestAckInv ==
    ASSUME McInv, NEW cell \in Cells, NEW target \in Cells \ {cell},
           RecvHandoverRequestAck(target, cell), AtCells
    PROVE  McInv'
<1> DEFINE links == Received(x2, target, cell)
           msg == Oldest(target, cell)
           command == [from |-> msg.source, to |-> msg.new]
<1>1. /\ Arrived(target, cell, "HandoverRequestAck")
      /\ ctx' = [ctx EXCEPT ![msg.source].state = "Leaving"]
      /\ commands' = commands \cup {command}
      /\ x2' = links /\ UNCHANGED completes
  BY DEF RecvHandoverRequestAck
<1>2. /\ TokenAt("x2") /\ ~setup /\ ~allInOutage
      /\ X2Free(links) /\ Links(links)
      /\ msg \in InTransit(x2) /\ msg.type = "HandoverRequestAck"
      /\ Busy(ctx) \subseteq Involved(msg)
  BY <1>1, TokenArrives, InterfaceOfCells DEF TokenTypes, HandoverTypes
<1>3. Busy(ctx) \subseteq {msg.source, msg.new} /\ bearerIsMc
  BY <1>2 DEF Involved, McInv, BearerFirst, HandoverTypes
<1>4. Contextual(ctx') /\ Busy(ctx') \subseteq {msg.new}
  <2> HIDE DEF msg
  <2>1. Contextual(ctx)
    BY DEF McInv, Shapes
  <2>2. "Leaving" \notin {"Preparation", "Joining"}
    OBVIOUS
  <2>3. Contextual(ctx') /\ Busy(ctx') \subseteq Busy(ctx) \ {msg.source}
    BY <1>1, <2>1, <2>2, NewState
  <2>4. QED
    BY <1>3, <2>3
<1>5. command.to = msg.new
  OBVIOUS
<1> HIDE DEF links, msg, command
<1>6. commands' = {command} /\ completes' = {} /\ ueState' # "Handover"
      /\ FreeIn(lteDl', DlTypes) /\ FreeIn(lteUl', UlTypes)
      /\ OneIn(lteDl', DlTypes) /\ OneIn(lteUl', UlTypes)
  BY <1>1, <1>2, AtCellsFrame DEF TokenAt
<1>7. X2One(x2') /\ X2Free(x2') /\ Links(x2') /\ \A m \in InTransit(x2') : m.type \notin TokenTypes
  BY <1>1, <1>2, FreeIsOne, FreeTransit
<1>8. TokenAt("command")'
  BY <1>6, <1>7 DEF TokenAt
<1>9. Shapes' /\ OneProcedure'
  BY <1>2, <1>4, <1>7, <1>8, AtCellsFrame DEF McInv, Shapes, OneProcedure, Places
<1>10. BusyIsInvolved'
  BY <1>2, <1>4, <1>5, <1>6, <1>7, AtCellsFrame DEF BusyIsInvolved
<1>11. BearerFirst'
  BY <1>3, AtCellsFrame, BearerStays
<1>12. QED
  BY <1>9, <1>10, <1>11, AtCellsFrame DEF McInv

\* What is under way is no more than before, or no procedure.
QuietLinks ==
    /\ Links(x2') /\ (X2Free(x2) => X2Free(x2')) /\ (X2One(x2) => X2One(x2'))
    /\ \A m \in InTransit(x2') : m.type \in TokenTypes => m \in InTransit(x2)

\* Taking a message, and sending one that belongs to no procedure, are quiet.
LEMMA QuietX2 ==
    ASSUME McInv, NEW from, NEW to, NEW msg, msg.type \notin TokenTypes,
           \/ x2' = x2
           \/ x2' = Sent(x2, from, to, msg)
           \/ /\ <<from, to>> \in Interfaces /\ x2[<<from, to>>] # <<>>
              /\ \/ x2' = Received(x2, from, to)
                 \/ x2' = Sent(Received(x2, from, to), to, from, msg)
    PROVE  QuietLinks
<1>1. Links(x2)
  BY DEF McInv, Shapes
<1>2. CASE x2' = x2
  BY <1>1, <1>2 DEF QuietLinks
<1>3. CASE x2' = Sent(x2, from, to, msg)
  <2>1. Links(x2') /\ (X2Free(x2) => X2Free(x2')) /\ (X2One(x2) => X2One(x2'))
        /\ InTransit(x2') \subseteq InTransit(x2) \cup {msg}
    BY <1>1, <1>3, SentLinks
  <2>2. QED
    BY <2>1 DEF QuietLinks
<1>4. CASE /\ <<from, to>> \in Interfaces /\ x2[<<from, to>>] # <<>>
           /\ \/ x2' = Received(x2, from, to)
              \/ x2' = Sent(Received(x2, from, to), to, from, msg)
  <2> DEFINE links == Received(x2, from, to)
  <2>1. Links(links) /\ (X2Free(x2) => X2Free(links)) /\ (X2One(x2) => X2One(links))
        /\ InTransit(links) \subseteq InTransit(x2)
    BY <1>1, <1>4, ReceivedLinks
  <2>2. CASE x2' = links
    BY <2>1, <2>2 DEF QuietLinks
  <2>3. CASE x2' = Sent(links, to, from, msg)
    <3> HIDE DEF links
    <3>1. Links(x2') /\ (X2Free(links) => X2Free(x2')) /\ (X2One(links) => X2One(x2'))
          /\ InTransit(x2') \subseteq InTransit(links) \cup {msg}
      BY <2>1, <2>3, SentLinks
    <3>2. QED
      BY <2>1, <3>1 DEF QuietLinks
  <2>4. QED
    BY <1>4, <2>2, <2>3
<1>5. QED
  BY <1>2, <1>3, <1>4

\* A step of a mmWave cell that takes no procedure further.
LEMMA QuietAtCells ==
    ASSUME McInv, AtCells, QuietLinks,
           Contextual(ctx'), Busy(ctx') \subseteq Busy(ctx),
           commands' \subseteq commands, completes' \subseteq completes
    PROVE  McInv'
<1>1. Shapes' /\ OneProcedure' /\ BusyIsInvolved'
  <2>1. UNCHANGED <<setup, allInOutage, lteUl, handoverTo, lteDl, ueState>> /\ IsSequence(lteDl')
    BY AtCellsFrame DEF McInv, Shapes
  <2>2. QED
    BY <2>1, QuietStep DEF QuietLinks
<1>2. BearerFirst'
  BY AtCellsFrame, BearerStays DEF QuietLinks, TokenTypes
<1>3. QED
  BY <1>1, <1>2, AtCellsFrame DEF McInv

\* A message that belongs to no procedure.
NoProcedure == [type |-> "None"]

\* The UE has fallen back to LTE.
LEMMA RecvSwitchConnectionInv ==
    ASSUME McInv, NEW cell \in Cells, RecvSwitchConnection(cell), AtCells
    PROVE  McInv'
<1> DEFINE id == Oldest(LteCell, cell).rnti
<1>1. /\ x2[<<LteCell, cell>>] # <<>> /\ x2' = Received(x2, LteCell, cell)
      /\ ctx' = [ctx EXCEPT ![id].target = LteCell]
      /\ UNCHANGED <<commands, completes>>
  BY DEF RecvSwitchConnection, Arrived
<1> HIDE DEF id
<1>2. Contextual(ctx') /\ Busy(ctx') = Busy(ctx)
  <2>1. ctx' = [k \in DOMAIN ctx |-> ctx'[k]]
    BY <1>1
  <2>2. \A k \in DOMAIN ctx : DOMAIN ctx'[k] = DOMAIN ctx[k]
    BY <1>1
  <2>3. \A k \in DOMAIN ctx : ctx'[k].state = ctx[k].state
    BY <1>1 DEF McInv, Shapes, Contextual
  <2>4. QED
    BY <2>1, <2>2, <2>3, SameStates DEF McInv, Shapes
<1>3. NoProcedure.type \notin TokenTypes
  BY DEF NoProcedure, TokenTypes, HandoverTypes
<1>4. QuietLinks
  BY <1>1, <1>3, QuietX2, InterfaceOfCells
<1>5. QED
  BY <1>1, <1>2, <1>4, QuietAtCells

\* A context is removed, or goes back to be connected.
LEMMA ContextEnds ==
    ASSUME McInv, NEW id, NEW state, state \notin {"Preparation", "Joining"},
           ctx' = [ctx EXCEPT ![id].state = state]
    PROVE  Contextual(ctx') /\ Busy(ctx') \subseteq Busy(ctx)
<1>1. Contextual(ctx)
  BY DEF McInv, Shapes
<1>2. Contextual(ctx') /\ Busy(ctx') \subseteq Busy(ctx) \ {id}
  BY <1>1, NewState
<1>3. QED
  BY <1>2

\* The source is released.
LEMMA RecvUeContextReleaseInv ==
    ASSUME McInv, NEW cell \in Cells, RecvUeContextRelease(cell), AtCells
    PROVE  McInv'
<1> DEFINE id == Oldest(LteCell, cell).rnti
<1>1. /\ x2[<<LteCell, cell>>] # <<>> /\ x2' = Received(x2, LteCell, cell)
      /\ ctx' = [ctx EXCEPT ![id].state = "Removed"]
      /\ UNCHANGED <<commands, completes>>
  BY DEF RecvUeContextRelease, Arrived
<1> HIDE DEF id
<1>2. Contextual(ctx') /\ Busy(ctx') \subseteq Busy(ctx)
  <2>1. "Removed" \notin {"Preparation", "Joining"}
    OBVIOUS
  <2>2. QED
    BY <1>1, <2>1, ContextEnds
<1>3. NoProcedure.type \notin TokenTypes
  BY DEF NoProcedure, TokenTypes, HandoverTypes
<1>4. QuietLinks
  BY <1>1, <1>3, QuietX2, InterfaceOfCells
<1>5. QED
  BY <1>1, <1>2, <1>4, QuietAtCells

\* A refusal ends the procedure; the coordinator does not learn of it.
LEMMA RefuseHandoverInv ==
    ASSUME McInv, NEW cell \in Cells, NEW source \in Cells \ {cell},
           RefuseHandover(source, cell), AtCells
    PROVE  McInv'
<1> DEFINE refusal == [type |-> "HandoverPreparationFailure", source |-> Oldest(source, cell).source]
<1>1. /\ x2[<<source, cell>>] # <<>> /\ x2' = Sent(Received(x2, source, cell), cell, source, refusal)
      /\ UNCHANGED <<ctx, commands, completes>>
  BY DEF RefuseHandover, Arrived, contexts
<1>2. refusal.type \notin TokenTypes
  BY DEF TokenTypes, HandoverTypes
<1> HIDE DEF refusal
<1>3. QuietLinks
  BY <1>1, <1>2, QuietX2, InterfaceOfCells
<1>4. QED
  BY <1>1, <1>3, QuietAtCells DEF McInv, Shapes

\* A refused handover leaves the UE where it is.
LEMMA RecvHandoverPreparationFailureInv ==
    ASSUME McInv, NEW cell \in Cells, NEW target \in Cells \ {cell},
           RecvHandoverPreparationFailure(target, cell), AtCells
    PROVE  McInv'
<1> DEFINE id == Oldest(target, cell).source
<1>1. /\ x2[<<target, cell>>] # <<>> /\ x2' = Received(x2, target, cell)
      /\ ctx' = [ctx EXCEPT ![id].state = "Connected"]
      /\ UNCHANGED <<commands, completes>>
  BY DEF RecvHandoverPreparationFailure, Arrived
<1> HIDE DEF id
<1>2. Contextual(ctx') /\ Busy(ctx') \subseteq Busy(ctx)
  <2>1. "Connected" \notin {"Preparation", "Joining"}
    OBVIOUS
  <2>2. QED
    BY <1>1, <2>1, ContextEnds
<1>3. NoProcedure.type \notin TokenTypes
  BY DEF NoProcedure, TokenTypes, HandoverTypes
<1>4. QuietLinks
  BY <1>1, <1>3, QuietX2, InterfaceOfCells
<1>5. QED
  BY <1>1, <1>2, <1>4, QuietAtCells

\* The timers remove contexts, or tell the coordinator what it cannot receive.
LEMMA TimersInv ==
    ASSUME McInv, Timers
    PROVE  McInv'
<1>0. PICK id \in DOMAIN ctx :
          /\ HandoverJoiningTimeout(id) \/ RemoveUe(id) \/ HandoverLeavingTimeout(id)
          /\ AtCells
  BY DEF Timers, AtCells
<1>1. CASE HandoverJoiningTimeout(id)
  <2> DEFINE failed == [type |-> "HandoverFailed"]
             cell == ctx[id].cell
  <2>1. /\ ctx' = [ctx EXCEPT ![id].expired = TRUE]
        /\ x2' = Sent(x2, cell, LteCell, failed)
        /\ UNCHANGED <<commands, completes>>
    BY <1>1 DEF HandoverJoiningTimeout
  <2>2. failed.type \notin TokenTypes
    BY DEF TokenTypes, HandoverTypes
  <2> HIDE DEF failed, cell
  <2>3. Contextual(ctx') /\ Busy(ctx') = Busy(ctx)
    <3>1. ctx' = [k \in DOMAIN ctx |-> ctx'[k]]
      BY <2>1
    <3>2. \A k \in DOMAIN ctx : DOMAIN ctx'[k] = DOMAIN ctx[k]
      BY <2>1
    <3>3. \A k \in DOMAIN ctx : ctx'[k].state = ctx[k].state
      BY <2>1 DEF McInv, Shapes, Contextual
    <3>4. QED
      BY <3>1, <3>2, <3>3, SameStates DEF McInv, Shapes
  <2>4. QuietLinks
    BY <2>1, <2>2, QuietX2
  <2>5. QED
    BY <1>0, <2>1, <2>3, <2>4, QuietAtCells
<1>2. CASE RemoveUe(id) \/ HandoverLeavingTimeout(id)
  <2>1. ctx' = [ctx EXCEPT ![id].state = "Removed"] /\ UNCHANGED <<commands, completes, x2>>
    BY <1>2 DEF RemoveUe, HandoverLeavingTimeout
  <2>2. Contextual(ctx') /\ Busy(ctx') \subseteq Busy(ctx)
    <3>1. "Removed" \notin {"Preparation", "Joining"}
      OBVIOUS
    <3>2. QED
      BY <2>1, <3>1, ContextEnds
  <2>3. NoProcedure.type \notin TokenTypes
    BY DEF NoProcedure, TokenTypes, HandoverTypes
  <2>4. QuietLinks
    BY <2>1, <2>3, QuietX2
  <2>5. QED
    BY <1>0, <2>1, <2>2, <2>4, QuietAtCells
<1>3. QED
  BY <1>0, <1>1, <1>2

\* What is lost on the radio ends the procedure.
LEMMA LossInv ==
    ASSUME McInv, LoseCommand \/ LoseComplete, AtCells
    PROVE  McInv'
<1>1. commands' \subseteq commands /\ completes' \subseteq completes /\ UNCHANGED <<ctx, x2>>
  BY DEF LoseCommand, LoseComplete, contexts
<1>2. NoProcedure.type \notin TokenTypes
  BY DEF NoProcedure, TokenTypes, HandoverTypes
<1>3. QuietLinks
  BY <1>1, <1>2, QuietX2
<1>4. QED
  BY <1>1, <1>3, QuietAtCells DEF McInv, Shapes

\* A procedure that is at another place is not on X2, and none is complete.
LEMMA TokenElsewhere ==
    ASSUME McInv, NEW here \in Places \ {"none"},
           \/ here = "lteDl" /\ ~FreeIn(lteDl, DlTypes)
           \/ here = "lteUl" /\ ~FreeIn(lteUl, UlTypes)
           \/ here = "command" /\ commands # {}
           \/ here = "ue" /\ ueState = "Handover"
           \/ here = "complete" /\ completes # {}
    PROVE  TokenAt(here) /\ ~setup /\ ~allInOutage
<1>1. PICK place \in Places : TokenAt(place) /\ (setup \/ allInOutage => place = "none")
  BY DEF McInv, OneProcedure
<1>2. place = here
  BY <1>1 DEF TokenAt
<1>3. QED
  BY <1>1, <1>2

\* The target tells the coordinator that the UE has come.
LEMMA RecvReconfigurationCompleteInv ==
    ASSUME McInv, NEW id \in DOMAIN ctx, RecvReconfigurationComplete(id), AtCells
    PROVE  McInv'
<1> DEFINE cell == ctx[id].cell
           done == [type |-> "SecondaryCellHandoverCompleted", rnti |-> id, source |-> ctx[id].source]
<1>1. /\ id \in completes /\ completes' = completes \ {id} /\ commands' = commands
      /\ ctx' = [ctx EXCEPT ![id].state = "Connected"]
      /\ x2' = Sent(x2, cell, LteCell, done)
  BY DEF RecvReconfigurationComplete
<1>2. TokenAt("complete") /\ ~setup /\ ~allInOutage
  BY <1>1, TokenElsewhere DEF Places
<1>3. /\ X2Free(x2) /\ Links(x2) /\ commands = {} /\ completes = {id} /\ ueState # "Handover"
      /\ FreeIn(lteDl, DlTypes) /\ FreeIn(lteUl, UlTypes)
      /\ OneIn(lteDl, DlTypes) /\ OneIn(lteUl, UlTypes)
  BY <1>1, <1>2 DEF TokenAt, McInv, Shapes
<1>4. bearerIsMc /\ Busy(ctx) \subseteq {id}
  BY <1>1 DEF McInv, BearerFirst, BusyIsInvolved
<1> HIDE DEF cell, done
<1>5. Contextual(ctx') /\ Busy(ctx') = {}
  <2>1. Contextual(ctx)
    BY DEF McInv, Shapes
  <2>2. "Connected" \notin {"Preparation", "Joining"}
    OBVIOUS
  <2>3. Contextual(ctx') /\ Busy(ctx') \subseteq Busy(ctx) \ {id}
    BY <1>1, <2>1, <2>2, NewState
  <2>4. QED
    BY <1>4, <2>3
<1>6. Links(x2') /\ X2One(x2')
  BY <1>1, <1>3, Reply
<1>7. commands' = {} /\ completes' = {} /\ UNCHANGED <<lteDl, lteUl, ueState, setup, allInOutage, handoverTo>>
  BY <1>1, <1>3, AtCellsFrame
<1>8. TokenAt("x2")'
  BY <1>3, <1>6, <1>7 DEF TokenAt
<1>9. Shapes' /\ OneProcedure'
  BY <1>2, <1>5, <1>6, <1>7, <1>8 DEF McInv, Shapes, OneProcedure, Places
<1>10. BusyIsInvolved'
  BY <1>5, <1>7 DEF BusyIsInvolved
<1>11. BearerFirst'
  BY <1>4, AtCellsFrame, BearerStays
<1>12. QED
  BY <1>9, <1>10, <1>11, AtCellsFrame DEF McInv

(***************************************************************************)
(* The UE.                                                                 *)
(***************************************************************************)

\* What arrives first over LTE, if it belongs to a procedure, is all there is.
LEMMA DlTaken ==
    ASSUME McInv, NEW type, FromLte(type)
    PROVE  /\ IsSequence(Tail(lteDl))
           /\ FreeIn(lteDl, DlTypes) => FreeIn(Tail(lteDl), DlTypes)
           /\ OneIn(lteDl, DlTypes) => OneIn(Tail(lteDl), DlTypes)
           /\ type \in DlTypes => /\ TokenAt("lteDl") /\ ~setup /\ ~allInOutage
                                  /\ FreeIn(Tail(lteDl), DlTypes) /\ Busy(ctx) = {}
<1>1. IsSequence(lteDl) /\ lteDl # <<>> /\ Head(lteDl).type = type
  BY DEF McInv, Shapes, FromLte
<1>2. /\ FreeIn(lteDl, DlTypes) => FreeIn(Tail(lteDl), DlTypes)
      /\ OneIn(lteDl, DlTypes) => OneIn(Tail(lteDl), DlTypes)
      /\ OneIn(lteDl, DlTypes) /\ Head(lteDl).type \in DlTypes => FreeIn(Tail(lteDl), DlTypes)
      /\ FreeIn(lteDl, DlTypes) => Head(lteDl).type \notin DlTypes
  BY <1>1, TailTypes
<1>3. IsSequence(Tail(lteDl))
  BY <1>1, TailFacts
<1>4. ASSUME type \in DlTypes
      PROVE  /\ TokenAt("lteDl") /\ ~setup /\ ~allInOutage
             /\ FreeIn(Tail(lteDl), DlTypes) /\ Busy(ctx) = {}
  <2>1. ~FreeIn(lteDl, DlTypes)
    BY <1>1, <1>2, <1>4
  <2>2. TokenAt("lteDl") /\ ~setup /\ ~allInOutage
    BY <2>1, TokenElsewhere DEF Places
  <2>3. OneIn(lteDl, DlTypes)
    BY <2>2 DEF TokenAt
  <2>4. Busy(ctx) = {}
    BY <2>1 DEF McInv, BusyIsInvolved
  <2>5. QED
    BY <1>1, <1>2, <1>4, <2>2, <2>3, <2>4
<1>5. QED
  BY <1>2, <1>3, <1>4

\* A procedure goes on from the LTE downlink to the uplink.
LEMMA DlToUl ==
    ASSUME McInv, NEW type \in DlTypes, FromLte(type), NEW report,
           lteDl' = Tail(lteDl), lteUl' = Append(lteUl, report),
           Contextual(ctx'), Busy(ctx') \subseteq Busy(ctx),
           UNCHANGED <<mode, served, allInOutage, handover, secondary, x2, commands, completes>>,
           ueState' # "Handover"
    PROVE  McInv'
<1>1. /\ IsSequence(lteDl') /\ TokenAt("lteDl") /\ ~setup /\ ~allInOutage
      /\ FreeIn(lteDl', DlTypes) /\ Busy(ctx) = {}
  BY DlTaken
<1>2. IsSequence(lteUl) /\ FreeIn(lteUl, UlTypes)
  BY <1>1 DEF TokenAt, McInv, Shapes
<1>3. IsSequence(lteUl') /\ OneIn(lteUl', UlTypes)
  BY <1>2, AppendFacts, AppendTypes
<1>4. X2One(x2) /\ X2Free(x2) /\ commands = {} /\ completes = {}
  BY <1>1 DEF TokenAt
<1>5. OneIn(lteDl', DlTypes)
  BY <1>1 DEF FreeIn, OneIn
<1>6. TokenAt("lteUl")'
  BY <1>1, <1>3, <1>4, <1>5 DEF TokenAt
<1>7. ~setup' /\ ~allInOutage'
  BY <1>1 DEF served
<1>8. Shapes' /\ OneProcedure'
  BY <1>1, <1>3, <1>6, <1>7 DEF McInv, Shapes, OneProcedure, Places
<1>9. BusyIsInvolved'
  BY <1>1, <1>4 DEF BusyIsInvolved
<1>10. BearerFirst'
  BY DEF McInv, BearerFirst, served, secondary
<1>11. QED
  BY <1>8, <1>9, <1>10, CoordinatorFrame DEF McInv

\* The UE connects to the mmWave cell and reports it.
LEMMA UeConnectToMmWaveInv ==
    ASSUME McInv, UeConnectToMmWave
    PROVE  McInv'
<1> DEFINE cell == Head(lteDl).cell
           report == [type |-> "SecondaryCellConnected", rnti |-> Len(ctx) + 1, cell |-> cell]
           new == NewContext(cell, "Connected", 0, FALSE)
<1>0. "state" \in DOMAIN new /\ new.state = "Connected"
  BY DEF NewContext
<1>1. /\ FromLte("Connect") /\ lteDl' = Tail(lteDl) /\ lteUl' = Append(lteUl, report)
      /\ ctx' = Append(ctx, new)
      /\ UNCHANGED <<mode, served, allInOutage, handover, secondary, x2, commands, completes>>
      /\ ueState' = "Connected"
  BY DEF UeConnectToMmWave, NewContext
<1> HIDE DEF cell, report, new
<1>2. Contextual(ctx') /\ Busy(ctx') \subseteq Busy(ctx)
  <2>1. Contextual(ctx)
    BY DEF McInv, Shapes
  <2>2. "Connected" \notin {"Preparation", "Joining"}
    OBVIOUS
  <2>3. QED
    BY <1>0, <1>1, <2>1, <2>2, AddedContext
<1>3. "Connect" \in DlTypes
  BY DEF DlTypes
<1>4. QED
  BY <1>1, <1>2, <1>3, DlToUl

\* The UE sets up the mmWave leg of its bearer.
LEMMA UeReconfigureInv ==
    ASSUME McInv, UeReconfigure
    PROVE  McInv'
<1> DEFINE report == [type |-> "ReconfigurationCompleted"]
<1>1. /\ FromLte("Reconfiguration") /\ lteDl' = Tail(lteDl) /\ lteUl' = Append(lteUl, report)
      /\ UNCHANGED <<mode, served, allInOutage, handover, secondary, x2, commands, completes>>
      /\ UNCHANGED <<ctx, ueState>>
  BY DEF UeReconfigure, contextVars, contexts
<1> HIDE DEF report
<1>2. Contextual(ctx') /\ Busy(ctx') \subseteq Busy(ctx)
  BY <1>1 DEF McInv, Shapes
<1>3. "Reconfiguration" \in DlTypes
  BY DEF DlTypes
<1>4. ueState' # "Handover"
  BY <1>1, <1>3, DlTaken DEF TokenAt
<1>5. QED
  BY <1>1, <1>2, <1>3, <1>4, DlToUl

\* The UE turns its uplink to LTE or to mmWave.
LEMMA UeRecvConnectionSwitchInv ==
    ASSUME McInv, UeRecvConnectionSwitch
    PROVE  McInv'
<1>1. /\ FromLte("Switch") /\ lteDl' = Tail(lteDl)
      /\ UNCHANGED <<mode, served, allInOutage, handover, secondary, x2, ctx, commands, completes,
                     ueState, handoverTo, lteUl>>
  BY DEF UeRecvConnectionSwitch, contextVars, contexts
<1>2. /\ IsSequence(lteDl')
      /\ FreeIn(lteDl, DlTypes) => FreeIn(lteDl', DlTypes)
      /\ OneIn(lteDl, DlTypes) => OneIn(lteDl', DlTypes)
  BY <1>1, DlTaken
<1>3. Shapes' /\ OneProcedure' /\ BusyIsInvolved'
  BY <1>1, <1>2, QuietStep DEF McInv, Shapes, served
<1>4. BearerFirst'
  BY <1>1 DEF McInv, BearerFirst, served, secondary
<1>5. QED
  BY <1>1, <1>3, <1>4, CoordinatorFrame DEF McInv

\* What the UE does in a handover leaves the coordinator and X2 alone.
LEMMA UeHandoverFrame ==
    ASSUME McInv, UNCHANGED <<coordinatorVars, ctx, x2, lteUl>>
    PROVE  /\ Coordinated' /\ Shapes'
           /\ UNCHANGED <<lteDl, setup, allInOutage, reconfiguring, lastCell, bearerIsMc>>
<1>1. UNCHANGED <<lteDl, setup, allInOutage, reconfiguring, lastCell, bearerIsMc,
                  mode, served, handover>>
  BY DEF coordinatorVars, served, secondary
<1>2. QED
  BY <1>1, CoordinatorFrame DEF McInv, Shapes

\* The UE sets out for the target.
LEMMA UeRecvHandoverCommandInv ==
    ASSUME McInv, UeRecvHandoverCommand
    PROVE  McInv'
<1>1. PICK command \in commands :
          /\ commands' = commands \ {command} /\ handoverTo' = command.to
          /\ ueState' = "Handover"
          /\ UNCHANGED <<coordinatorVars, ctx, completes, x2, lteUl>>
  BY DEF UeRecvHandoverCommand, contexts
<1>2. TokenAt("command") /\ ~setup /\ ~allInOutage
  BY <1>1, TokenElsewhere DEF Places
<1>3. commands' = {} /\ completes' = {} /\ X2Free(x2) /\ FreeIn(lteDl, DlTypes) /\ FreeIn(lteUl, UlTypes)
  BY <1>1, <1>2 DEF TokenAt
<1>4. Busy(ctx) \subseteq {command.to} /\ bearerIsMc
  BY <1>1 DEF McInv, BusyIsInvolved, BearerFirst
<1>5. Coordinated' /\ Shapes' /\ UNCHANGED <<lteDl, setup, allInOutage, reconfiguring, lastCell, bearerIsMc>>
  BY <1>1, UeHandoverFrame
<1>6. TokenAt("ue")'
  BY <1>1, <1>2, <1>3, <1>5 DEF TokenAt
<1>7. OneProcedure'
  BY <1>2, <1>5, <1>6 DEF OneProcedure, Places
<1>8. BusyIsInvolved'
  <2>1. \A m \in InTransit(x2') : m.type \notin TokenTypes
    BY <1>1, <1>3, FreeTransit
  <2>2. QED
    BY <1>1, <1>2, <1>3, <1>4, <1>5, <2>1 DEF BusyIsInvolved
<1>9. BearerFirst'
  BY <1>4, <1>5 DEF BearerFirst
<1>10. QED
  BY <1>5, <1>7, <1>8, <1>9 DEF McInv

\* The UE has reached the target.
LEMMA UeRandomAccessSuccessfulInv ==
    ASSUME McInv, UeRandomAccessSuccessful
    PROVE  McInv'
<1>1. /\ ueState = "Handover" /\ completes' = completes \cup {handoverTo}
      /\ ueState' = "Connected"
      /\ UNCHANGED <<coordinatorVars, ctx, commands, x2, lteUl>>
  BY DEF UeRandomAccessSuccessful, contexts
<1>2. TokenAt("ue") /\ ~setup /\ ~allInOutage
  BY <1>1, TokenElsewhere DEF Places
<1>3. commands' = {} /\ completes' = {handoverTo} /\ X2Free(x2)
      /\ FreeIn(lteDl, DlTypes) /\ FreeIn(lteUl, UlTypes)
  BY <1>1, <1>2 DEF TokenAt
<1>4. Busy(ctx) \subseteq {handoverTo} /\ bearerIsMc
  BY <1>1 DEF McInv, BusyIsInvolved, BearerFirst
<1>5. Coordinated' /\ Shapes' /\ UNCHANGED <<lteDl, setup, allInOutage, reconfiguring, lastCell, bearerIsMc>>
  BY <1>1, UeHandoverFrame
<1>6. TokenAt("complete")'
  BY <1>1, <1>2, <1>3, <1>5 DEF TokenAt
<1>7. OneProcedure'
  BY <1>2, <1>5, <1>6 DEF OneProcedure, Places
<1>8. BusyIsInvolved'
  <2>1. \A m \in InTransit(x2') : m.type \notin TokenTypes
    BY <1>1, <1>3, FreeTransit
  <2>2. QED
    BY <1>1, <1>2, <1>3, <1>4, <1>5, <2>1 DEF BusyIsInvolved
<1>9. BearerFirst'
  BY <1>4, <1>5 DEF BearerFirst
<1>10. QED
  BY <1>5, <1>7, <1>8, <1>9 DEF McInv

\* The UE does not reach the target, and the procedure ends.
LEMMA UeRandomAccessFailedInv ==
    ASSUME McInv, UeRandomAccessFailed
    PROVE  McInv'
<1>1. /\ ueState' = "Failed"
      /\ UNCHANGED <<coordinatorVars, ctx, commands, completes, x2, handoverTo, lteUl>>
  BY DEF UeRandomAccessFailed, contexts
<1>2. Coordinated' /\ Shapes' /\ UNCHANGED <<lteDl, setup, allInOutage, reconfiguring, lastCell, bearerIsMc>>
  BY <1>1, UeHandoverFrame
<1>3. OneProcedure' /\ BusyIsInvolved'
  BY <1>1, <1>2, QuietStep DEF McInv, Shapes
<1>4. BearerFirst'
  BY <1>1, <1>2 DEF McInv, BearerFirst
<1>5. QED
  BY <1>2, <1>3, <1>4 DEF McInv
(***************************************************************************)
(* The coordinator.                                                        *)
(***************************************************************************)

\* What arrives first from the UE over LTE, if it belongs to a procedure, is
\* all there is.
LEMMA UlTaken ==
    ASSUME McInv, lteUl # <<>>, Head(lteUl).type \in UlTypes
    PROVE  /\ IsSequence(Tail(lteUl)) /\ FreeIn(Tail(lteUl), UlTypes)
           /\ TokenAt("lteUl") /\ ~setup /\ ~allInOutage /\ Busy(ctx) = {}
           /\ Links(x2) /\ X2Free(x2) /\ commands = {} /\ completes = {} /\ ueState # "Handover"
           /\ FreeIn(lteDl, DlTypes) /\ OneIn(lteDl, DlTypes) /\ IsSequence(lteDl)
<1>1. IsSequence(lteUl) /\ IsSequence(lteDl) /\ Links(x2)
  BY DEF McInv, Shapes
<1>2. /\ OneIn(lteUl, UlTypes) => FreeIn(Tail(lteUl), UlTypes)
      /\ ~FreeIn(lteUl, UlTypes)
  BY <1>1, TailTypes
<1>3. TokenAt("lteUl") /\ ~setup /\ ~allInOutage
  BY <1>2, TokenElsewhere DEF Places
<1>4. Busy(ctx) = {}
  BY <1>2 DEF McInv, BusyIsInvolved
<1>5. /\ X2Free(x2) /\ commands = {} /\ completes = {} /\ ueState # "Handover"
      /\ FreeIn(lteDl, DlTypes) /\ OneIn(lteDl, DlTypes) /\ OneIn(lteUl, UlTypes)
  BY <1>3 DEF TokenAt
<1>6. IsSequence(Tail(lteUl))
  BY <1>1, TailFacts
<1>7. QED
  BY <1>1, <1>2, <1>3, <1>4, <1>5, <1>6

\* The coordinator has the mmWave cell set up the RLC of the bearer.
LEMMA RecvSecondaryCellConnectedInv ==
    ASSUME McInv, RecvSecondaryCellConnected
    PROVE  McInv'
<1> DEFINE cell == Head(lteUl).cell
           request == [type |-> "RlcSetupRequest", rnti |-> Head(lteUl).rnti]
<1>1. /\ lteUl # <<>> /\ Head(lteUl).type = "SecondaryCellConnected" /\ lteUl' = Tail(lteUl)
      /\ \/ x2' = Sent(x2, LteCell, cell, request)
         \/ x2' = x2
      /\ UNCHANGED <<mode, served, allInOutage, handover, reconfiguring, bearerIsMc, lteDl>>
      /\ UNCHANGED <<ctx, commands, completes, ueState, handoverTo>>
  BY DEF RecvSecondaryCellConnected, RecvSecondaryCellInitialAccess, contextVars, contexts
<1>2. "SecondaryCellConnected" \in UlTypes
  BY DEF UlTypes
<1>3. /\ IsSequence(lteUl') /\ FreeIn(lteUl', UlTypes)
      /\ ~setup /\ ~allInOutage /\ Busy(ctx) = {}
      /\ Links(x2) /\ X2Free(x2) /\ commands = {} /\ completes = {} /\ ueState # "Handover"
      /\ FreeIn(lteDl, DlTypes) /\ OneIn(lteDl, DlTypes) /\ IsSequence(lteDl)
  BY <1>1, <1>2, UlTaken
<1>4. request.type \in TokenTypes \ HandoverTypes
  BY DEF TokenTypes, HandoverTypes
<1> HIDE DEF cell, request
<1>5. Links(x2') /\ X2One(x2') /\ \A m \in InTransit(x2') : m.type \in TokenTypes => m = request
  BY <1>1, <1>3, Reply, FreeIsOne, FreeTransit
<1>6. ~setup' /\ ~allInOutage' /\ UNCHANGED <<lastCell, reconfiguring, bearerIsMc>>
  BY <1>1, <1>3 DEF served
<1>7. OneIn(lteUl', UlTypes)
  BY <1>3 DEF FreeIn, OneIn
<1>8. TokenAt("x2")'
  BY <1>1, <1>3, <1>5, <1>7 DEF TokenAt
<1>9. Shapes' /\ OneProcedure'
  BY <1>1, <1>3, <1>5, <1>6, <1>8 DEF Shapes, OneProcedure, Places, McInv
<1>10. BusyIsInvolved'
  BY <1>1, <1>3 DEF BusyIsInvolved
<1>11. BearerFirst'
  BY <1>1, <1>4, <1>5, <1>6, BearerStays DEF TokenTypes
<1>12. QED
  BY <1>1, <1>9, <1>10, <1>11, CoordinatorFrame DEF McInv

\* The bearer of the UE is set up over mmWave.
LEMMA RecvUeReconfiguredInv ==
    ASSUME McInv, RecvUeReconfigured
    PROVE  McInv'
<1>1. /\ lteUl # <<>> /\ Head(lteUl).type = "ReconfigurationCompleted" /\ lteUl' = Tail(lteUl)
      /\ reconfiguring
      /\ lastCell' = mmWaveCell /\ setup' /\ ~usingLte' /\ downlinkMmWave'
      /\ usingLte' = FALSE /\ downlinkMmWave' = TRUE
      /\ UNCHANGED <<mode, allInOutage, handover, bearerIsMc, lteDl, x2>>
      /\ UNCHANGED <<ctx, commands, completes, ueState, handoverTo>>
  BY DEF RecvUeReconfigured, RecvReconfigurationCompleted, Serve, contextVars, contexts
<1>2. "ReconfigurationCompleted" \in UlTypes
  BY DEF UlTypes
<1>3. /\ IsSequence(lteUl') /\ FreeIn(lteUl', UlTypes)
      /\ ~setup /\ ~allInOutage /\ Busy(ctx) = {}
      /\ Links(x2) /\ X2Free(x2) /\ commands = {} /\ completes = {} /\ ueState # "Handover"
      /\ FreeIn(lteDl, DlTypes) /\ OneIn(lteDl, DlTypes) /\ IsSequence(lteDl)
  BY <1>1, <1>2, UlTaken
<1>4. OneIn(lteUl', UlTypes) /\ X2One(x2')
  BY <1>1, <1>3, FreeIsOne DEF FreeIn, OneIn
<1>5. TokenAt("none")'
  BY <1>1, <1>3, <1>4 DEF TokenAt
<1>6. Shapes' /\ OneProcedure'
  BY <1>1, <1>3, <1>5 DEF Shapes, OneProcedure, Places, McInv
<1>7. BusyIsInvolved'
  BY <1>1, <1>3 DEF BusyIsInvolved
<1>8. bearerIsMc' /\ BearerFirst'
  BY <1>1 DEF McInv, BearerFirst
<1>9. handover' = NoHandover
  BY <1>1, <1>3 DEF McInv, Coordinated, ScheduledHandoverIsCurrent
<1>10. Coordinated'
  BY <1>1, <1>3, <1>9 DEF Coordinated, ScheduledHandoverIsCurrent, DownlinkPath, NoHandover
<1>11. QED
  BY <1>6, <1>7, <1>8, <1>10 DEF McInv
\* The mmWave cell has set up the RLC of the bearer, and the UE is told to.
LEMMA RecvRlcSetupCompletedInv ==
    ASSUME McInv, NEW cell \in Cells, RecvRlcSetupCompleted(cell),
           UNCHANGED <<contextVars, ueVars>>
    PROVE  McInv'
<1> DEFINE order == [type |-> "Reconfiguration"]
<1>1. /\ Arrived(cell, LteCell, "RlcSetupCompleted")
      /\ x2' = Received(x2, cell, LteCell) /\ bearerIsMc' = TRUE
      /\ lteDl' = Append(lteDl, order)
      /\ UNCHANGED <<mode, served, allInOutage, handover>>
      /\ UNCHANGED <<ctx, commands, completes, ueState, handoverTo, lteUl>>
  BY DEF RecvRlcSetupCompleted, contextVars, contexts, ueVars
<1>2. /\ TokenAt("x2") /\ ~setup /\ ~allInOutage
      /\ X2Free(x2') /\ Links(x2') /\ Busy(ctx) = {}
  <2>1. /\ TokenAt("x2") /\ ~setup /\ ~allInOutage
        /\ X2Free(x2') /\ Links(x2')
        /\ Oldest(cell, LteCell).type = "RlcSetupCompleted"
        /\ Busy(ctx) \subseteq Involved(Oldest(cell, LteCell))
    BY <1>1, TokenArrives, InterfaceOfCells DEF TokenTypes
  <2>2. QED
    BY <2>1 DEF Involved
<1> HIDE DEF order
<1>3. /\ FreeIn(lteDl, DlTypes) /\ IsSequence(lteDl) /\ IsSequence(lteUl)
      /\ FreeIn(lteUl, UlTypes) /\ OneIn(lteUl, UlTypes)
      /\ commands = {} /\ completes = {} /\ ueState # "Handover"
  BY <1>2 DEF TokenAt, McInv, Shapes
<1>4. IsSequence(lteDl') /\ OneIn(lteDl', DlTypes)
  BY <1>1, <1>3, AppendFacts, AppendTypes
<1>5. X2One(x2') /\ \A m \in InTransit(x2') : m.type \notin TokenTypes
  BY <1>2, FreeIsOne, FreeTransit
<1>6. TokenAt("lteDl")'
  BY <1>1, <1>2, <1>3, <1>4, <1>5 DEF TokenAt
<1>7. ~setup' /\ ~allInOutage'
  BY <1>1, <1>2 DEF served
<1>8. Shapes' /\ OneProcedure'
  BY <1>1, <1>2, <1>3, <1>4, <1>6, <1>7 DEF Shapes, OneProcedure, Places, McInv
<1>9. BusyIsInvolved'
  BY <1>1, <1>2 DEF BusyIsInvolved
<1>10. BearerFirst'
  BY <1>1 DEF BearerFirst
<1>11. QED
  BY <1>1, <1>8, <1>9, <1>10, CoordinatorFrame DEF McInv

\* The UE has come to the target, and the source is released.
LEMMA RecvSecondaryCellHandoverCompletedInv ==
    ASSUME McInv, NEW cell \in Cells, RecvSecondaryCellHandoverCompleted(cell),
           UNCHANGED <<contextVars, ueVars>>
    PROVE  McInv'
<1> DEFINE links == Received(x2, cell, LteCell)
           release == [type |-> "UeContextRelease", rnti |-> Oldest(cell, LteCell).source]
<1>1. /\ Arrived(cell, LteCell, "SecondaryCellHandoverCompleted")
      /\ x2' = Sent(links, LteCell, mmWaveCell, release)
      /\ UNCHANGED <<mode, allInOutage, handover, reconfiguring, bearerIsMc, lteDl>>
      /\ \/ lastCell' = cell /\ setup' = TRUE /\ usingLte' = FALSE /\ downlinkMmWave' = TRUE
         \/ UNCHANGED <<lastCell, setup, usingLte, downlinkMmWave>>
      /\ UNCHANGED <<ctx, commands, completes, ueState, handoverTo, lteUl>>
  BY DEF RecvSecondaryCellHandoverCompleted, ReleasingSource, Serve, served,
         contextVars, contexts, ueVars
<1>2. /\ TokenAt("x2") /\ ~setup /\ ~allInOutage
      /\ X2Free(links) /\ Links(links)
      /\ Oldest(cell, LteCell) \in InTransit(x2)
      /\ Oldest(cell, LteCell).type = "SecondaryCellHandoverCompleted"
      /\ Busy(ctx) \subseteq Involved(Oldest(cell, LteCell))
  BY <1>1, TokenArrives, InterfaceOfCells DEF TokenTypes, HandoverTypes
<1>3. Busy(ctx) = {} /\ bearerIsMc
  BY <1>2 DEF Involved, McInv, BearerFirst, HandoverTypes
<1>4. release.type \notin TokenTypes
  BY DEF TokenTypes, HandoverTypes
<1> HIDE DEF links, release
<1>5. Links(x2') /\ X2One(x2') /\ X2Free(x2')
  BY <1>1, <1>2, <1>4, Reply
<1>6. /\ FreeIn(lteDl, DlTypes) /\ IsSequence(lteDl) /\ IsSequence(lteUl)
      /\ FreeIn(lteUl, UlTypes) /\ OneIn(lteUl, UlTypes) /\ OneIn(lteDl, DlTypes)
      /\ commands = {} /\ completes = {} /\ ueState # "Handover"
  BY <1>2 DEF TokenAt, McInv, Shapes
<1>7. TokenAt("none")'
  BY <1>1, <1>5, <1>6 DEF TokenAt
<1>8. Shapes' /\ OneProcedure'
  BY <1>1, <1>5, <1>6, <1>7 DEF Shapes, OneProcedure, Places, McInv
<1>9. BusyIsInvolved'
  BY <1>1, <1>3 DEF BusyIsInvolved
<1>10. BearerFirst'
  BY <1>1, <1>3 DEF BearerFirst
<1>11. handover' = NoHandover
  BY <1>1, <1>2 DEF McInv, Coordinated, ScheduledHandoverIsCurrent
<1>12. Coordinated'
  <2>1. DownlinkPath'
    <3>1. CASE usingLte' = FALSE /\ downlinkMmWave' = TRUE
      BY <3>1 DEF DownlinkPath
    <3>2. CASE UNCHANGED <<lastCell, usingLte, downlinkMmWave>>
      BY <3>2 DEF McInv, Coordinated, DownlinkPath
    <3>3. QED
      BY <1>1, <3>1, <3>2
  <2>2. ScheduledHandoverIsCurrent'
    BY <1>11 DEF ScheduledHandoverIsCurrent, NoHandover
  <2>3. QED
    BY <1>1, <1>2, <1>11, <2>1, <2>2 DEF Coordinated, NoHandover
<1>13. QED
  BY <1>8, <1>9, <1>10, <1>12 DEF McInv

\* The coordinator learns nothing of a failed handover.
LEMMA RecvHandoverFailedInv ==
    ASSUME McInv, NEW cell \in Cells, RecvHandoverFailed(cell),
           UNCHANGED <<contextVars, ueVars>>
    PROVE  McInv'
<1>1. /\ x2[<<cell, LteCell>>] # <<>> /\ x2' = Received(x2, cell, LteCell)
      /\ AtCells /\ UNCHANGED <<ctx, commands, completes>>
  BY DEF RecvHandoverFailed, Arrived, AtCells, contextVars, contexts
<1>2. NoProcedure.type \notin TokenTypes
  BY DEF NoProcedure, TokenTypes, HandoverTypes
<1>3. QuietLinks
  BY <1>1, <1>2, QuietX2, InterfaceOfCells
<1>4. QED
  BY <1>1, <1>3, QuietAtCells DEF McInv, Shapes
\* A step of the coordinator that leaves all procedures where they are: it may
\* tell the UE or the serving cell of another path of the bearer.
LEMMA QuietDecision ==
    ASSUME McInv, UNCHANGED <<contextVars, ueVars>>, QuietLinks,
           UNCHANGED <<mode, setup, allInOutage, lastCell, secondary>>,
           IsSequence(lteDl'), FreeIn(lteDl, DlTypes) => FreeIn(lteDl', DlTypes),
           OneIn(lteDl, DlTypes) => OneIn(lteDl', DlTypes)
    PROVE  Shapes' /\ OneProcedure' /\ BusyIsInvolved' /\ BearerFirst'
<1>1. /\ UNCHANGED <<setup, allInOutage, lteUl, handoverTo, ctx, commands, completes, ueState>>
      /\ UNCHANGED <<reconfiguring, lastCell, bearerIsMc>>
  BY DEF contextVars, contexts, ueVars, secondary
<1>2. Contextual(ctx') /\ Busy(ctx') = Busy(ctx)
  BY <1>1 DEF McInv, Shapes
<1>3. Shapes' /\ OneProcedure' /\ BusyIsInvolved'
  BY <1>1, <1>2, QuietStep DEF QuietLinks
<1>4. BearerFirst'
  BY <1>1, BearerStays DEF QuietLinks, TokenTypes
<1>5. QED
  BY <1>3, <1>4

\* The orders to change the path of the bearer belong to no procedure.
LEMMA SwitchIsQuiet ==
    ASSUME McInv, NEW useMmWave \in BOOLEAN, SendRrcConnectionSwitch(useMmWave)
    PROVE  /\ QuietLinks
           /\ IsSequence(lteDl') /\ (FreeIn(lteDl, DlTypes) => FreeIn(lteDl', DlTypes))
           /\ OneIn(lteDl, DlTypes) => OneIn(lteDl', DlTypes)
<1> DEFINE order == [type |-> "Switch", mmWave |-> useMmWave, bearer |-> bearerIsMc]
           switch == [type |-> "SwitchConnection", rnti |-> mmWaveRnti]
<1>1. /\ x2' = Sent(x2, LteCell, mmWaveCell, switch) \/ x2' = x2
      /\ lteDl' = Append(lteDl, order)
  BY DEF SendRrcConnectionSwitch
<1>2. switch.type \notin TokenTypes /\ order.type \notin DlTypes
  BY DEF TokenTypes, HandoverTypes, DlTypes
<1>3. IsSequence(lteDl)
  BY DEF McInv, Shapes
<1> HIDE DEF order, switch
<1>4. QuietLinks
  BY <1>1, <1>2, QuietX2
<1>5. IsSequence(lteDl')
  BY <1>1, <1>3, AppendFacts
<1>6. /\ FreeIn(lteDl, DlTypes) => FreeIn(lteDl', DlTypes)
      /\ OneIn(lteDl, DlTypes) => OneIn(lteDl', DlTypes)
  BY <1>1, <1>2, <1>3, AppendTypes
<1>7. QED
  BY <1>4, <1>5, <1>6

\* While the UE is set up, or has never been told to connect, no procedure is
\* under way.
LEMMA NothingUnderWay ==
    ASSUME McInv, setup \/ allInOutage
    PROVE  /\ TokenAt("none") /\ Links(x2) /\ X2Free(x2) /\ Busy(ctx) = {}
           /\ commands = {} /\ completes = {} /\ ueState # "Handover"
           /\ IsSequence(lteDl) /\ FreeIn(lteDl, DlTypes) /\ OneIn(lteDl, DlTypes)
           /\ IsSequence(lteUl) /\ FreeIn(lteUl, UlTypes) /\ OneIn(lteUl, UlTypes)
<1>1. TokenAt("none")
  BY DEF McInv, OneProcedure
<1>2. Busy(ctx) = {}
  BY DEF McInv, BusyIsInvolved
<1>3. QED
  BY <1>1, <1>2 DEF TokenAt, McInv, Shapes

\* The coordinator asks for a handover.
LEMMA HandoverStarts ==
    ASSUME McInv, UNCHANGED <<contextVars, ueVars>>, setup,
           NEW target, SendMcHandoverRequest(target),
           UNCHANGED <<mode, lastCell, usingLte, downlinkMmWave, allInOutage, secondary, lteDl>>,
           handover' = NoHandover
    PROVE  McInv'
<1> DEFINE request == [type |-> "McHandoverRequest", target |-> target]
<1>1. x2' = Sent(x2, LteCell, lastCell, request) /\ ~setup'
      /\ UNCHANGED <<ctx, commands, completes, ueState, handoverTo, lteUl>>
      /\ UNCHANGED <<reconfiguring, bearerIsMc>>
  BY DEF SendMcHandoverRequest, contextVars, contexts, ueVars, secondary
<1>2. /\ Links(x2) /\ X2Free(x2) /\ Busy(ctx) = {}
      /\ commands = {} /\ completes = {} /\ ueState # "Handover"
      /\ IsSequence(lteDl) /\ FreeIn(lteDl, DlTypes) /\ OneIn(lteDl, DlTypes)
      /\ IsSequence(lteUl) /\ FreeIn(lteUl, UlTypes) /\ OneIn(lteUl, UlTypes)
  BY NothingUnderWay
<1> HIDE DEF request
<1>3. Links(x2') /\ X2One(x2')
  BY <1>1, <1>2, Reply
<1>4. TokenAt("x2")'
  BY <1>1, <1>2, <1>3 DEF TokenAt
<1>5. ~allInOutage /\ bearerIsMc
  BY DEF McInv, Coordinated, BearerFirst
<1>6. Shapes' /\ OneProcedure'
  BY <1>1, <1>2, <1>3, <1>4, <1>5 DEF Shapes, OneProcedure, Places, McInv
<1>7. BusyIsInvolved'
  BY <1>1, <1>2 DEF BusyIsInvolved
<1>8. BearerFirst'
  BY <1>1, <1>5 DEF BearerFirst
<1>9. Coordinated'
  <2>1. DownlinkPath'
    BY DEF McInv, Coordinated, DownlinkPath
  <2>2. QED
    BY <1>1, <2>1 DEF Coordinated, ScheduledHandoverIsCurrent
<1>10. QED
  BY <1>6, <1>7, <1>8, <1>9 DEF McInv
\* No mmWave cell can serve the UE.
LEMMA FallBackToLteInv ==
    ASSUME McInv, NEW sinr, FallBackToLte(sinr), UNCHANGED <<contextVars, ueVars>>
    PROVE  McInv'
<1>1. /\ usingLte' = TRUE /\ SendRrcConnectionSwitch(FALSE) /\ handover' = NoHandover
      /\ UNCHANGED <<mode, lastCell, setup, allInOutage, secondary>>
      /\ downlinkMmWave' = IF bearerIsMc THEN FALSE ELSE downlinkMmWave
  BY DEF FallBackToLte, CancelHandover, SendRrcConnectionSwitch
<1>2. Shapes' /\ OneProcedure' /\ BusyIsInvolved' /\ BearerFirst'
  <2>1. FALSE \in BOOLEAN
    OBVIOUS
  <2>2. /\ QuietLinks
        /\ IsSequence(lteDl') /\ (FreeIn(lteDl, DlTypes) => FreeIn(lteDl', DlTypes))
        /\ OneIn(lteDl, DlTypes) => OneIn(lteDl', DlTypes)
    BY <1>1, <2>1, SwitchIsQuiet
  <2>3. QED
    BY <1>1, <2>2, QuietDecision
<1>3. DownlinkPath'
  <2>1. CASE lastCell = 0
    BY <1>1, <2>1 DEF DownlinkPath
  <2>2. CASE lastCell # 0
    <3>1. bearerIsMc
      BY <2>2 DEF McInv, BearerFirst
    <3>2. downlinkMmWave' = FALSE
      BY <1>1, <3>1
    <3>3. QED
      BY <1>1, <3>2 DEF DownlinkPath
  <2>3. QED
    BY <2>1, <2>2
<1>4. ScheduledHandoverIsCurrent'
  BY <1>1 DEF ScheduledHandoverIsCurrent, NoHandover
<1>5. Coordinated'
  BY <1>1, <1>3, <1>4 DEF McInv, Coordinated, NoHandover
<1>6. QED
  BY <1>2, <1>5 DEF McInv

\* The UE goes back to the mmWave cell it has.
LEMMA ReturnToMmWaveInv ==
    ASSUME McInv, NEW sinr, ReturnToMmWave(sinr), UNCHANGED <<contextVars, ueVars>>
    PROVE  McInv'
<1>1. /\ usingLte /\ setup
      /\ usingLte' = FALSE /\ SendRrcConnectionSwitch(TRUE)
      /\ UNCHANGED <<mode, lastCell, setup, allInOutage, handover, secondary>>
      /\ downlinkMmWave' = IF bearerIsMc THEN TRUE ELSE downlinkMmWave
  BY DEF ReturnToMmWave, SendRrcConnectionSwitch
<1>2. Shapes' /\ OneProcedure' /\ BusyIsInvolved' /\ BearerFirst'
  <2>1. TRUE \in BOOLEAN
    OBVIOUS
  <2>2. /\ QuietLinks
        /\ IsSequence(lteDl') /\ (FreeIn(lteDl, DlTypes) => FreeIn(lteDl', DlTypes))
        /\ OneIn(lteDl, DlTypes) => OneIn(lteDl', DlTypes)
    BY <1>1, <2>1, SwitchIsQuiet
  <2>3. QED
    BY <1>1, <2>2, QuietDecision
<1>3. bearerIsMc /\ handover = NoHandover
  BY <1>1 DEF McInv, BearerFirst, Coordinated, ScheduledHandoverIsCurrent
<1>4. DownlinkPath'
  <2>1. downlinkMmWave' = TRUE
    BY <1>1, <1>3
  <2>2. QED
    BY <1>1, <2>1 DEF DownlinkPath
<1>5. ScheduledHandoverIsCurrent'
  BY <1>1, <1>3 DEF ScheduledHandoverIsCurrent, NoHandover
<1>6. Coordinated'
  BY <1>1, <1>3, <1>4, <1>5 DEF McInv, Coordinated, NoHandover
<1>7. QED
  BY <1>2, <1>6 DEF McInv

\* The UE is handed over at once; then none is scheduled.
LEMMA HandOverNowInv ==
    ASSUME McInv, NEW sinr, HandOverNow(sinr), UNCHANGED <<contextVars, ueVars>>
    PROVE  McInv'
<1>1. /\ setup /\ (usingLte \/ mode = "threshold")
      /\ SendMcHandoverRequest(Best(sinr))
      /\ UNCHANGED <<mode, lastCell, usingLte, downlinkMmWave, allInOutage, handover, secondary, lteDl>>
  BY DEF HandOverNow
<1>2. handover = NoHandover
  BY <1>1 DEF McInv, Coordinated, ScheduledHandoverIsCurrent
<1> DEFINE target == Best(sinr)
<1>3. SendMcHandoverRequest(target)
  BY <1>1
<1> HIDE DEF target
<1>4. QED
  BY <1>1, <1>2, <1>3, HandoverStarts

\* The time to trigger of a handover is over.
LEMMA PerformHandoverInv ==
    ASSUME McInv, PerformHandover, UNCHANGED <<contextVars, ueVars>>
    PROVE  McInv'
<1>1. /\ handover # NoHandover /\ handover' = NoHandover
      /\ setup => SendMcHandoverRequest(handover.target)
      /\ UNCHANGED <<mode, lastCell, usingLte, downlinkMmWave, allInOutage, secondary, lteDl>>
  BY DEF PerformHandover
<1>2. setup
  BY <1>1 DEF McInv, Coordinated, ScheduledHandoverIsCurrent
<1> DEFINE target == handover.target
<1>3. SendMcHandoverRequest(target)
  BY <1>1, <1>2
<1> HIDE DEF target
<1>4. QED
  BY <1>1, <1>2, <1>3, HandoverStarts

\* A step that leaves all but the scheduled handover as it is.
LEMMA OnlySchedules ==
    ASSUME McInv, UNCHANGED <<contextVars, ueVars>>,
           UNCHANGED <<mode, served, allInOutage, secondary, lteDl, x2>>
    PROVE  Shapes' /\ OneProcedure' /\ BusyIsInvolved' /\ BearerFirst' /\ DownlinkPath'
<1>1. UNCHANGED <<setup, lastCell, usingLte, downlinkMmWave>>
  BY DEF served
<1>2. NoProcedure.type \notin TokenTypes
  BY DEF NoProcedure, TokenTypes, HandoverTypes
<1>3. QuietLinks /\ IsSequence(lteDl')
  BY <1>2, QuietX2 DEF McInv, Shapes
<1>4. Shapes' /\ OneProcedure' /\ BusyIsInvolved' /\ BearerFirst'
  BY <1>1, <1>3, QuietDecision
<1>5. QED
  BY <1>1, <1>4 DEF McInv, Coordinated, DownlinkPath

\* A handover is scheduled, scheduled anew or cancelled.
LEMMA TttBasedHandoverInv ==
    ASSUME McInv, NEW sinr, TttBasedHandover(sinr), UNCHANGED <<contextVars, ueVars>>
    PROVE  McInv'
<1> DEFINE best == Best(sinr)
           toBest == IF best = lastCell THEN NoHandover ELSE Handover(best)
<1>1. /\ ~usingLte /\ mode = "ttt" /\ setup
      /\ UNCHANGED <<mode, served, allInOutage, secondary, lteDl, x2>>
      /\ UNCHANGED <<setup, lastCell, usingLte>>
  BY DEF TttBasedHandover, served
<1>2. handover' \in Rescheduled(sinr)
  BY DEF TttBasedHandover
<1>3. ScheduledHandoverIsCurrent
  BY DEF McInv, Coordinated
<1>4. handover' = NoHandover \/ handover' = handover
      \/ (handover' = Handover(best) /\ best # lastCell)
  <2> HIDE DEF best
  <2>1. CASE handover = NoHandover
    BY <1>2, <2>1 DEF Rescheduled, best
  <2>2. CASE handover # NoHandover /\ handover.target = best
    <3>1. best # lastCell
      BY <1>3, <2>2 DEF ScheduledHandoverIsCurrent
    <3>2. QED
      BY <1>2, <2>2, <3>1 DEF Rescheduled, best
  <2>3. CASE handover # NoHandover /\ handover.target # best
    BY <1>2, <2>3 DEF Rescheduled, best
  <2>4. QED
    BY <2>1, <2>2, <2>3
<1> HIDE DEF best
<1>5. ScheduledHandoverIsCurrent'
  BY <1>1, <1>3, <1>4 DEF ScheduledHandoverIsCurrent, Handover
<1>6. Coordinated'
  BY <1>1, <1>5, OnlySchedules DEF McInv, Coordinated
<1>7. QED
  BY <1>1, <1>6, OnlySchedules DEF McInv

\* A UE that all cells were in outage for is told to connect, once.
LEMMA ConnectToMmWaveInv ==
    ASSUME McInv, NEW sinr, ConnectToMmWave(sinr), UNCHANGED <<contextVars, ueVars>>
    PROVE  McInv'
<1> DEFINE order == [type |-> "Connect", cell |-> Best(sinr)]
<1>1. /\ allInOutage /\ (mode = "threshold" => setup)
      /\ lteDl' = Append(lteDl, order) /\ allInOutage' = (mode = "threshold")
      /\ UNCHANGED <<mode, served, handover, secondary, x2>>
      /\ UNCHANGED <<ctx, commands, completes, ueState, handoverTo, lteUl>>
  BY DEF ConnectToMmWave, MayConnect, contextVars, contexts, ueVars
<1> HIDE DEF order
<1>2. ~setup /\ mode # "threshold"
  BY <1>1 DEF McInv, Coordinated
<1>3. ~allInOutage' /\ UNCHANGED <<setup, lastCell, usingLte, downlinkMmWave, reconfiguring, bearerIsMc>>
  BY <1>1, <1>2 DEF served, secondary
<1>4. /\ Links(x2) /\ X2Free(x2) /\ Busy(ctx) = {}
      /\ commands = {} /\ completes = {} /\ ueState # "Handover"
      /\ IsSequence(lteDl) /\ FreeIn(lteDl, DlTypes)
      /\ IsSequence(lteUl) /\ FreeIn(lteUl, UlTypes) /\ OneIn(lteUl, UlTypes)
  BY <1>1, NothingUnderWay
<1>5. IsSequence(lteDl') /\ OneIn(lteDl', DlTypes)
  BY <1>1, <1>4, AppendFacts, AppendTypes
<1>6. TokenAt("lteDl")'
  BY <1>1, <1>4, <1>5, FreeIsOne DEF TokenAt
<1>7. Shapes' /\ OneProcedure'
  BY <1>1, <1>2, <1>3, <1>4, <1>5, <1>6 DEF Shapes, OneProcedure, Places, McInv
<1>8. BusyIsInvolved'
  BY <1>1, <1>4 DEF BusyIsInvolved
<1>9. BearerFirst'
  BY <1>1, <1>3 DEF McInv, BearerFirst
<1>10. Coordinated'
  BY <1>1, <1>3 DEF McInv, Coordinated, ScheduledHandoverIsCurrent, DownlinkPath
<1>11. QED
  BY <1>7, <1>8, <1>9, <1>10 DEF McInv
(***************************************************************************)
(* The whole.                                                              *)
(***************************************************************************)

\* Nothing happens.
LEMMA StutterInv ==
    ASSUME McInv, UNCHANGED vars
    PROVE  McInv'
<1>1. AtCells /\ UNCHANGED <<ctx, commands, completes, x2>>
  BY DEF vars, AtCells, contextVars, contexts
<1>2. NoProcedure.type \notin TokenTypes
  BY DEF NoProcedure, TokenTypes, HandoverTypes
<1>3. QuietLinks
  BY <1>1, <1>2, QuietX2
<1>4. QED
  BY <1>1, <1>3, QuietAtCells DEF McInv, Shapes

\* The decisions of the coordinator.
LEMMA TriggerInv ==
    ASSUME McInv, Trigger
    PROVE  McInv'
<1>1. PICK sinr \in [Cells -> SinrLevels] : TriggerUeAssociationUpdate(sinr)
  BY DEF Trigger
<1>2. UNCHANGED <<contextVars, ueVars>>
  BY DEF Trigger
<1>3. CASE FallBackToLte(sinr)
  BY <1>2, <1>3, FallBackToLteInv
<1>4. CASE ConnectToMmWave(sinr)
  BY <1>2, <1>4, ConnectToMmWaveInv
<1>5. CASE ReturnToMmWave(sinr)
  BY <1>2, <1>5, ReturnToMmWaveInv
<1>6. CASE HandOverNow(sinr)
  BY <1>2, <1>6, HandOverNowInv
<1>7. CASE TttBasedHandover(sinr)
  BY <1>2, <1>7, TttBasedHandoverInv
<1>8. CASE KeepServing(sinr)
  BY <1>2, <1>8, StutterInv DEF KeepServing, vars
<1>9. QED
  BY <1>1, <1>3, <1>4, <1>5, <1>6, <1>7, <1>8 DEF TriggerUeAssociationUpdate

\* What arrives at the coordinator over X2.
LEMMA CoordinatorReceivesInv ==
    ASSUME McInv, CoordinatorReceives
    PROVE  McInv'
BY RecvRlcSetupCompletedInv, RecvSecondaryCellHandoverCompletedInv, RecvHandoverFailedInv
   DEF CoordinatorReceives

\* What arrives at a mmWave cell over X2.
LEMMA CellReceivesInv ==
    ASSUME McInv, CellReceives
    PROVE  McInv'
<1>1. PICK cell \in Cells :
          \/ RecvRlcSetupRequest(cell) \/ RecvMcHandoverRequest(cell)
          \/ RecvSwitchConnection(cell) \/ RecvUeContextRelease(cell)
          \/ \E other \in Cells \ {cell} :
                 \/ AdmitHandover(other, cell)
                 \/ RecvHandoverRequestAck(other, cell)
                 \/ RecvHandoverPreparationFailure(other, cell)
  BY DEF CellReceives
<1>2. AtCells
  BY DEF CellReceives, AtCells
<1>3. CASE RecvRlcSetupRequest(cell) \/ RecvMcHandoverRequest(cell)
  BY <1>2, <1>3, RecvRlcSetupRequestInv, RecvMcHandoverRequestInv
<1>4. CASE RecvSwitchConnection(cell) \/ RecvUeContextRelease(cell)
  BY <1>2, <1>4, RecvSwitchConnectionInv, RecvUeContextReleaseInv
<1>5. ASSUME NEW other \in Cells \ {cell},
             \/ AdmitHandover(other, cell)
             \/ RecvHandoverRequestAck(other, cell)
             \/ RecvHandoverPreparationFailure(other, cell)
      PROVE  McInv'
  BY <1>2, <1>5, AdmitHandoverInv, RecvHandoverRequestAckInv, RecvHandoverPreparationFailureInv
<1>6. QED
  BY <1>1, <1>3, <1>4, <1>5

\* What may befall a handover.
LEMMA MishapsInv ==
    ASSUME McInv, Mishaps
    PROVE  McInv'
<1>1. AtCells
  BY DEF Mishaps, AtCells
<1>2. CASE LoseCommand \/ LoseComplete
  BY <1>1, <1>2, LossInv
<1>3. ASSUME NEW cell \in Cells, NEW other \in Cells \ {cell}, RefuseHandover(other, cell)
      PROVE  McInv'
  BY <1>1, <1>3, RefuseHandoverInv
<1>4. QED
  BY <1>2, <1>3 DEF Mishaps

\* Every step keeps the invariant.
LEMMA McNext ==
    ASSUME McInv, [Next]_vars
    PROVE  McInv'
<1>1. CASE Trigger
  BY <1>1, TriggerInv
<1>2. CASE TimeToTrigger
  BY <1>2, PerformHandoverInv DEF TimeToTrigger
<1>3. CASE CoordinatorReceives
  BY <1>3, CoordinatorReceivesInv
<1>4. CASE CellReceives
  BY <1>4, CellReceivesInv
<1>5. CASE CellHearsUe
  BY <1>5, RecvReconfigurationCompleteInv DEF CellHearsUe, AtCells
<1>6. CASE LteCellHearsUe
  BY <1>6, RecvSecondaryCellConnectedInv, RecvUeReconfiguredInv DEF LteCellHearsUe
<1>7. CASE Ue
  BY <1>7, UeConnectToMmWaveInv, UeReconfigureInv, UeRecvConnectionSwitchInv,
     UeRecvHandoverCommandInv, UeRandomAccessSuccessfulInv DEF Ue
<1>8. CASE UeRandomAccessFailed
  BY <1>8, UeRandomAccessFailedInv
<1>9. CASE Timers
  BY <1>9, TimersInv
<1>10. CASE Mishaps
  BY <1>10, MishapsInv
<1>11. CASE UNCHANGED vars
  BY <1>11, StutterInv
<1>12. QED
  BY <1>1, <1>2, <1>3, <1>4, <1>5, <1>6, <1>7, <1>8, <1>9, <1>10, <1>11 DEF Next

\* The invariant holds when the UE has just connected to LTE: it has been told
\* to connect to a mmWave cell, or all of them are in outage.
LEMMA McInit ==
    ASSUME Init
    PROVE  McInv
<1>1. /\ X2Init /\ ctx = <<>> /\ commands = {} /\ completes = {}
      /\ setup = FALSE /\ handover = NoHandover /\ lastCell = 0
      /\ reconfiguring = FALSE /\ ueState = "Idle" /\ lteUl = <<>>
  BY DEF Init, CoordinatorInit, UeContextInit
<1>2. \/ allInOutage /\ lteDl = <<>>
      \/ ~allInOutage /\ \E cell \in Cells : lteDl = <<[type |-> "Connect", cell |-> cell]>>
  BY DEF Init, CoordinatorInit
<1>3. IsSequence(<<>>) /\ DOMAIN <<>> = {}
  <2>1. <<>> \in Seq({})
    OBVIOUS
  <2>2. DOMAIN <<>> = {}
    OBVIOUS
  <2>3. QED
    BY <2>1, <2>2 DEF IsSequence
<1>4. Links(x2) /\ X2Free(x2) /\ InTransit(x2) = {}
  <2>1. x2 = [link \in Interfaces |-> <<>>]
    BY <1>1 DEF X2Init
  <2>2. \A link \in Interfaces : x2[link] = <<>>
    BY <2>1
  <2>3. DOMAIN x2 = Interfaces
    BY <2>1
  <2>4. QED
    BY <1>3, <2>2, <2>3 DEF Links, X2Free, FreeIn, InTransit
<1>5. Busy(ctx) = {} /\ Contextual(ctx)
  BY <1>1, <1>3 DEF Busy, Contextual
<1>6. IsSequence(lteDl) /\ OneIn(lteDl, DlTypes) /\ (allInOutage => FreeIn(lteDl, DlTypes))
  <2>1. CASE allInOutage /\ lteDl = <<>>
    BY <1>3, <2>1 DEF OneIn, FreeIn
  <2>2. ASSUME NEW cell \in Cells, lteDl = <<[type |-> "Connect", cell |-> cell]>>, ~allInOutage
        PROVE  IsSequence(lteDl) /\ OneIn(lteDl, DlTypes)
    <3> DEFINE order == [type |-> "Connect", cell |-> cell]
    <3>1. lteDl = <<order>>
      BY <2>2
    <3> HIDE DEF order
    <3>2. lteDl \in Seq({order}) /\ DOMAIN lteDl = {1}
      BY <3>1
    <3>3. QED
      BY <3>2 DEF IsSequence, OneIn
  <2>3. QED
    BY <1>2, <2>1, <2>2
<1>7. IsSequence(lteUl) /\ FreeIn(lteUl, UlTypes) /\ OneIn(lteUl, UlTypes)
  BY <1>1, <1>3 DEF OneIn, FreeIn
<1>8. ueState # "Handover"
  BY <1>1
<1>9. OneProcedure
  <2>1. CASE allInOutage
    <3>1. TokenAt("none")
      BY <1>1, <1>4, <1>6, <1>7, <1>8, <2>1, FreeIsOne DEF TokenAt
    <3>2. QED
      BY <3>1 DEF OneProcedure, Places
  <2>2. CASE ~allInOutage
    <3>1. TokenAt("lteDl")
      BY <1>1, <1>4, <1>6, <1>7, <1>8, FreeIsOne DEF TokenAt
    <3>2. QED
      BY <1>1, <2>2, <3>1 DEF OneProcedure, Places
  <2>3. QED
    BY <2>1, <2>2
<1>10. Shapes
  BY <1>4, <1>5, <1>6, <1>7 DEF Shapes
<1>11. BusyIsInvolved
  BY <1>5 DEF BusyIsInvolved
<1>12. BearerFirst
  BY <1>1, <1>4 DEF BearerFirst
<1>13. Coordinated
  BY <1>1 DEF Coordinated, ScheduledHandoverIsCurrent, DownlinkPath
<1>14. QED
  BY <1>9, <1>10, <1>11, <1>12, <1>13 DEF McInv

\* The coordinator, the mmWave cells and the UE agree on the one procedure that
\* is under way, whatever is decided, refused, lost or timed out.
THEOREM McInvariant == Spec => []McInv
<1>1. Init => McInv
  BY McInit
<1>2. McInv /\ [Next]_vars => McInv'
  BY McNext
<1>3. QED
  BY <1>1, <1>2, PTL DEF Spec

\* A scheduled handover is that of a UE that is where it was, so that the
\* assertion of PerformHandover holds.
THEOREM ScheduledIsCurrent == Spec => []ScheduledHandoverIsCurrent
<1>1. McInv => ScheduledHandoverIsCurrent
  BY DEF McInv, Coordinated
<1>2. QED
  BY <1>1, McInvariant, PTL

\* While the coordinator takes the UE to be set up, there is nothing of a
\* procedure anywhere, mishaps or not: PrepareHandover never queues a request.
THEOREM NothingWhileSetUp == Spec => []SetupMeansIdle
<1>1. McInv => SetupMeansIdle
  <2>1. SUFFICES ASSUME McInv, setup PROVE SetupMeansIdle
    BY DEF SetupMeansIdle
  <2>2. X2Free(x2) /\ Busy(ctx) = {} /\ commands = {} /\ completes = {}
    BY <2>1, NothingUnderWay
  <2>3. \A type \in TokenTypes : UnderWay(type) = {}
    BY <2>2 DEF UnderWay, X2Free, FreeIn
  <2>4. \A id \in DOMAIN ctx : ctx[id].state \notin {"Preparation", "Joining"}
    BY <2>2 DEF Busy
  <2>5. QED
    BY <2>2, <2>3, <2>4 DEF SetupMeansIdle, TokenTypes, HandoverTypes
<1>2. QED
  BY <1>1, McInvariant, PTL

\* The downlink of the bearer takes the path the coordinator believes in.
THEOREM DownlinkFollows == Spec => []DownlinkPath
<1>1. McInv => DownlinkPath
  BY DEF McInv, Coordinated
<1>2. QED
  BY <1>1, McInvariant, PTL

---------------------------------------------------------------------------
(***************************************************************************)
(* The best cell.                                                          *)
(***************************************************************************)

\* A set of natural numbers has a least element.
LEMMA LeastNat ==
    ASSUME NEW T \in SUBSET Nat, T # {}
    PROVE  \E n \in T : \A m \in T : n <= m
<1> DEFINE Less == {ss \in Nat \X Nat : ss[1] < ss[2]}
<1>1. IsWellFoundedOn(Less, Nat)
  BY NatLessThanWellFounded DEF OpToRel
<1> HIDE DEF Less
<1>2. PICK n \in T : \A m \in T : ~(<<m, n>> \in Less)
  BY <1>1, WFMin
<1>3. ASSUME NEW m \in T PROVE n <= m
  <2>1. m \in Nat /\ n \in Nat
    OBVIOUS
  <2>2. m < n => <<m, n>> \in Less
    BY <2>1 DEF Less
  <2>3. QED
    BY <1>2, <2>1, <2>2
<1>4. QED
  BY <1>3

\* Cell c is a better choice than d.
Better(sinr, c, d) == sinr[c] > sinr[d] \/ (sinr[c] = sinr[d] /\ c < d)

\* Of some cells, one is better than all the others.
LEMMA BestOfSome ==
    ASSUME NEW sinr \in [Cells -> SinrLevels], NEW some \in SUBSET Cells, some # {}
    PROVE  \E c \in some : \A d \in some \ {c} : Better(sinr, c, d)
<1> DEFINE Has(S) == \E c \in S : \A d \in S \ {c} : Better(sinr, c, d)
           Sizes == {Cardinality(S) : S \in {S \in SUBSET Cells : S # {} /\ ~Has(S)}}
<1>1. \A S \in SUBSET Cells : IsFiniteSet(S) /\ Cardinality(S) \in Nat
  BY CoordinatorAssumption, FS_Subset, FS_CardinalityType
<1>2. SUFFICES ASSUME ~Has(some) PROVE FALSE
  OBVIOUS
<1>3. Sizes \in SUBSET Nat /\ Sizes # {}
  BY <1>1, <1>2
<1>4. PICK n \in Sizes : \A m \in Sizes : n <= m
  BY <1>3, LeastNat
<1>5. PICK S \in SUBSET Cells : S # {} /\ ~Has(S) /\ Cardinality(S) = n
  OBVIOUS
<1>6. PICK x \in S : TRUE
  BY <1>5
<1>7. Cardinality(S \ {x}) = Cardinality(S) - 1 /\ Cardinality(S) \in Nat
  BY <1>1, <1>6, FS_RemoveElement
<1>8. \A c, d \in Cells : /\ c \in Nat /\ d \in Nat /\ sinr[c] \in Nat /\ sinr[d] \in Nat
  BY CellsAssumption, CoordinatorAssumption
<1>9. CASE S \ {x} = {}
  <2>1. \A d \in S \ {x} : Better(sinr, x, d)
    BY <1>9
  <2>2. QED
    BY <1>5, <1>6, <2>1
<1>10. CASE S \ {x} # {}
  <2>1. Has(S \ {x})
    <3>1. SUFFICES ASSUME ~Has(S \ {x}) PROVE FALSE
      OBVIOUS
    <3>2. S \ {x} \in SUBSET Cells
      OBVIOUS
    <3> HIDE DEF Has
    <3>3. Cardinality(S \ {x}) \in Sizes
      BY <1>10, <3>1, <3>2
    <3>4. n <= Cardinality(S \ {x})
      BY <1>4, <3>3
    <3>5. QED
      BY <1>5, <1>7, <3>4
  <2>2. PICK y \in S \ {x} : \A d \in (S \ {x}) \ {y} : Better(sinr, y, d)
    BY <2>1
  <2>3. x \in Cells /\ y \in Cells /\ x # y
    BY <1>6, <2>2
  <2>4. CASE Better(sinr, y, x)
    <3>1. \A d \in S \ {y} : Better(sinr, y, d)
      BY <2>2, <2>4
    <3>2. QED
      BY <1>5, <2>2, <3>1
  <2>5. CASE ~Better(sinr, y, x)
    <3>1. Better(sinr, x, y)
      BY <1>8, <2>3, <2>5 DEF Better
    <3>2. ASSUME NEW d \in S \ {x} PROVE Better(sinr, x, d)
      <4>1. CASE d = y
        BY <3>1, <4>1
      <4>2. CASE d # y
        <5>1. Better(sinr, y, d)
          BY <2>2, <4>2
        <5>2. d \in Cells
          OBVIOUS
        <5>3. QED
          BY <1>8, <2>3, <3>1, <5>1, <5>2 DEF Better
      <4>3. QED
        BY <4>1, <4>2
    <3>3. QED
      BY <1>5, <1>6, <3>2
  <2>6. QED
    BY <2>4, <2>5
<1>11. QED
  BY <1>9, <1>10

\* The coordinator finds a best cell, one of those there are.
LEMMA BestIsACell ==
    ASSUME NEW sinr \in [Cells -> SinrLevels]
    PROVE  Best(sinr) \in Cells
<1>1. \E c \in Cells : \A d \in Cells \ {c} : Better(sinr, c, d)
  BY BestOfSome, CoordinatorAssumption
<1>2. QED
  BY <1>1 DEF Best, Better

---------------------------------------------------------------------------
(***************************************************************************)
(* Types.                                                                  *)
(***************************************************************************)

\* The elements of a sequence.
Elements(s) == {s[k] : k \in DOMAIN s}

\* Appending adds an element, taking the first leaves the others.
LEMMA ElementsFacts ==
    ASSUME NEW s, IsSequence(s)
    PROVE  /\ \A e : Elements(Append(s, e)) = Elements(s) \cup {e}
           /\ s # <<>> => Elements(s) = Elements(Tail(s)) \cup {Head(s)}
<1>1. ASSUME NEW e PROVE Elements(Append(s, e)) = Elements(s) \cup {e}
  <2> DEFINE n == Len(s)
             t == Append(s, e)
  <2>1. /\ n \in Nat /\ DOMAIN s = 1..n /\ DOMAIN t = 1..(n + 1)
        /\ \A k \in 1..n : t[k] = s[k]
        /\ t[n + 1] = e
    BY AppendFacts
  <2> HIDE DEF n, t
  <2>2. \A k : k \in 1..(n + 1) <=> k \in 1..n \/ k = n + 1
    BY <2>1
  <2>3. Elements(t) = Elements(s) \cup {e}
    BY <2>1, <2>2 DEF Elements
  <2>4. QED
    BY <2>3 DEF t
<1>2. ASSUME s # <<>> PROVE Elements(s) = Elements(Tail(s)) \cup {Head(s)}
  <2> DEFINE n == Len(s)
             t == Tail(s)
             h == Head(s)
  <2>1. /\ n \in Nat \ {0} /\ DOMAIN s = 1..n /\ DOMAIN t = 1..(n - 1)
        /\ \A k \in 1..(n - 1) : t[k] = s[k + 1]
        /\ h = s[1]
    BY <1>2, TailFacts
  <2> HIDE DEF n, t, h
  <2>2. /\ 1 \in 1..n
        /\ \A k \in 1..(n - 1) : k + 1 \in 1..n
        /\ \A k \in 1..n : k = 1 \/ (k - 1 \in 1..(n - 1) /\ k = (k - 1) + 1)
    BY <2>1
  <2>3. Elements(t) \cup {h} \subseteq Elements(s)
    BY <2>1, <2>2 DEF Elements
  <2>4. ASSUME NEW k \in 1..n PROVE s[k] \in Elements(t) \cup {h}
    <3>1. CASE k = 1
      BY <2>1, <3>1
    <3>2. CASE k # 1
      <4>1. k - 1 \in 1..(n - 1) /\ t[k - 1] = s[(k - 1) + 1] /\ k = (k - 1) + 1
        BY <2>1, <2>2, <3>2
      <4>2. t[k - 1] = s[k]
        BY <4>1
      <4>3. QED
        BY <2>1, <4>1, <4>2 DEF Elements
    <3>3. QED
      BY <3>1, <3>2
  <2>5. Elements(s) \subseteq Elements(t) \cup {h}
    BY <2>1, <2>4 DEF Elements
  <2>6. QED
    BY <2>3, <2>5 DEF t, h
<1>3. QED
  BY <1>1, <1>2

\* A context, with its fields.
Context ==
    [cell : Cells, state : States, source : Nat, target : Cells \cup {0, LteCell},
     rlc : BOOLEAN, requests : BOOLEAN, expired : BOOLEAN]

\* What a message of X2 names is there, of so many contexts.
X2Typed(msg, ids) ==
    /\ msg.type = "McHandoverRequest" => msg.target \in Cells
    /\ msg.type = "HandoverRequest" => msg.source \in ids /\ msg.rlc \in BOOLEAN
    /\ msg.type = "HandoverRequestAck" => msg.new \in ids
    /\ msg.type = "SecondaryCellHandoverCompleted" => msg.rnti \in ids

\* And a message of RRC to the UE, and from it.
DlTyped(msg) ==
    /\ msg.type = "Connect" => msg.cell \in Cells
    /\ msg.type = "Switch" => msg.mmWave \in BOOLEAN /\ msg.bearer \in BOOLEAN
UlTyped(msg, ids) ==
    msg.type = "SecondaryCellConnected" => msg.cell \in Cells /\ msg.rnti \in ids

MessagesTyped ==
    /\ \A msg \in InTransit(x2) : X2Typed(msg, Contexts)
    /\ \A msg \in Elements(lteDl) : DlTyped(msg)
    /\ \A msg \in Elements(lteUl) : UlTyped(msg, Contexts)
    /\ \A command \in commands : command.to \in Contexts

CoordinatorTyped ==
    /\ mode \in Modes /\ decisions \in 0..MaxDecisions
    /\ lastCell \in Cells \cup {0} /\ mmWaveCell \in Cells \cup {0}
    /\ setup \in BOOLEAN /\ usingLte \in BOOLEAN /\ allInOutage \in BOOLEAN
    /\ reconfiguring \in BOOLEAN /\ bearerIsMc \in BOOLEAN /\ downlinkMmWave \in BOOLEAN
    /\ handover \in [source : Cells \cup {0}, target : Cells \cup {0}]
    /\ handover # NoHandover => handover.target \in Cells
    /\ mmWaveRnti \in Contexts

CellsTyped ==
    /\ ctx \in Seq(Context)
    /\ imsiRnti \in [Cells -> Contexts] /\ forwarding \in [Cells -> Cells \cup {0}]
    /\ completes \subseteq Contexts /\ mishaps \in 0..MaxMishaps

UeTyped ==
    /\ ueState \in {"Idle", "Connected", "Handover", "Failed"}
    /\ ueRnti \in Contexts /\ ueMmWaveRnti \in Contexts /\ handoverTo \in Contexts
    /\ uplinkMmWave \in BOOLEAN

TypeInv == CoordinatorTyped /\ CellsTyped /\ UeTyped /\ MessagesTyped

\* There are no fewer contexts than before.
More == Contexts \subseteq Contexts'

\* What names a context goes on naming one.
LEMMA MoreTyped ==
    ASSUME TypeInv, More, MessagesTyped, NEW msg
    PROVE  /\ X2Typed(msg, Contexts) => X2Typed(msg, Contexts')
           /\ UlTyped(msg, Contexts) => UlTyped(msg, Contexts')
BY DEF More, X2Typed, UlTyped

\* Messages stay typed if those that are sent are.
LEMMA MessagesStay ==
    ASSUME MessagesTyped, More,
           \A msg \in InTransit(x2') : msg \in InTransit(x2) \/ X2Typed(msg, Contexts'),
           \A msg \in Elements(lteDl') : msg \in Elements(lteDl) \/ DlTyped(msg),
           \A msg \in Elements(lteUl') : msg \in Elements(lteUl) \/ UlTyped(msg, Contexts'),
           \A command \in commands' : command \in commands \/ command.to \in Contexts'
    PROVE  MessagesTyped'
<1>1. \A msg \in InTransit(x2') : X2Typed(msg, Contexts')
  BY DEF MessagesTyped, More, X2Typed
<1>2. \A msg \in Elements(lteUl') : UlTyped(msg, Contexts')
  BY DEF MessagesTyped, More, UlTyped
<1>3. QED
  BY <1>1, <1>2 DEF MessagesTyped, More

\* The contexts there are, when some of one change.
LEMMA ContextsSame ==
    ASSUME TypeInv, ctx' \in Seq(Context), DOMAIN ctx' = DOMAIN ctx
    PROVE  Contexts' = Contexts /\ More
<1>1. Len(ctx) \in Nat /\ Len(ctx') \in Nat /\ DOMAIN ctx = 1..Len(ctx) /\ DOMAIN ctx' = 1..Len(ctx')
  BY DEF TypeInv, CellsTyped
<1>2. Len(ctx') = Len(ctx)
  BY <1>1
<1>3. QED
  BY <1>2 DEF Contexts, More

\* A context of a cell that gets new values in some of its fields.
LEMMA ContextChanges ==
    ASSUME TypeInv, NEW id \in DOMAIN ctx, NEW new \in Context, ctx' = [ctx EXCEPT ![id] = new]
    PROVE  /\ ctx' \in Seq(Context) /\ DOMAIN ctx' = DOMAIN ctx
           /\ ctx'[id] = new /\ \A k \in DOMAIN ctx : k # id => ctx'[k] = ctx[k]
           /\ ctx[id] \in Context
           /\ Contexts' = Contexts /\ More
<1>1. ctx \in Seq(Context) /\ ctx[id] \in Context
  BY DEF TypeInv, CellsTyped
<1>2. ctx' \in Seq(Context) /\ DOMAIN ctx' = DOMAIN ctx
  BY <1>1
<1>3. ctx'[id] = new /\ \A k \in DOMAIN ctx : k # id => ctx'[k] = ctx[k]
  BY <1>1
<1>4. QED
  BY <1>1, <1>2, <1>3, ContextsSame

\* A context whose state changes.
LEMMA StateChanges ==
    ASSUME TypeInv, NEW id \in DOMAIN ctx, NEW state \in States,
           ctx' = [ctx EXCEPT ![id].state = state]
    PROVE  /\ ctx' \in Seq(Context) /\ DOMAIN ctx' = DOMAIN ctx
           /\ ctx'[id] = [ctx[id] EXCEPT !.state = state] /\ ctx'[id].state = state
           /\ \A k \in DOMAIN ctx : k # id => ctx'[k] = ctx[k]
           /\ Contexts' = Contexts /\ More
<1>1. ctx[id] \in Context
  BY DEF TypeInv, CellsTyped
<1>2. [ctx[id] EXCEPT !.state = state] \in Context
  BY <1>1 DEF Context
<1>3. ctx' = [ctx EXCEPT ![id] = [ctx[id] EXCEPT !.state = state]]
  OBVIOUS
<1>4. [ctx[id] EXCEPT !.state = state].state = state
  BY <1>1 DEF Context
<1>5. QED
  BY <1>2, <1>3, <1>4, ContextChanges

\* A context that is added.
LEMMA ContextIsAdded ==
    ASSUME TypeInv, NEW new \in Context, ctx' = Append(ctx, new)
    PROVE  /\ ctx' \in Seq(Context) /\ DOMAIN ctx' = DOMAIN ctx \cup {Len(ctx) + 1}
           /\ ctx'[Len(ctx) + 1] = new /\ \A k \in DOMAIN ctx : ctx'[k] = ctx[k]
           /\ Len(ctx) + 1 \in Contexts' /\ Len(ctx) + 1 \notin Contexts /\ More
<1>1. ctx \in Seq(Context)
  BY DEF TypeInv, CellsTyped
<1>2. /\ ctx' \in Seq(Context) /\ Len(ctx') = Len(ctx) + 1 /\ Len(ctx) \in Nat
      /\ ctx'[Len(ctx) + 1] = new /\ \A k \in 1..Len(ctx) : ctx'[k] = ctx[k]
      /\ DOMAIN ctx' = 1..(Len(ctx) + 1) /\ DOMAIN ctx = 1..Len(ctx)
  BY <1>1
<1>3. \A k : k \in 1..(Len(ctx) + 1) <=> k \in 1..Len(ctx) \/ k = Len(ctx) + 1
  BY <1>2
<1>4. \A k \in 0..Len(ctx) : k \in 0..(Len(ctx) + 1)
  BY <1>2
<1>5. Len(ctx) + 1 \in 0..(Len(ctx) + 1) /\ Len(ctx) + 1 \notin 0..Len(ctx)
  BY <1>2
<1>6. QED
  BY <1>2, <1>3, <1>4, <1>5 DEF Contexts, More

\* The invariant says what TypeOK does.
LEMMA TypesOK == TypeInv => TypeOK
<1> SUFFICES ASSUME TypeInv PROVE TypeOK
  OBVIOUS
<1>1. /\ mode \in Modes /\ decisions \in 0..MaxDecisions /\ mishaps \in 0..MaxMishaps
      /\ {lastCell, mmWaveCell} \subseteq Cells \cup {0}
      /\ handover \in [source : Cells \cup {0}, target : Cells \cup {0}]
      /\ {mmWaveRnti, ueRnti, ueMmWaveRnti, handoverTo} \subseteq Contexts
      /\ imsiRnti \in [Cells -> Contexts]
      /\ forwarding \in [Cells -> Cells \cup {0}]
      /\ completes \subseteq Contexts
      /\ ueState \in {"Idle", "Connected", "Handover", "Failed"}
  BY DEF TypeInv, CoordinatorTyped, CellsTyped, UeTyped
<1>2. {setup, usingLte, allInOutage, reconfiguring, bearerIsMc,
       downlinkMmWave, uplinkMmWave} \subseteq BOOLEAN
  BY DEF TypeInv, CoordinatorTyped, UeTyped
<1>3. \A id \in DOMAIN ctx : ctx[id] \in Context
  BY DEF TypeInv, CellsTyped
<1>4. \A id \in DOMAIN ctx : ctx[id].cell \in Cells /\ ctx[id].state \in States
  BY <1>3 DEF Context
<1>5. QED
  BY <1>1, <1>2, <1>4 DEF TypeOK

---------------------------------------------------------------------------
(***************************************************************************)
(* Every step keeps the types.                                             *)
(***************************************************************************)

\* What a step leaves alone stays typed: the coordinator's state ...
LEMMA CoordinatorStays ==
    ASSUME TypeInv, More, UNCHANGED coordinatorVars
    PROVE  CoordinatorTyped'
<1>1. UNCHANGED <<mode, lastCell, setup, usingLte, downlinkMmWave, allInOutage, handover,
                  reconfiguring, bearerIsMc, mmWaveCell, mmWaveRnti, lteDl, decisions>>
  BY DEF coordinatorVars, served, secondary
<1>2. QED
  BY <1>1 DEF TypeInv, CoordinatorTyped, More

\* ... that of the UE ...
LEMMA UeStays ==
    ASSUME TypeInv, More, UNCHANGED <<ueState, ueRnti, ueMmWaveRnti, uplinkMmWave, handoverTo>>
    PROVE  UeTyped'
BY DEF TypeInv, UeTyped, More

\* ... and that of the cells.
LEMMA CellsStay ==
    ASSUME TypeInv, UNCHANGED contextVars
    PROVE  CellsTyped' /\ Contexts' = Contexts /\ More
BY DEF TypeInv, CellsTyped, contextVars, contexts, Contexts, More

\* The oldest message of an interface is taken.
LEMMA OldestIsTaken ==
    ASSUME McInv, NEW from, NEW to, NEW type, Arrived(from, to, type),
           <<from, to>> \in Interfaces
    PROVE  /\ Links(Received(x2, from, to))
           /\ InTransit(Received(x2, from, to)) \subseteq InTransit(x2)
           /\ Oldest(from, to) \in InTransit(x2) /\ Oldest(from, to).type = type
<1>1. Links(x2) /\ x2[<<from, to>>] # <<>> /\ Head(x2[<<from, to>>]).type = type
  BY DEF McInv, Shapes, Arrived
<1>2. /\ Links(Received(x2, from, to))
      /\ InTransit(Received(x2, from, to)) \subseteq InTransit(x2)
      /\ Head(x2[<<from, to>>]) \in InTransit(x2)
  BY <1>1, ReceivedLinks
<1>3. QED
  BY <1>1, <1>2 DEF Oldest

\* It is taken and another is sent.
LEMMA OldestIsAnswered ==
    ASSUME McInv, NEW from, NEW to, NEW type, Arrived(from, to, type),
           <<from, to>> \in Interfaces, NEW there, NEW msg,
           x2' = Sent(Received(x2, from, to), to, there, msg)
    PROVE  InTransit(x2') \subseteq InTransit(x2) \cup {msg}
BY OldestIsTaken, SentLinks

\* A step of a mmWave cell.
LEMMA TypedAtCells ==
    ASSUME TypeInv, AtCells, More, CellsTyped',
           \A msg \in InTransit(x2') : msg \in InTransit(x2) \/ X2Typed(msg, Contexts'),
           \A command \in commands' : command \in commands \/ command.to \in Contexts'
    PROVE  TypeInv'
<1>1. UNCHANGED <<coordinatorVars, lteDl, lteUl, ueState, ueRnti, ueMmWaveRnti, uplinkMmWave, handoverTo>>
  BY DEF AtCells, coordinatorVars, ueVars
<1>2. CoordinatorTyped' /\ UeTyped'
  BY <1>1, CoordinatorStays, UeStays
<1>3. MessagesTyped'
  BY <1>1, MessagesStay DEF TypeInv
<1>4. QED
  BY <1>2, <1>3 DEF TypeInv

\* The request names a context of the cell.
LEMMA RecvRlcSetupRequestTyped ==
    ASSUME McInv, TypeInv, NEW cell \in Cells, RecvRlcSetupRequest(cell), AtCells
    PROVE  TypeInv'
<1> DEFINE id == Oldest(LteCell, cell).rnti
           new == [ctx[id] EXCEPT !.rlc = TRUE, !.requests = TRUE]
           done == [type |-> "RlcSetupCompleted"]
           links == Received(x2, LteCell, cell)
<1>1. /\ Arrived(LteCell, cell, "RlcSetupRequest") /\ id \in DOMAIN ctx
      /\ ctx' = [ctx EXCEPT ![id] = new]
      /\ x2' = links \/ x2' = Sent(links, cell, LteCell, done)
      /\ UNCHANGED <<imsiRnti, forwarding, commands, completes, mishaps>>
  BY DEF RecvRlcSetupRequest, Found
<1>2. ctx[id] \in Context
  BY <1>1 DEF TypeInv, CellsTyped
<1>3. new \in Context
  BY <1>2 DEF Context
<1>4. X2Typed(done, Contexts')
  BY DEF X2Typed
<1> HIDE DEF id, new, done
<1>5. InTransit(x2') \subseteq InTransit(x2) \cup {done}
  <2>1. <<LteCell, cell>> \in Interfaces
    BY InterfaceOfCells
  <2>2. QED
    BY <1>1, <2>1, OldestIsTaken, OldestIsAnswered
<1> HIDE DEF links
<1>6. ctx' \in Seq(Context) /\ Contexts' = Contexts /\ More
  BY <1>1, <1>3, ContextChanges
<1>7. CellsTyped'
  BY <1>1, <1>6 DEF TypeInv, CellsTyped
<1>8. QED
  BY <1>1, <1>4, <1>5, <1>6, <1>7, TypedAtCells

\* The target of the handover is a cell, told by the coordinator.
LEMMA RecvMcHandoverRequestTyped ==
    ASSUME McInv, TypeInv, NEW cell \in Cells, RecvMcHandoverRequest(cell), AtCells
    PROVE  TypeInv'
<1> DEFINE id == imsiRnti[cell]
           target == Oldest(LteCell, cell).target
           new == [ctx[id] EXCEPT !.state = "Preparation", !.target = target, !.requests = FALSE]
           request == [type |-> "HandoverRequest", source |-> id, rlc |-> ctx[id].requests]
           links == Received(x2, LteCell, cell)
<1>1. /\ Arrived(LteCell, cell, "McHandoverRequest") /\ id \in DOMAIN ctx
      /\ ctx' = [ctx EXCEPT ![id] = new]
      /\ x2' = Sent(links, cell, target, request)
      /\ UNCHANGED <<imsiRnti, forwarding, commands, completes, mishaps>>
  BY DEF RecvMcHandoverRequest, InState, Found
<1>2. ctx[id] \in Context /\ id \in Contexts
  BY <1>1 DEF TypeInv, CellsTyped
<1>3. /\ InTransit(x2') \subseteq InTransit(x2) \cup {request}
      /\ Oldest(LteCell, cell) \in InTransit(x2) /\ Oldest(LteCell, cell).type = "McHandoverRequest"
  <2>1. <<LteCell, cell>> \in Interfaces
    BY InterfaceOfCells
  <2> HIDE DEF id, new, target, request
  <2>2. QED
    BY <1>1, <2>1, OldestIsTaken, OldestIsAnswered
<1>4. target \in Cells
  BY <1>3 DEF TypeInv, MessagesTyped, X2Typed
<1>5. new \in Context
  BY <1>2, <1>4 DEF Context, States
<1>6. ctx[id].requests \in BOOLEAN
  BY <1>2 DEF Context
<1>7. X2Typed(request, Contexts)
  BY <1>2, <1>6 DEF X2Typed
<1> HIDE DEF id, new, target, request, links
<1>8. ctx' \in Seq(Context) /\ Contexts' = Contexts /\ More
  BY <1>1, <1>5, ContextChanges
<1>9. CellsTyped'
  BY <1>1, <1>8 DEF TypeInv, CellsTyped
<1>10. QED
  BY <1>1, <1>3, <1>7, <1>8, <1>9, TypedAtCells

\* The context is forwarded to the LTE cell, which is a target as well.
LEMMA RecvSwitchConnectionTyped ==
    ASSUME McInv, TypeInv, NEW cell \in Cells, RecvSwitchConnection(cell), AtCells
    PROVE  TypeInv'
<1> DEFINE id == Oldest(LteCell, cell).rnti
           new == [ctx[id] EXCEPT !.target = LteCell]
<1>1. /\ Arrived(LteCell, cell, "SwitchConnection") /\ id \in DOMAIN ctx
      /\ ctx' = [ctx EXCEPT ![id] = new]
      /\ x2' = Received(x2, LteCell, cell)
      /\ UNCHANGED <<imsiRnti, forwarding, commands, completes, mishaps>>
  BY DEF RecvSwitchConnection, Found
<1>2. ctx[id] \in Context
  BY <1>1 DEF TypeInv, CellsTyped
<1>3. new \in Context
  BY <1>2 DEF Context
<1>4. InTransit(x2') \subseteq InTransit(x2)
  BY <1>1, OldestIsTaken, InterfaceOfCells
<1> HIDE DEF id, new
<1>5. ctx' \in Seq(Context) /\ Contexts' = Contexts /\ More
  BY <1>1, <1>3, ContextChanges
<1>6. CellsTyped'
  BY <1>1, <1>5 DEF TypeInv, CellsTyped
<1>7. QED
  BY <1>1, <1>4, <1>5, <1>6, TypedAtCells

\* The released context keeps its other fields, and the cell forwards nothing.
LEMMA RecvUeContextReleaseTyped ==
    ASSUME McInv, TypeInv, NEW cell \in Cells, RecvUeContextRelease(cell), AtCells
    PROVE  TypeInv'
<1> DEFINE id == Oldest(LteCell, cell).rnti
<1>1. /\ Arrived(LteCell, cell, "UeContextRelease") /\ id \in DOMAIN ctx
      /\ ctx' = [ctx EXCEPT ![id].state = "Removed"]
      /\ forwarding' = [forwarding EXCEPT ![cell] = 0]
      /\ x2' = Received(x2, LteCell, cell)
      /\ UNCHANGED <<imsiRnti, commands, completes, mishaps>>
  BY DEF RecvUeContextRelease, StopForwarding, InState, Found
<1>2. InTransit(x2') \subseteq InTransit(x2)
  BY <1>1, OldestIsTaken, InterfaceOfCells
<1> HIDE DEF id
<1>3. "Removed" \in States
  BY DEF States
<1>4. ctx' \in Seq(Context) /\ Contexts' = Contexts /\ More
  BY <1>1, <1>3, StateChanges
<1>5. forwarding' \in [Cells -> Cells \cup {0}]
  BY <1>1 DEF TypeInv, CellsTyped
<1>6. CellsTyped'
  BY <1>1, <1>4, <1>5 DEF TypeInv, CellsTyped
<1>7. QED
  BY <1>1, <1>2, <1>4, <1>6, TypedAtCells

\* The acknowledgement names the context that has just been made.
LEMMA AdmitHandoverTyped ==
    ASSUME McInv, TypeInv, NEW cell \in Cells, NEW source \in Cells \ {cell},
           AdmitHandover(source, cell), AtCells
    PROVE  TypeInv'
<1> DEFINE msg == Oldest(source, cell)
           id == Len(ctx) + 1
           new == NewContext(cell, "Joining", msg.source, msg.rlc)
           ack == [type |-> "HandoverRequestAck", source |-> msg.source, new |-> id]
           links == Received(x2, source, cell)
<1>1. /\ Arrived(source, cell, "HandoverRequest")
      /\ ctx' = Append(ctx, new) /\ imsiRnti' = [imsiRnti EXCEPT ![cell] = id]
      /\ x2' = Sent(links, cell, source, ack)
      /\ UNCHANGED <<forwarding, commands, completes, mishaps>>
  BY DEF AdmitHandover
<1>2. /\ InTransit(x2') \subseteq InTransit(x2) \cup {ack}
      /\ msg \in InTransit(x2) /\ msg.type = "HandoverRequest"
  <2>1. <<source, cell>> \in Interfaces
    BY InterfaceOfCells
  <2> HIDE DEF ack
  <2>2. QED
    BY <1>1, <2>1, OldestIsTaken, OldestIsAnswered
<1>3. msg.source \in Contexts /\ msg.rlc \in BOOLEAN
  BY <1>2 DEF TypeInv, MessagesTyped, X2Typed
<1>4. msg.source \in Nat
  BY <1>3 DEF Contexts
<1>5. new \in Context
  BY <1>3, <1>4 DEF NewContext, Context, States
<1> HIDE DEF new
<1>6. ctx' \in Seq(Context) /\ More /\ id \in Contexts'
  BY <1>1, <1>5, ContextIsAdded
<1>7. X2Typed(ack, Contexts')
  BY <1>6 DEF X2Typed
<1> HIDE DEF ack, msg, id, links
<1>8. imsiRnti' \in [Cells -> Contexts'] /\ completes' \subseteq Contexts'
  BY <1>1, <1>6 DEF TypeInv, CellsTyped, More
<1>9. CellsTyped'
  BY <1>1, <1>6, <1>8 DEF TypeInv, CellsTyped
<1>10. QED
  BY <1>1, <1>2, <1>6, <1>7, <1>9, TypedAtCells

\* A refusal makes no context.
LEMMA RefuseHandoverTyped ==
    ASSUME McInv, TypeInv, NEW cell \in Cells, NEW source \in Cells \ {cell},
           RefuseHandover(source, cell), AtCells
    PROVE  TypeInv'
<1> DEFINE refusal == [type |-> "HandoverPreparationFailure", source |-> Oldest(source, cell).source]
           links == Received(x2, source, cell)
<1>1. /\ Arrived(source, cell, "HandoverRequest") /\ x2' = Sent(links, cell, source, refusal)
      /\ mishaps < MaxMishaps /\ mishaps' = mishaps + 1
      /\ UNCHANGED <<ctx, imsiRnti, forwarding, commands, completes>>
  BY DEF RefuseHandover, Mishap, contexts
<1>2. InTransit(x2') \subseteq InTransit(x2) \cup {refusal}
  <2>1. <<source, cell>> \in Interfaces
    BY InterfaceOfCells
  <2> HIDE DEF refusal
  <2>2. QED
    BY <1>1, <2>1, OldestIsAnswered
<1>3. X2Typed(refusal, Contexts')
  BY DEF X2Typed
<1>4. mishaps' \in 0..MaxMishaps
  BY <1>1, UeContextAssumption DEF TypeInv, CellsTyped
<1>5. Contexts' = Contexts /\ More
  BY <1>1 DEF Contexts, More
<1>6. CellsTyped'
  BY <1>1, <1>4, <1>5 DEF TypeInv, CellsTyped
<1> HIDE DEF refusal, links
<1>7. QED
  BY <1>1, <1>2, <1>3, <1>5, <1>6, TypedAtCells

\* The command names the context of the acknowledgement, and the cell forwards
\* to the cell it is from.
LEMMA RecvHandoverRequestAckTyped ==
    ASSUME McInv, TypeInv, NEW cell \in Cells, NEW target \in Cells \ {cell},
           RecvHandoverRequestAck(target, cell), AtCells
    PROVE  TypeInv'
<1> DEFINE msg == Oldest(target, cell)
           command == [from |-> msg.source, to |-> msg.new]
<1>1. /\ Arrived(target, cell, "HandoverRequestAck") /\ msg.source \in DOMAIN ctx
      /\ ctx' = [ctx EXCEPT ![msg.source].state = "Leaving"]
      /\ commands' = commands \cup {command}
      /\ forwarding' = [forwarding EXCEPT ![cell] = target]
      /\ x2' = Received(x2, target, cell)
      /\ UNCHANGED <<imsiRnti, completes, mishaps>>
  BY DEF RecvHandoverRequestAck, Found
<1>2. /\ InTransit(x2') \subseteq InTransit(x2)
      /\ msg \in InTransit(x2) /\ msg.type = "HandoverRequestAck"
  <2>1. <<target, cell>> \in Interfaces
    BY InterfaceOfCells
  <2>2. QED
    BY <1>1, <2>1, OldestIsTaken
<1>3. command.to \in Contexts
  BY <1>2 DEF TypeInv, MessagesTyped, X2Typed
<1> HIDE DEF msg, command
<1>4. "Leaving" \in States
  BY DEF States
<1>5. ctx' \in Seq(Context) /\ Contexts' = Contexts /\ More
  BY <1>1, <1>4, StateChanges
<1>6. forwarding' \in [Cells -> Cells \cup {0}]
  BY <1>1 DEF TypeInv, CellsTyped
<1>7. CellsTyped'
  BY <1>1, <1>5, <1>6 DEF TypeInv, CellsTyped
<1>8. QED
  BY <1>1, <1>2, <1>3, <1>5, <1>7, TypedAtCells

\* The context is connected again.
LEMMA RecvHandoverPreparationFailureTyped ==
    ASSUME McInv, TypeInv, NEW cell \in Cells, NEW target \in Cells \ {cell},
           RecvHandoverPreparationFailure(target, cell), AtCells
    PROVE  TypeInv'
<1> DEFINE id == Oldest(target, cell).source
<1>1. /\ Arrived(target, cell, "HandoverPreparationFailure") /\ id \in DOMAIN ctx
      /\ ctx' = [ctx EXCEPT ![id].state = "Connected"]
      /\ x2' = Received(x2, target, cell)
      /\ UNCHANGED <<imsiRnti, forwarding, commands, completes, mishaps>>
  BY DEF RecvHandoverPreparationFailure, InState, Found
<1>2. InTransit(x2') \subseteq InTransit(x2)
  BY <1>1, OldestIsTaken, InterfaceOfCells
<1> HIDE DEF id
<1>3. "Connected" \in States
  BY DEF States
<1>4. ctx' \in Seq(Context) /\ Contexts' = Contexts /\ More
  BY <1>1, <1>3, StateChanges
<1>5. CellsTyped'
  BY <1>1, <1>4 DEF TypeInv, CellsTyped
<1>6. QED
  BY <1>1, <1>2, <1>4, <1>5, TypedAtCells

\* The completion names the context that has heard the UE.
LEMMA RecvReconfigurationCompleteTyped ==
    ASSUME McInv, TypeInv, NEW id \in DOMAIN ctx, RecvReconfigurationComplete(id), AtCells
    PROVE  TypeInv'
<1> DEFINE cell == ctx[id].cell
           done == [type |-> "SecondaryCellHandoverCompleted", rnti |-> id, source |-> ctx[id].source]
<1>1. /\ id \in completes /\ completes' = completes \ {id} /\ commands' = commands
      /\ ctx' = [ctx EXCEPT ![id].state = "Connected"]
      /\ x2' = Sent(x2, cell, LteCell, done)
      /\ UNCHANGED <<imsiRnti, forwarding, mishaps>>
  BY DEF RecvReconfigurationComplete
<1>2. InTransit(x2') \subseteq InTransit(x2) \cup {done}
  BY <1>1, SentLinks DEF McInv, Shapes
<1>3. "Connected" \in States
  BY DEF States
<1>4. ctx' \in Seq(Context) /\ Contexts' = Contexts /\ More
  BY <1>1, <1>3, StateChanges
<1>5. CellsTyped'
  BY <1>1, <1>4 DEF TypeInv, CellsTyped
<1>6. X2Typed(done, Contexts')
  BY <1>1, <1>4 DEF X2Typed, TypeInv, CellsTyped
<1> HIDE DEF done, cell
<1>7. QED
  BY <1>1, <1>2, <1>4, <1>5, <1>6, TypedAtCells

\* A timer changes one context.
LEMMA TimersTyped ==
    ASSUME McInv, TypeInv, Timers
    PROVE  TypeInv'
<1>1. PICK id \in DOMAIN ctx :
          /\ HandoverJoiningTimeout(id) \/ RemoveUe(id) \/ HandoverLeavingTimeout(id)
          /\ AtCells
  BY DEF Timers, AtCells
<1>2. CASE HandoverJoiningTimeout(id)
  <2> DEFINE failed == [type |-> "HandoverFailed"]
             new == [ctx[id] EXCEPT !.expired = TRUE]
             cell == ctx[id].cell
  <2>1. /\ ctx' = [ctx EXCEPT ![id] = new]
        /\ x2' = Sent(x2, cell, LteCell, failed)
        /\ UNCHANGED <<imsiRnti, forwarding, commands, completes, mishaps>>
    BY <1>2 DEF HandoverJoiningTimeout
  <2>2. InTransit(x2') \subseteq InTransit(x2) \cup {failed}
    BY <2>1, SentLinks DEF McInv, Shapes
  <2>3. ctx[id] \in Context
    BY DEF TypeInv, CellsTyped
  <2>4. new \in Context
    BY <2>3 DEF Context
  <2>5. X2Typed(failed, Contexts')
    BY DEF X2Typed
  <2> HIDE DEF failed, new, cell
  <2>6. ctx' \in Seq(Context) /\ Contexts' = Contexts /\ More
    BY <2>1, <2>4, ContextChanges
  <2>7. CellsTyped'
    BY <2>1, <2>6 DEF TypeInv, CellsTyped
  <2>8. QED
    BY <1>1, <2>1, <2>2, <2>5, <2>6, <2>7, TypedAtCells
<1>3. CASE RemoveUe(id) \/ HandoverLeavingTimeout(id)
  <2>1. /\ ctx' = [ctx EXCEPT ![id].state = "Removed"]
        /\ UNCHANGED <<imsiRnti, forwarding, commands, completes, mishaps, x2>>
    BY <1>3 DEF RemoveUe, HandoverLeavingTimeout
  <2>2. "Removed" \in States
    BY DEF States
  <2>3. ctx' \in Seq(Context) /\ Contexts' = Contexts /\ More
    BY <2>1, <2>2, StateChanges
  <2>4. CellsTyped'
    BY <2>1, <2>3 DEF TypeInv, CellsTyped
  <2>5. QED
    BY <1>1, <2>1, <2>3, <2>4, TypedAtCells
<1>4. QED
  BY <1>1, <1>2, <1>3

\* What is lost on the radio was typed.
LEMMA LossTyped ==
    ASSUME McInv, TypeInv, LoseCommand \/ LoseComplete, AtCells
    PROVE  TypeInv'
<1>1. /\ commands' \subseteq commands /\ completes' \subseteq completes
      /\ UNCHANGED <<ctx, imsiRnti, forwarding, x2>>
      /\ mishaps < MaxMishaps /\ mishaps' = mishaps + 1
  BY DEF LoseCommand, LoseComplete, contexts, Mishap
<1>2. mishaps' \in 0..MaxMishaps
  BY <1>1, UeContextAssumption DEF TypeInv, CellsTyped
<1>3. Contexts' = Contexts /\ More
  BY <1>1 DEF Contexts, More
<1>4. CellsTyped'
  BY <1>1, <1>2, <1>3 DEF TypeInv, CellsTyped
<1>5. QED
  BY <1>1, <1>3, <1>4, TypedAtCells

\* A step of the UE leaves the coordinator, the interfaces and most of the
\* cells alone; what it takes from LTE is the oldest.
LEMMA DlIsTaken ==
    ASSUME McInv, NEW type, FromLte(type)
    PROVE  /\ Elements(Tail(lteDl)) \subseteq Elements(lteDl)
           /\ Head(lteDl) \in Elements(lteDl) /\ Head(lteDl).type = type
<1>1. IsSequence(lteDl) /\ lteDl # <<>> /\ Head(lteDl).type = type
  BY DEF McInv, Shapes, FromLte
<1>2. Elements(lteDl) = Elements(Tail(lteDl)) \cup {Head(lteDl)}
  BY <1>1, ElementsFacts
<1>3. QED
  BY <1>1, <1>2

\* Or the one from it.
LEMMA UlIsTaken ==
    ASSUME McInv, lteUl # <<>>
    PROVE  Elements(Tail(lteUl)) \subseteq Elements(lteUl) /\ Head(lteUl) \in Elements(lteUl)
<1>1. IsSequence(lteUl)
  BY DEF McInv, Shapes
<1>2. Elements(lteUl) = Elements(Tail(lteUl)) \cup {Head(lteUl)}
  BY <1>1, ElementsFacts
<1>3. QED
  BY <1>2

\* The UE reports the context it has just been given, at the cell it was told.
LEMMA UeConnectToMmWaveTyped ==
    ASSUME McInv, TypeInv, UeConnectToMmWave
    PROVE  TypeInv'
<1> DEFINE cell == Head(lteDl).cell
           id == Len(ctx) + 1
           new == NewContext(cell, "Connected", 0, FALSE)
           report == [type |-> "SecondaryCellConnected", rnti |-> id, cell |-> cell]
<1>1. /\ FromLte("Connect") /\ lteDl' = Tail(lteDl) /\ lteUl' = Append(lteUl, report)
      /\ ctx' = Append(ctx, new) /\ imsiRnti' = [imsiRnti EXCEPT ![cell] = id]
      /\ ueRnti' = id /\ ueMmWaveRnti' = id /\ ueState' = "Connected"
      /\ UNCHANGED <<mode, served, allInOutage, handover, secondary, decisions, x2,
                     forwarding, commands, completes, mishaps, uplinkMmWave, handoverTo>>
  BY DEF UeConnectToMmWave
<1>2. Elements(lteDl') \subseteq Elements(lteDl) /\ Head(lteDl) \in Elements(lteDl)
      /\ Head(lteDl).type = "Connect"
  BY <1>1, DlIsTaken
<1>3. cell \in Cells
  BY <1>2 DEF TypeInv, MessagesTyped, DlTyped
<1>4. new \in Context
  BY <1>3 DEF NewContext, Context, States
<1>5. Elements(lteUl') = Elements(lteUl) \cup {report}
  BY <1>1, ElementsFacts DEF McInv, Shapes
<1> HIDE DEF new
<1>6. ctx' \in Seq(Context) /\ More /\ id \in Contexts'
  BY <1>1, <1>4, ContextIsAdded
<1>7. UlTyped(report, Contexts')
  BY <1>3, <1>6 DEF UlTyped
<1> HIDE DEF id, cell, report
<1>8. imsiRnti' \in [Cells -> Contexts'] /\ completes' \subseteq Contexts'
  BY <1>1, <1>6 DEF TypeInv, CellsTyped, More
<1>9. CellsTyped'
  BY <1>1, <1>6, <1>8 DEF TypeInv, CellsTyped
<1>10. UeTyped'
  BY <1>1, <1>6 DEF TypeInv, UeTyped, More
<1>11. CoordinatorTyped'
  BY <1>1, <1>6 DEF TypeInv, CoordinatorTyped, More, served, secondary
<1>12. MessagesTyped'
  BY <1>1, <1>2, <1>5, <1>6, <1>7, MessagesStay DEF TypeInv
<1>13. QED
  BY <1>9, <1>10, <1>11, <1>12 DEF TypeInv

\* Its report of a reconfiguration names no context.
LEMMA UeReconfigureTyped ==
    ASSUME McInv, TypeInv, UeReconfigure
    PROVE  TypeInv'
<1> DEFINE report == [type |-> "ReconfigurationCompleted"]
<1>1. /\ FromLte("Reconfiguration") /\ lteDl' = Tail(lteDl) /\ lteUl' = Append(lteUl, report)
      /\ uplinkMmWave' = TRUE
      /\ UNCHANGED <<mode, served, allInOutage, handover, secondary, decisions, x2, contextVars,
                     ueState, ueRnti, ueMmWaveRnti, handoverTo>>
  BY DEF UeReconfigure
<1>2. CellsTyped' /\ Contexts' = Contexts /\ More /\ UNCHANGED commands
  BY <1>1, CellsStay DEF contextVars
<1>3. CoordinatorTyped' /\ UeTyped'
  BY <1>1, <1>2 DEF TypeInv, CoordinatorTyped, UeTyped, served, secondary
<1>4. Elements(lteDl') \subseteq Elements(lteDl)
  BY <1>1, DlIsTaken
<1>5. Elements(lteUl') = Elements(lteUl) \cup {report} /\ UlTyped(report, Contexts')
  BY <1>1, ElementsFacts DEF McInv, Shapes, UlTyped
<1> HIDE DEF report
<1>6. MessagesTyped'
  BY <1>1, <1>2, <1>4, <1>5, MessagesStay DEF TypeInv
<1>7. QED
  BY <1>2, <1>3, <1>6 DEF TypeInv

\* The uplink takes the path that the order says.
LEMMA UeRecvConnectionSwitchTyped ==
    ASSUME McInv, TypeInv, UeRecvConnectionSwitch
    PROVE  TypeInv'
<1>1. /\ FromLte("Switch") /\ lteDl' = Tail(lteDl)
      /\ uplinkMmWave' = IF Head(lteDl).bearer THEN Head(lteDl).mmWave ELSE uplinkMmWave
      /\ UNCHANGED <<mode, served, allInOutage, handover, secondary, decisions, x2, contextVars,
                     ueState, ueRnti, ueMmWaveRnti, handoverTo, lteUl>>
  BY DEF UeRecvConnectionSwitch
<1>2. CellsTyped' /\ Contexts' = Contexts /\ More /\ UNCHANGED commands
  BY <1>1, CellsStay DEF contextVars
<1>3. Elements(lteDl') \subseteq Elements(lteDl) /\ Head(lteDl) \in Elements(lteDl)
      /\ Head(lteDl).type = "Switch"
  BY <1>1, DlIsTaken
<1>4. Head(lteDl).mmWave \in BOOLEAN
  BY <1>3 DEF TypeInv, MessagesTyped, DlTyped
<1>5. uplinkMmWave' \in BOOLEAN
  <2>1. uplinkMmWave' = Head(lteDl).mmWave \/ uplinkMmWave' = uplinkMmWave
    BY <1>1
  <2>2. QED
    BY <1>4, <2>1 DEF TypeInv, UeTyped
<1>6. CoordinatorTyped' /\ UeTyped'
  BY <1>1, <1>2, <1>5 DEF TypeInv, CoordinatorTyped, UeTyped, served, secondary
<1>7. MessagesTyped'
  BY <1>1, <1>2, <1>3, MessagesStay DEF TypeInv
<1>8. QED
  BY <1>2, <1>6, <1>7 DEF TypeInv

\* The UE goes where the command says.
LEMMA UeHandoverTyped ==
    ASSUME McInv, TypeInv, UeRecvHandoverCommand \/ UeRandomAccessSuccessful \/ UeRandomAccessFailed
    PROVE  TypeInv'
<1>1. /\ UNCHANGED <<coordinatorVars, contexts, x2, uplinkMmWave, lteUl>>
      /\ UNCHANGED <<ctx, imsiRnti, forwarding, lteDl>>
  BY DEF UeRecvHandoverCommand, UeRandomAccessSuccessful, UeRandomAccessFailed,
         contexts, coordinatorVars
<1>2. Contexts' = Contexts /\ More
  BY <1>1 DEF Contexts, More
<1>3. /\ ueRnti' \in Contexts /\ ueMmWaveRnti' \in Contexts /\ handoverTo' \in Contexts
      /\ ueState' \in {"Idle", "Connected", "Handover", "Failed"}
      /\ completes' \subseteq Contexts /\ commands' \subseteq commands
      /\ mishaps' \in 0..MaxMishaps
  <2>1. CASE UeRecvHandoverCommand
    BY <2>1 DEF UeRecvHandoverCommand, TypeInv, MessagesTyped, UeTyped, CellsTyped
  <2>2. CASE UeRandomAccessSuccessful
    <3>1. 0 \in Contexts
      BY DEF TypeInv, CellsTyped, Contexts
    <3>2. QED
      BY <2>2, <3>1 DEF UeRandomAccessSuccessful, TypeInv, UeTyped, CellsTyped
  <2>3. CASE UeRandomAccessFailed
    BY <2>3, UeContextAssumption DEF UeRandomAccessFailed, Mishap, TypeInv, UeTyped, CellsTyped
  <2>4. QED
    BY <2>1, <2>2, <2>3
<1>4. CoordinatorTyped'
  BY <1>1, <1>2, CoordinatorStays
<1>5. CellsTyped' /\ UeTyped'
  BY <1>1, <1>2, <1>3 DEF TypeInv, CellsTyped, UeTyped
<1>6. MessagesTyped'
  BY <1>1, <1>2, <1>3, MessagesStay DEF TypeInv
<1>7. QED
  BY <1>4, <1>5, <1>6 DEF TypeInv

---------------------------------------------------------------------------
(***************************************************************************)
(* The coordinator.                                                        *)
(***************************************************************************)

\* A step of the coordinator.
LEMMA TypedAtCoordinator ==
    ASSUME TypeInv, UNCHANGED <<contextVars, ueState, ueRnti, ueMmWaveRnti, uplinkMmWave, handoverTo>>,
           CoordinatorTyped',
           \A msg \in InTransit(x2') : msg \in InTransit(x2) \/ X2Typed(msg, Contexts),
           \A msg \in Elements(lteDl') : msg \in Elements(lteDl) \/ DlTyped(msg),
           Elements(lteUl') \subseteq Elements(lteUl)
    PROVE  TypeInv'
<1>1. CellsTyped' /\ Contexts' = Contexts /\ More /\ UNCHANGED commands
  BY CellsStay DEF contextVars
<1>2. UeTyped'
  BY <1>1, UeStays
<1>3. MessagesTyped'
  BY <1>1, MessagesStay DEF TypeInv
<1>4. QED
  BY <1>1, <1>2, <1>3 DEF TypeInv

\* The coordinator notes the cell and the context that the UE reports.
LEMMA RecvSecondaryCellConnectedTyped ==
    ASSUME McInv, TypeInv, RecvSecondaryCellConnected
    PROVE  TypeInv'
<1> DEFINE msg == Head(lteUl)
           request == [type |-> "RlcSetupRequest", rnti |-> msg.rnti]
<1>1. /\ lteUl # <<>> /\ msg.type = "SecondaryCellConnected" /\ lteUl' = Tail(lteUl)
      /\ mmWaveCell' = msg.cell /\ mmWaveRnti' = msg.rnti
      /\ x2' = x2 \/ x2' = Sent(x2, LteCell, msg.cell, request)
      /\ UNCHANGED <<mode, served, allInOutage, handover, reconfiguring, bearerIsMc, lteDl, decisions,
                     contextVars, ueState, ueRnti, ueMmWaveRnti, uplinkMmWave, handoverTo>>
  BY DEF RecvSecondaryCellConnected, RecvSecondaryCellInitialAccess, NoteSecondary
<1>2. msg \in Elements(lteUl) /\ Elements(lteUl') \subseteq Elements(lteUl)
  BY <1>1, UlIsTaken
<1>3. msg.cell \in Cells /\ msg.rnti \in Contexts
  BY <1>1, <1>2 DEF TypeInv, MessagesTyped, UlTyped
<1>4. X2Typed(request, Contexts)
  BY DEF X2Typed
<1> HIDE DEF msg, request
<1>5. InTransit(x2') \subseteq InTransit(x2) \cup {request}
  BY <1>1, SentLinks DEF McInv, Shapes
<1>6. Contexts' = Contexts
  BY <1>1, CellsStay
<1>7. CoordinatorTyped'
  BY <1>1, <1>3, <1>6 DEF TypeInv, CoordinatorTyped, served
<1>8. QED
  BY <1>1, <1>2, <1>4, <1>5, <1>7, TypedAtCoordinator

\* Serve notes the secondary cell, which is typed.
LEMMA RecvUeReconfiguredTyped ==
    ASSUME McInv, TypeInv, RecvUeReconfigured
    PROVE  TypeInv'
<1>1. /\ lteUl # <<>> /\ lteUl' = Tail(lteUl)
      /\ reconfiguring' = FALSE
      /\ lastCell' = mmWaveCell /\ setup' = TRUE /\ usingLte' = FALSE /\ downlinkMmWave' = TRUE
      /\ UNCHANGED <<mode, allInOutage, handover, bearerIsMc, mmWaveCell, mmWaveRnti, lteDl, decisions, x2,
                     contextVars, ueState, ueRnti, ueMmWaveRnti, uplinkMmWave, handoverTo>>
  BY DEF RecvUeReconfigured, RecvReconfigurationCompleted, Serve
<1>2. Elements(lteUl') \subseteq Elements(lteUl)
  BY <1>1, UlIsTaken
<1>3. Contexts' = Contexts
  BY <1>1, CellsStay
<1>4. CoordinatorTyped'
  BY <1>1, <1>3 DEF TypeInv, CoordinatorTyped
<1>5. QED
  BY <1>1, <1>2, <1>4, TypedAtCoordinator

\* What the coordinator hears from a cell names that cell and a context.
LEMMA CoordinatorReceivesTyped ==
    ASSUME McInv, TypeInv, CoordinatorReceives
    PROVE  TypeInv'
<1>1. PICK cell \in Cells :
        /\ \/ RecvRlcSetupCompleted(cell)
           \/ RecvSecondaryCellHandoverCompleted(cell)
           \/ RecvHandoverFailed(cell)
        /\ UNCHANGED <<contextVars, ueState, ueRnti, ueMmWaveRnti, uplinkMmWave, handoverTo, lteUl>>
  BY DEF CoordinatorReceives, ueVars
<1> DEFINE links == Received(x2, cell, LteCell)
<1>2. <<cell, LteCell>> \in Interfaces
  BY InterfaceOfCells
<1>3. Contexts' = Contexts /\ Elements(lteUl') = Elements(lteUl)
  BY <1>1, CellsStay
<1>4. CASE RecvRlcSetupCompleted(cell)
  <2> DEFINE order == [type |-> "Reconfiguration"]
  <2>1. /\ Arrived(cell, LteCell, "RlcSetupCompleted") /\ x2' = Received(x2, cell, LteCell)
        /\ bearerIsMc' = TRUE /\ reconfiguring' = TRUE /\ lteDl' = Append(lteDl, order)
        /\ UNCHANGED <<mode, served, allInOutage, handover, mmWaveCell, mmWaveRnti, decisions>>
    BY <1>4 DEF RecvRlcSetupCompleted
  <2>2. InTransit(x2') \subseteq InTransit(x2)
    BY <1>2, <2>1, OldestIsTaken
  <2>3. Elements(lteDl') = Elements(lteDl) \cup {order} /\ DlTyped(order)
    BY <2>1, ElementsFacts DEF McInv, Shapes, DlTyped
  <2> HIDE DEF order
  <2>4. CoordinatorTyped'
    BY <1>3, <2>1 DEF TypeInv, CoordinatorTyped, served
  <2>5. QED
    BY <1>1, <1>3, <2>2, <2>3, <2>4, TypedAtCoordinator
<1>5. CASE RecvSecondaryCellHandoverCompleted(cell)
  <2> DEFINE msg == Oldest(cell, LteCell)
             release == [type |-> "UeContextRelease", rnti |-> msg.source]
  <2>1. /\ Arrived(cell, LteCell, "SecondaryCellHandoverCompleted")
        /\ x2' = Sent(links, LteCell, mmWaveCell, release)
        /\ mmWaveCell' = cell /\ mmWaveRnti' = msg.rnti
        /\ \/ lastCell' = cell /\ setup' = TRUE /\ usingLte' = FALSE /\ downlinkMmWave' = TRUE
           \/ UNCHANGED <<lastCell, setup, usingLte, downlinkMmWave>>
        /\ UNCHANGED <<mode, allInOutage, handover, reconfiguring, bearerIsMc, lteDl, decisions>>
    BY <1>5 DEF RecvSecondaryCellHandoverCompleted, ReleasingSource, NoteSecondary, Serve, served
  <2>2. msg \in InTransit(x2) /\ msg.type = "SecondaryCellHandoverCompleted"
    BY <1>2, <2>1, OldestIsTaken
  <2>3. msg.rnti \in Contexts
    BY <2>2 DEF TypeInv, MessagesTyped, X2Typed
  <2>4. X2Typed(release, Contexts)
    BY DEF X2Typed
  <2> HIDE DEF msg, release
  <2>5. InTransit(x2') \subseteq InTransit(x2) \cup {release}
    BY <1>2, <2>1, OldestIsAnswered
  <2>6. CoordinatorTyped'
    BY <1>3, <2>1, <2>3 DEF TypeInv, CoordinatorTyped
  <2>7. QED
    BY <1>1, <1>3, <2>1, <2>4, <2>5, <2>6, TypedAtCoordinator
<1>6. CASE RecvHandoverFailed(cell)
  <2>1. /\ Arrived(cell, LteCell, "HandoverFailed") /\ x2' = Received(x2, cell, LteCell)
        /\ UNCHANGED <<coordinatorVars, lteDl>>
    BY <1>6 DEF RecvHandoverFailed, coordinatorVars
  <2>2. InTransit(x2') \subseteq InTransit(x2)
    BY <1>2, <2>1, OldestIsTaken
  <2>3. CoordinatorTyped'
    BY <1>3, <2>1, CoordinatorStays DEF More
  <2>4. QED
    BY <1>1, <1>3, <2>1, <2>2, <2>3, TypedAtCoordinator
<1>7. QED
  BY <1>1, <1>4, <1>5, <1>6

\* The coordinator switches the path of the bearer.
LEMMA SwitchTyped ==
    ASSUME McInv, TypeInv, NEW useMmWave \in BOOLEAN, SendRrcConnectionSwitch(useMmWave)
    PROVE  /\ downlinkMmWave' \in BOOLEAN
           /\ \A msg \in InTransit(x2') : msg \in InTransit(x2) \/ X2Typed(msg, Contexts)
           /\ \A msg \in Elements(lteDl') : msg \in Elements(lteDl) \/ DlTyped(msg)
<1> DEFINE redirect == [type |-> "SwitchConnection", rnti |-> mmWaveRnti]
           order == [type |-> "Switch", mmWave |-> useMmWave, bearer |-> bearerIsMc]
<1>1. /\ downlinkMmWave' = useMmWave \/ downlinkMmWave' = downlinkMmWave
      /\ x2' = x2 \/ x2' = Sent(x2, LteCell, mmWaveCell, redirect)
      /\ lteDl' = Append(lteDl, order)
  BY DEF SendRrcConnectionSwitch
<1>2. X2Typed(redirect, Contexts)
  BY DEF X2Typed
<1>3. DlTyped(order)
  BY DEF DlTyped, TypeInv, CoordinatorTyped
<1> HIDE DEF redirect, order
<1>4. InTransit(x2') \subseteq InTransit(x2) \cup {redirect}
  BY <1>1, SentLinks DEF McInv, Shapes
<1>5. Elements(lteDl') = Elements(lteDl) \cup {order}
  BY <1>1, ElementsFacts DEF McInv, Shapes
<1>6. downlinkMmWave' \in BOOLEAN
  BY <1>1 DEF TypeInv, CoordinatorTyped
<1>7. QED
  BY <1>2, <1>3, <1>4, <1>5, <1>6

\* The coordinator asks for a handover.
LEMMA RequestTyped ==
    ASSUME McInv, TypeInv, NEW target \in Cells, SendMcHandoverRequest(target)
    PROVE  setup' = FALSE /\ \A msg \in InTransit(x2') : msg \in InTransit(x2) \/ X2Typed(msg, Contexts)
<1> DEFINE request == [type |-> "McHandoverRequest", target |-> target]
<1>1. setup' = FALSE /\ x2' = Sent(x2, LteCell, lastCell, request)
  BY DEF SendMcHandoverRequest
<1>2. X2Typed(request, Contexts)
  BY DEF X2Typed
<1> HIDE DEF request
<1>3. InTransit(x2') \subseteq InTransit(x2) \cup {request}
  BY <1>1, SentLinks DEF McInv, Shapes
<1>4. QED
  BY <1>1, <1>2, <1>3

\* A decision is counted.
LEMMA DecideTyped ==
    ASSUME TypeInv, Decide
    PROVE  decisions' \in 0..MaxDecisions
BY CoordinatorAssumption DEF TypeInv, CoordinatorTyped, Decide

\* What the handover to a cell looks like.
LEMMA HandoverTyped ==
    ASSUME TypeInv, NEW best \in Cells
    PROVE  /\ Handover(best) \in [source : Cells \cup {0}, target : Cells \cup {0}]
           /\ Handover(best).target = best
           /\ NoHandover \in [source : Cells \cup {0}, target : Cells \cup {0}]
BY DEF TypeInv, CoordinatorTyped, Handover, NoHandover

\* Whatever it decides, it tells the UE and the cells of the best cell.
LEMMA TriggerTyped ==
    ASSUME McInv, TypeInv, Trigger
    PROVE  TypeInv'
<1>1. PICK sinr \in [Cells -> SinrLevels] : TriggerUeAssociationUpdate(sinr)
  BY DEF Trigger
<1>2. /\ UNCHANGED <<contextVars, ueState, ueRnti, ueMmWaveRnti, uplinkMmWave, handoverTo, lteUl>>
      /\ Contexts' = Contexts /\ Elements(lteUl') = Elements(lteUl)
  <2>1. UNCHANGED <<contextVars, ueState, ueRnti, ueMmWaveRnti, uplinkMmWave, handoverTo, lteUl>>
    BY DEF Trigger, ueVars
  <2>2. QED
    BY <2>1, CellsStay
<1> DEFINE best == Best(sinr)
<1>3. best \in Cells
  BY BestIsACell
<1>4. SUFFICES
        /\ CoordinatorTyped'
        /\ \A msg \in InTransit(x2') : msg \in InTransit(x2) \/ X2Typed(msg, Contexts)
        /\ \A msg \in Elements(lteDl') : msg \in Elements(lteDl) \/ DlTyped(msg)
  BY <1>2, TypedAtCoordinator
<1>5. CASE FallBackToLte(sinr)
  <2>1. /\ SendRrcConnectionSwitch(FALSE) /\ Decide
        /\ usingLte' = TRUE /\ handover' = NoHandover
        /\ UNCHANGED <<mode, lastCell, setup, allInOutage, reconfiguring, bearerIsMc, mmWaveCell, mmWaveRnti>>
    BY <1>5 DEF FallBackToLte, CancelHandover, secondary
  <2>2. downlinkMmWave' \in BOOLEAN /\ decisions' \in 0..MaxDecisions
    BY <2>1, SwitchTyped, DecideTyped
  <2>3. handover' \in [source : Cells \cup {0}, target : Cells \cup {0}]
    BY <1>3, <2>1, HandoverTyped
  <2>4. CoordinatorTyped'
    BY <1>2, <2>1, <2>2, <2>3 DEF TypeInv, CoordinatorTyped, NoHandover
  <2>5. QED
    BY <2>1, <2>4, SwitchTyped
<1>6. CASE ReturnToMmWave(sinr)
  <2>1. /\ SendRrcConnectionSwitch(TRUE) /\ Decide /\ usingLte' = FALSE
        /\ UNCHANGED <<mode, lastCell, setup, allInOutage, handover,
                       reconfiguring, bearerIsMc, mmWaveCell, mmWaveRnti>>
    BY <1>6 DEF ReturnToMmWave, secondary
  <2>2. downlinkMmWave' \in BOOLEAN /\ decisions' \in 0..MaxDecisions
    BY <2>1, SwitchTyped, DecideTyped
  <2>3. CoordinatorTyped'
    BY <1>2, <2>1, <2>2 DEF TypeInv, CoordinatorTyped, NoHandover
  <2>4. QED
    BY <2>1, <2>3, SwitchTyped
<1>7. CASE ConnectToMmWave(sinr)
  <2> DEFINE order == [type |-> "Connect", cell |-> best]
  <2>1. /\ lteDl' = Append(lteDl, order) /\ Decide /\ allInOutage' = (mode = "threshold")
        /\ UNCHANGED <<mode, lastCell, setup, usingLte, downlinkMmWave, handover,
                       reconfiguring, bearerIsMc, mmWaveCell, mmWaveRnti, x2>>
    BY <1>7 DEF ConnectToMmWave, served, secondary
  <2>2. Elements(lteDl') = Elements(lteDl) \cup {order} /\ DlTyped(order)
    BY <1>3, <2>1, ElementsFacts DEF McInv, Shapes, DlTyped
  <2> HIDE DEF order
  <2>3. allInOutage' \in BOOLEAN
    BY <2>1
  <2>4. decisions' \in 0..MaxDecisions
    BY <2>1, DecideTyped
  <2>5. CoordinatorTyped'
    BY <1>2, <2>1, <2>3, <2>4 DEF TypeInv, CoordinatorTyped, NoHandover
  <2>6. QED
    BY <2>1, <2>2, <2>5
<1>8. CASE HandOverNow(sinr)
  <2>1. /\ SendMcHandoverRequest(best) /\ Decide
        /\ UNCHANGED <<mode, lastCell, usingLte, downlinkMmWave, allInOutage, handover, lteDl,
                       reconfiguring, bearerIsMc, mmWaveCell, mmWaveRnti>>
    BY <1>8 DEF HandOverNow, secondary
  <2> HIDE DEF best
  <2>2. setup' \in BOOLEAN /\ decisions' \in 0..MaxDecisions
    BY <1>3, <2>1, RequestTyped, DecideTyped
  <2>3. CoordinatorTyped'
    BY <1>2, <2>1, <2>2 DEF TypeInv, CoordinatorTyped, NoHandover
  <2>4. QED
    BY <1>3, <2>1, <2>3, RequestTyped
<1>9. CASE TttBasedHandover(sinr)
  <2>1. /\ handover' \in Rescheduled(sinr)
        /\ UNCHANGED <<mode, lastCell, setup, usingLte, downlinkMmWave, allInOutage, decisions,
                       reconfiguring, bearerIsMc, mmWaveCell, mmWaveRnti, lteDl, x2>>
    BY <1>9 DEF TttBasedHandover, served, secondary
  <2>2. handover' \in {NoHandover, Handover(best), handover}
    BY <2>1 DEF Rescheduled
  <2> HIDE DEF best
  <2>3. /\ handover' \in [source : Cells \cup {0}, target : Cells \cup {0}]
        /\ handover' # NoHandover => handover'.target \in Cells
    <3>1. CASE handover' = handover
      BY <3>1 DEF TypeInv, CoordinatorTyped
    <3>2. CASE handover' = Handover(best)
      BY <1>3, <3>2, HandoverTyped
    <3>3. CASE handover' = NoHandover
      BY <1>3, <3>3, HandoverTyped
    <3>4. QED
      BY <2>2, <3>1, <3>2, <3>3
  <2>4. CoordinatorTyped'
    BY <1>2, <2>1, <2>3 DEF TypeInv, CoordinatorTyped, NoHandover
  <2>5. QED
    BY <2>1, <2>4
<1>10. CASE KeepServing(sinr)
  <2>1. UNCHANGED <<coordinatorVars, lteDl, x2>>
    BY <1>10 DEF KeepServing, coordinatorVars
  <2>2. CoordinatorTyped'
    BY <1>2, <2>1, CoordinatorStays DEF More
  <2>3. QED
    BY <2>1, <2>2
<1>11. QED
  BY <1>1, <1>5, <1>6, <1>7, <1>8, <1>9, <1>10 DEF TriggerUeAssociationUpdate

\* The scheduled handover, if there is one, has a target.
LEMMA TimeToTriggerTyped ==
    ASSUME McInv, TypeInv, TimeToTrigger
    PROVE  TypeInv'
<1>1. /\ handover # NoHandover /\ handover' = NoHandover
      /\ \/ Decide /\ SendMcHandoverRequest(handover.target)
         \/ UNCHANGED <<decisions, setup, x2>>
      /\ UNCHANGED <<mode, lastCell, usingLte, downlinkMmWave, allInOutage, lteDl,
                     reconfiguring, bearerIsMc, mmWaveCell, mmWaveRnti>>
  BY DEF TimeToTrigger, PerformHandover, secondary
<1>2. /\ UNCHANGED <<contextVars, ueState, ueRnti, ueMmWaveRnti, uplinkMmWave, handoverTo, lteUl>>
      /\ Contexts' = Contexts /\ Elements(lteUl') = Elements(lteUl)
  <2>1. UNCHANGED <<contextVars, ueState, ueRnti, ueMmWaveRnti, uplinkMmWave, handoverTo, lteUl>>
    BY DEF TimeToTrigger, ueVars
  <2>2. QED
    BY <2>1, CellsStay
<1>3. handover.target \in Cells
  BY <1>1 DEF TypeInv, CoordinatorTyped
<1>4. /\ setup' \in BOOLEAN /\ decisions' \in 0..MaxDecisions
      /\ \A msg \in InTransit(x2') : msg \in InTransit(x2) \/ X2Typed(msg, Contexts)
  <2>1. CASE Decide /\ SendMcHandoverRequest(handover.target)
    BY <1>3, <2>1, RequestTyped, DecideTyped
  <2>2. CASE UNCHANGED <<decisions, setup, x2>>
    BY <2>2 DEF TypeInv, CoordinatorTyped
  <2>3. QED
    BY <1>1, <2>1, <2>2
<1>5. handover' \in [source : Cells \cup {0}, target : Cells \cup {0}]
  BY <1>1, <1>3, HandoverTyped
<1>6. CoordinatorTyped'
  BY <1>1, <1>2, <1>4, <1>5 DEF TypeInv, CoordinatorTyped
<1>7. QED
  BY <1>1, <1>2, <1>4, <1>6, TypedAtCoordinator

\* Every step keeps the types.
LEMMA TypeNext ==
    ASSUME McInv, TypeInv, [Next]_vars
    PROVE  TypeInv'
<1>1. CASE Trigger \/ TimeToTrigger
  BY <1>1, TriggerTyped, TimeToTriggerTyped
<1>2. CASE CoordinatorReceives
  BY <1>2, CoordinatorReceivesTyped
<1>3. CASE CellReceives
  <2>1. AtCells
    BY <1>3 DEF CellReceives, AtCells
  <2>2. PICK cell \in Cells :
           \/ RecvRlcSetupRequest(cell)
           \/ RecvMcHandoverRequest(cell)
           \/ RecvSwitchConnection(cell)
           \/ RecvUeContextRelease(cell)
           \/ \E other \in Cells \ {cell} :
                  \/ AdmitHandover(other, cell)
                  \/ RecvHandoverRequestAck(other, cell)
                  \/ RecvHandoverPreparationFailure(other, cell)
    BY <1>3 DEF CellReceives
  <2>3. QED
    BY <2>1, <2>2, RecvRlcSetupRequestTyped, RecvMcHandoverRequestTyped,
       RecvSwitchConnectionTyped, RecvUeContextReleaseTyped, AdmitHandoverTyped,
       RecvHandoverRequestAckTyped, RecvHandoverPreparationFailureTyped
<1>4. CASE CellHearsUe
  BY <1>4, RecvReconfigurationCompleteTyped DEF CellHearsUe, AtCells
<1>5. CASE LteCellHearsUe
  BY <1>5, RecvSecondaryCellConnectedTyped, RecvUeReconfiguredTyped DEF LteCellHearsUe
<1>6. CASE Ue \/ UeRandomAccessFailed
  BY <1>6, UeConnectToMmWaveTyped, UeReconfigureTyped, UeRecvConnectionSwitchTyped,
     UeHandoverTyped DEF Ue
<1>7. CASE Timers
  BY <1>7, TimersTyped
<1>8. CASE Mishaps
  <2>1. AtCells
    BY <1>8 DEF Mishaps, AtCells
  <2>2. CASE LoseCommand \/ LoseComplete
    BY <2>1, <2>2, LossTyped
  <2>3. ASSUME NEW cell \in Cells, NEW other \in Cells \ {cell}, RefuseHandover(other, cell)
        PROVE  TypeInv'
    BY <2>1, <2>3, RefuseHandoverTyped
  <2>4. QED
    BY <1>8, <2>2, <2>3 DEF Mishaps
<1>9. CASE UNCHANGED vars
  <2>1. UNCHANGED <<coordinatorVars, contextVars, ueVars, x2>>
    BY <1>9 DEF vars
  <2>2. /\ UNCHANGED <<contextVars, ueState, ueRnti, ueMmWaveRnti, uplinkMmWave, handoverTo>>
        /\ UNCHANGED <<coordinatorVars, lteDl, lteUl, x2>>
    BY <2>1 DEF ueVars, coordinatorVars
  <2>3. CoordinatorTyped'
    BY <2>2, CellsStay, CoordinatorStays
  <2>4. QED
    BY <2>2, <2>3, TypedAtCoordinator
<1>10. QED
  BY <1>1, <1>2, <1>3, <1>4, <1>5, <1>6, <1>7, <1>8, <1>9 DEF Next

\* At the start no context is made and none is named.
LEMMA TypeInit ==
    ASSUME Init
    PROVE  TypeInv
<1>1. /\ X2Init /\ CoordinatorInit
      /\ ctx = <<>> /\ imsiRnti = [cell \in Cells |-> 0] /\ forwarding = [cell \in Cells |-> 0]
      /\ commands = {} /\ completes = {} /\ mishaps = 0
      /\ ueState = "Idle" /\ ueRnti = 0 /\ ueMmWaveRnti = 0
      /\ uplinkMmWave = FALSE /\ handoverTo = 0 /\ lteUl = <<>>
  BY DEF Init, UeContextInit
<1>2. ctx \in Seq(Context) /\ 0 \in Contexts
  BY <1>1 DEF Contexts
<1>3. CellsTyped /\ UeTyped
  <2>1. imsiRnti \in [Cells -> Contexts] /\ forwarding \in [Cells -> Cells \cup {0}]
    BY <1>1, <1>2
  <2>2. mishaps \in 0..MaxMishaps
    BY <1>1, UeContextAssumption
  <2>3. CellsTyped
    BY <1>1, <1>2, <2>1, <2>2 DEF CellsTyped
  <2>4. UeTyped
    BY <1>1, <1>2 DEF UeTyped
  <2>5. QED
    BY <2>3, <2>4
<1>4. CoordinatorTyped
  <2>1. NoHandover \in [source : Cells \cup {0}, target : Cells \cup {0}]
    BY DEF NoHandover
  <2>2. /\ mode \in Modes /\ lastCell = 0 /\ setup = FALSE
        /\ allInOutage \in BOOLEAN /\ usingLte = allInOutage
        /\ handover = NoHandover /\ reconfiguring = FALSE /\ bearerIsMc = FALSE
        /\ mmWaveCell = 0 /\ mmWaveRnti = 0 /\ downlinkMmWave = FALSE /\ decisions = 0
    BY <1>1 DEF CoordinatorInit
  <2>3. decisions \in 0..MaxDecisions
    BY <2>2, CoordinatorAssumption
  <2>4. usingLte \in BOOLEAN
    BY <2>2
  <2>5. QED
    BY <1>2, <2>1, <2>2, <2>3, <2>4 DEF CoordinatorTyped
<1>5. MessagesTyped
  <2>1. InTransit(x2) = {}
    <3>1. \A l \in Interfaces : x2[l] = <<>>
      BY <1>1 DEF X2Init
    <3>2. QED
      BY <3>1 DEF InTransit
  <2>2. Elements(lteUl) = {}
    BY <1>1 DEF Elements
  <2>3. \A msg \in Elements(lteDl) : DlTyped(msg)
    <3>1. CASE lteDl = <<>>
      BY <3>1 DEF Elements
    <3>2. ASSUME NEW cell \in Cells, lteDl = <<[type |-> "Connect", cell |-> cell]>>
          PROVE  \A msg \in Elements(lteDl) : DlTyped(msg)
      <4> DEFINE order == [type |-> "Connect", cell |-> cell]
      <4>1. DlTyped(order)
        BY DEF DlTyped
      <4>2. lteDl = <<order>>
        BY <3>2
      <4> HIDE DEF order
      <4>3. Elements(lteDl) = {order}
        BY <4>2 DEF Elements
      <4>4. QED
        BY <4>1, <4>3
    <3>3. QED
      BY <1>1, <3>1, <3>2 DEF CoordinatorInit
  <2>4. QED
    BY <1>1, <2>1, <2>2, <2>3 DEF MessagesTyped
<1>6. QED
  BY <1>3, <1>4, <1>5 DEF TypeInv

\* Types are kept, whatever the coordinator decides and whatever goes wrong: what
\* a message, a command or a cell's map names is a context that has been made,
\* and the coordinator only ever chooses a cell there is.
THEOREM TypeCorrect == Spec => []TypeOK
<1>1. Init => McInv /\ TypeInv
  BY McInit, TypeInit
<1>2. (McInv /\ TypeInv) /\ [Next]_vars => (McInv /\ TypeInv)'
  BY McNext, TypeNext
<1>3. McInv /\ TypeInv => TypeOK
  BY TypesOK
<1>4. QED
  BY <1>1, <1>2, <1>3, PTL DEF Spec

---------------------------------------------------------------------------
(***************************************************************************)
(* The order of the messages of an interface.                              *)
(***************************************************************************)

\* Of two messages to a cell the first may be a and the second b: a release
\* comes after no other and after no request for a handover, and what redirects
\* the bearer does not come after the release of its context.
MayPrecede(a, b) ==
    /\ b.type = "UeContextRelease" => a.type \notin {"UeContextRelease", "McHandoverRequest"}
    /\ a.type = "UeContextRelease" /\ b.type = "SwitchConnection" => a.rnti # b.rnti

InOrder(s) == \A j, k \in DOMAIN s : j < k => MayPrecede(s[j], s[k])

\* A message may come after those that may precede it ...
LEMMA AppendInOrder ==
    ASSUME NEW s, IsSequence(s), InOrder(s), NEW e, \A m \in Elements(s) : MayPrecede(m, e)
    PROVE  InOrder(Append(s, e))
<1> DEFINE n == Len(s)
           t == Append(s, e)
<1>1. /\ n \in Nat /\ DOMAIN s = 1..n /\ DOMAIN t = 1..(n + 1)
      /\ \A k \in 1..n : t[k] = s[k]
      /\ t[n + 1] = e
  BY AppendFacts
<1> HIDE DEF n, t
<1>2. SUFFICES ASSUME NEW j \in 1..(n + 1), NEW k \in 1..(n + 1), j < k
               PROVE  MayPrecede(t[j], t[k])
  BY <1>1 DEF InOrder, t
<1>3. j \in 1..n /\ t[j] = s[j]
  BY <1>1, <1>2
<1>4. CASE k = n + 1
  BY <1>1, <1>3, <1>4 DEF Elements
<1>5. CASE k # n + 1
  <2>1. k \in 1..n /\ t[k] = s[k]
    BY <1>1, <1>5
  <2>2. QED
    BY <1>1, <1>2, <1>3, <2>1 DEF InOrder
<1>6. QED
  BY <1>4, <1>5

\* ... and taking the oldest disturbs nothing.
LEMMA TailInOrder ==
    ASSUME NEW s, IsSequence(s), s # <<>>, InOrder(s)
    PROVE  InOrder(Tail(s)) /\ \A m \in Elements(Tail(s)) : MayPrecede(Head(s), m)
<1> DEFINE n == Len(s)
           t == Tail(s)
           h == Head(s)
<1>1. /\ n \in Nat \ {0} /\ DOMAIN s = 1..n /\ DOMAIN t = 1..(n - 1)
      /\ \A k \in 1..(n - 1) : t[k] = s[k + 1]
      /\ h = s[1]
  BY TailFacts
<1> HIDE DEF n, t, h
<1>2. /\ 1 \in 1..n
      /\ \A k \in 1..(n - 1) : k + 1 \in 1..n /\ 1 < k + 1
      /\ \A j, k \in 1..(n - 1) : j < k => j + 1 < k + 1
  BY <1>1
<1>3. InOrder(t)
  <2>1. SUFFICES ASSUME NEW j \in 1..(n - 1), NEW k \in 1..(n - 1), j < k
                 PROVE  MayPrecede(t[j], t[k])
    BY <1>1 DEF InOrder
  <2>2. j + 1 \in 1..n /\ k + 1 \in 1..n /\ j + 1 < k + 1
    BY <1>2, <2>1
  <2>3. MayPrecede(s[j + 1], s[k + 1])
    BY <1>1, <2>2 DEF InOrder
  <2>4. QED
    BY <1>1, <2>3
<1>4. \A k \in 1..(n - 1) : MayPrecede(h, t[k])
  BY <1>1, <1>2 DEF InOrder
<1>5. \A m \in Elements(t) : MayPrecede(h, m)
  BY <1>1, <1>4 DEF Elements
<1>6. QED
  BY <1>3, <1>5 DEF t, h

\* What is on each interface after a message has been sent.
LEMMA SentElements ==
    ASSUME NEW links, Links(links), NEW from, NEW to, NEW msg
    PROVE  /\ \A l \in Interfaces : l # <<from, to>> => Sent(links, from, to, msg)[l] = links[l]
           /\ <<from, to>> \in Interfaces =>
                Elements(Sent(links, from, to, msg)[<<from, to>>]) = Elements(links[<<from, to>>]) \cup {msg}
           /\ (\A l \in Interfaces : InOrder(links[l]))
              /\ (\A m \in Elements(links[<<from, to>>]) : MayPrecede(m, msg))
                => \A l \in Interfaces : InOrder(Sent(links, from, to, msg)[l])
<1> DEFINE new == Sent(links, from, to, msg)
           q == links[<<from, to>>]
<1>1. /\ \A l \in Interfaces : l # <<from, to>> => new[l] = links[l]
      /\ <<from, to>> \in Interfaces => new[<<from, to>>] = Append(q, msg)
  BY DEF Sent, Links
<1>2. <<from, to>> \in Interfaces => IsSequence(q)
  BY DEF Links
<1>3. <<from, to>> \in Interfaces => Elements(Append(q, msg)) = Elements(q) \cup {msg}
  BY <1>2, ElementsFacts
<1>4. ASSUME \A l \in Interfaces : InOrder(links[l]), \A m \in Elements(q) : MayPrecede(m, msg)
      PROVE  \A l \in Interfaces : InOrder(new[l])
  <2>1. <<from, to>> \in Interfaces => InOrder(Append(q, msg))
    BY <1>2, <1>4, AppendInOrder
  <2> HIDE DEF q, new
  <2>2. QED
    BY <1>1, <1>4, <2>1
<1> HIDE DEF q, new
<1>5. <<from, to>> \in Interfaces => Elements(new[<<from, to>>]) = Elements(q) \cup {msg}
  BY <1>1, <1>3
<1>6. QED
  BY <1>1, <1>4, <1>5 DEF new, q

\* And after one has been taken.
LEMMA ReceivedElements ==
    ASSUME NEW links, Links(links), NEW from, NEW to,
           <<from, to>> \in Interfaces, links[<<from, to>>] # <<>>
    PROVE  /\ \A l \in Interfaces : l # <<from, to>> => Received(links, from, to)[l] = links[l]
           /\ Elements(links[<<from, to>>])
                = Elements(Received(links, from, to)[<<from, to>>]) \cup {Head(links[<<from, to>>])}
           /\ (\A l \in Interfaces : InOrder(links[l])) =>
                /\ \A l \in Interfaces : InOrder(Received(links, from, to)[l])
                /\ \A m \in Elements(Received(links, from, to)[<<from, to>>]) :
                       MayPrecede(Head(links[<<from, to>>]), m)
<1> DEFINE new == Received(links, from, to)
           q == links[<<from, to>>]
<1>1. /\ \A l \in Interfaces : l # <<from, to>> => new[l] = links[l]
      /\ new[<<from, to>>] = Tail(q)
  BY DEF Received, Links
<1>2. IsSequence(q)
  BY DEF Links
<1>3. Elements(q) = Elements(Tail(q)) \cup {Head(q)}
  BY <1>2, ElementsFacts
<1>4. InOrder(q) => InOrder(Tail(q)) /\ \A m \in Elements(Tail(q)) : MayPrecede(Head(q), m)
  BY <1>2, TailInOrder
<1> HIDE DEF new, q
<1>5. ASSUME \A l \in Interfaces : InOrder(links[l])
      PROVE  /\ \A l \in Interfaces : InOrder(new[l])
             /\ \A m \in Elements(new[<<from, to>>]) : MayPrecede(Head(q), m)
  BY <1>1, <1>4, <1>5 DEF q
<1>6. QED
  BY <1>1, <1>3, <1>5 DEF new, q

\* The messages under way are those of the interfaces.
LEMMA TransitElements ==
    ASSUME NEW links, NEW l \in Interfaces, NEW msg \in Elements(links[l])
    PROVE  msg \in InTransit(links)
BY DEF InTransit, Elements

---------------------------------------------------------------------------
(***************************************************************************)
(* The course of a procedure that nothing disturbs.  The token of          *)
(* OneProcedure is at one place; where it is says what context serves the  *)
(* UE and in which state, which one it is going to, and what the cell's    *)
(* map, the coordinator and the UE know of both.                           *)
(***************************************************************************)

UeAt(id) == ueRnti = id /\ ueMmWaveRnti = id

\* The UE is connected at the cell by the context, and both know it.
Resides(cell, id) == InState(cell, id, "Connected") /\ imsiRnti[cell] = id /\ UeAt(id)

Settled ==
    /\ Resides(mmWaveCell, mmWaveRnti)
    /\ ctx[mmWaveRnti].rlc /\ ctx[mmWaveRnti].requests

\* The context the UE is handed over from, and the one it goes to.
Source(state) == lastCell = mmWaveCell /\ InState(lastCell, mmWaveRnti, state)

NewHome(cell, id, state) ==
    /\ InState(cell, id, state)
    /\ cell # lastCell /\ imsiRnti[cell] = id
    /\ ctx[id].source = mmWaveRnti /\ ctx[id].rlc /\ ctx[id].requests

Moving(id) == UeAt(id) /\ Source("Leaving") /\ NewHome(ctx[id].cell, id, "Joining")

\* What a message of a procedure, at this interface, says of the rest.
TokenCourse(l, msg) ==
    /\ msg.type = "RlcSetupRequest" =>
           /\ ~bearerIsMc /\ Resides(mmWaveCell, mmWaveRnti)
           /\ l[2] = mmWaveCell /\ msg.rnti = mmWaveRnti
    /\ msg.type = "RlcSetupCompleted" => Settled
    /\ msg.type = "McHandoverRequest" =>
           /\ Settled /\ lastCell = mmWaveCell
           /\ l = <<LteCell, lastCell>> /\ msg.target # lastCell
    /\ msg.type = "HandoverRequest" =>
           /\ Source("Preparation") /\ UeAt(mmWaveRnti) /\ forwarding[lastCell] = 0
           /\ l[1] = lastCell /\ msg.source = mmWaveRnti /\ msg.rlc
    /\ msg.type = "HandoverRequestAck" =>
           /\ Source("Preparation") /\ UeAt(mmWaveRnti) /\ forwarding[lastCell] = 0
           /\ l[2] = lastCell /\ msg.source = mmWaveRnti
           /\ NewHome(l[1], msg.new, "Joining")
    /\ msg.type = "SecondaryCellHandoverCompleted" =>
           /\ Source("Leaving") /\ UeAt(msg.rnti)
           /\ msg.source = mmWaveRnti /\ NewHome(l[1], msg.rnti, "Connected")

\* What any other message says: the context it is about waits for it.
SideCourse(l, msg) ==
    /\ msg.type = "UeContextRelease" =>
           l[1] = LteCell /\ InState(l[2], msg.rnti, "Leaving") /\ msg.rnti # mmWaveRnti
    /\ msg.type = "SwitchConnection" =>
           l[1] = LteCell /\ Found(l[2], msg.rnti) /\ ctx[msg.rnti].rlc
    /\ msg.type \notin {"HandoverPreparationFailure", "HandoverFailed"}

X2Course ==
    /\ \A l \in Interfaces : \A msg \in Elements(x2[l]) : TokenCourse(l, msg) /\ SideCourse(l, msg)
    /\ \A l \in Interfaces : InOrder(x2[l])

\* The procedure is not on X2.
DlCourse(msg) ==
    /\ msg.type = "Connect" => ~bearerIsMc
    /\ msg.type = "Reconfiguration" => Settled
UlCourse(msg) ==
    /\ msg.type = "SecondaryCellConnected" => ~bearerIsMc /\ Resides(msg.cell, msg.rnti)
    /\ msg.type = "ReconfigurationCompleted" => Settled

RrcCourse ==
    /\ \A msg \in Elements(lteDl) : DlCourse(msg)
    /\ \A msg \in Elements(lteUl) : UlCourse(msg)
    /\ \A command \in commands :
           /\ command.from = mmWaveRnti /\ UeAt(mmWaveRnti) /\ Source("Leaving")
           /\ NewHome(ctx[command.to].cell, command.to, "Joining")
    /\ ueState = "Handover" => Moving(handoverTo)
    /\ \A id \in completes : Moving(id)

\* There is no procedure, or none yet.
ServingCourse ==
    /\ setup => Settled /\ lastCell = mmWaveCell
    /\ allInOutage => ~bearerIsMc
    /\ bearerIsMc => Found(mmWaveCell, mmWaveRnti) /\ ctx[mmWaveRnti].rlc

\* A context that leaves is the one the UE is handed over from, or will be released.
Release(id) == [type |-> "UeContextRelease", rnti |-> id]
LeavingCourse ==
    /\ \A id \in DOMAIN ctx : ~ctx[id].expired
    /\ \A id \in DOMAIN ctx : ctx[id].state = "Leaving" =>
           /\ bearerIsMc /\ forwarding[ctx[id].cell] # 0
           /\ id = mmWaveRnti \/ Release(id) \in Elements(x2[<<LteCell, ctx[id].cell>>])
    /\ \A i, j \in DOMAIN ctx :
           ctx[i].state = "Leaving" /\ ctx[j].state = "Leaving" /\ ctx[i].cell = ctx[j].cell => i = j
    /\ \A cell \in Cells :
           forwarding[cell] # 0 => \E id \in DOMAIN ctx : InState(cell, id, "Leaving")

Course == X2Course /\ RrcCourse /\ ServingCourse /\ LeavingCourse

Undisturbed == McInv /\ TypeInv /\ mishaps = 0 /\ Course

---------------------------------------------------------------------------
(***************************************************************************)
(* What a step does to the course.                                         *)
(***************************************************************************)

\* The contexts there were are still there, none starts or ends to leave.
Evolves ==
    \A k \in DOMAIN ctx :
        /\ k \in DOMAIN ctx'
        /\ ctx'[k].cell = ctx[k].cell
        /\ ctx[k].rlc => ctx'[k].rlc
        /\ ctx'[k].state = "Leaving" <=> ctx[k].state = "Leaving"
        /\ ctx[k].state # "Removed" => ctx'[k].state # "Removed"

\* A message that is aside goes on finding what it is about ...
LEMMA SideFrame ==
    ASSUME Evolves, UNCHANGED mmWaveRnti, NEW l, NEW msg, SideCourse(l, msg)
    PROVE  SideCourse(l, msg)'
BY DEF Evolves, SideCourse, InState, Found

\* ... and a context that leaves goes on waiting for its release.
LEMMA LeavingFrame ==
    ASSUME LeavingCourse, Evolves, UNCHANGED <<mmWaveRnti, forwarding>>, bearerIsMc => bearerIsMc',
           \A k \in DOMAIN ctx' : ~ctx'[k].expired /\ (k \in DOMAIN ctx \/ ctx'[k].state # "Leaving"),
           \A k \in DOMAIN ctx : <<LteCell, ctx[k].cell>> \in Interfaces,
           \A l \in Interfaces : \A id :
               Release(id) \in Elements(x2[l]) => Release(id) \in Elements(x2'[l])
    PROVE  LeavingCourse'
<1>1. \A k \in DOMAIN ctx' : ctx'[k].state = "Leaving" =>
          k \in DOMAIN ctx /\ ctx[k].state = "Leaving" /\ ctx'[k].cell = ctx[k].cell
  BY DEF Evolves
<1>2. \A id \in DOMAIN ctx' : ctx'[id].state = "Leaving" =>
           /\ bearerIsMc' /\ forwarding'[ctx'[id].cell] # 0
           /\ id = mmWaveRnti' \/ Release(id) \in Elements(x2'[<<LteCell, ctx'[id].cell>>])
  BY <1>1 DEF LeavingCourse
<1>3. \A i, j \in DOMAIN ctx' :
           ctx'[i].state = "Leaving" /\ ctx'[j].state = "Leaving" /\ ctx'[i].cell = ctx'[j].cell => i = j
  BY <1>1 DEF LeavingCourse
<1>4. \A cell \in Cells : forwarding'[cell] # 0 => \E id \in DOMAIN ctx' : InState(cell, id, "Leaving")'
  BY DEF LeavingCourse, Evolves, InState, Found
<1>5. QED
  BY <1>2, <1>3, <1>4 DEF LeavingCourse, Release

\* There is no procedure with the UE, the commands or RRC.
RrcFree ==
    /\ FreeIn(lteDl, DlTypes) /\ FreeIn(lteUl, UlTypes)
    /\ commands = {} /\ completes = {} /\ ueState # "Handover"

\* Then there is nothing to say of the UE and RRC.
LEMMA FreeCourse ==
    ASSUME RrcFree'
    PROVE  RrcCourse'
<1>1. \A msg \in Elements(lteDl') : msg.type \notin DlTypes
  BY DEF RrcFree, FreeIn, Elements
<1>2. \A msg \in Elements(lteUl') : msg.type \notin UlTypes
  BY DEF RrcFree, FreeIn, Elements
<1>3. (\A msg \in Elements(lteDl) : DlCourse(msg))'
  BY <1>1 DEF DlCourse, DlTypes
<1>4. (\A msg \in Elements(lteUl) : UlCourse(msg))'
  BY <1>2 DEF UlCourse, UlTypes
<1>5. QED
  BY <1>3, <1>4 DEF RrcCourse, RrcFree

\* The messages that remain once the one of a procedure is gone.
Aside(links) ==
    /\ Links(links)
    /\ \A l \in Interfaces : \A m \in Elements(links[l]) : m.type \notin TokenTypes /\ SideCourse(l, m)
    /\ \A l \in Interfaces : InOrder(links[l])

\* The message of a procedure arrives.
LEMMA TokenCourseArrives ==
    ASSUME Undisturbed, NEW from, NEW to, <<from, to>> \in Interfaces,
           NEW type \in TokenTypes, Arrived(from, to, type)
    PROVE  /\ Oldest(from, to).type = type /\ TokenCourse(<<from, to>>, Oldest(from, to))
           /\ Oldest(from, to) \in InTransit(x2)
           /\ ~setup /\ ~allInOutage /\ RrcFree
           /\ Aside(Received(x2, from, to))
           /\ \A l \in Interfaces : \A id :
                  Release(id) \in Elements(x2[l]) => Release(id) \in Elements(Received(x2, from, to)[l])
<1> DEFINE links == Received(x2, from, to)
           head == Oldest(from, to)
<1>1. McInv /\ Course /\ Links(x2) /\ x2[<<from, to>>] # <<>> /\ head = Head(x2[<<from, to>>])
  BY DEF Undisturbed, McInv, Shapes, Arrived, Oldest
<1>2. /\ TokenAt("x2") /\ ~setup /\ ~allInOutage
      /\ X2Free(links) /\ Links(links) /\ head.type = type /\ head \in InTransit(x2)
  BY <1>1, TokenArrives
<1>3. RrcFree
  BY <1>2 DEF TokenAt, RrcFree
<1>4. /\ \A l \in Interfaces : l # <<from, to>> => links[l] = x2[l]
      /\ Elements(x2[<<from, to>>]) = Elements(links[<<from, to>>]) \cup {head}
      /\ (\A l \in Interfaces : InOrder(x2[l])) => \A l \in Interfaces : InOrder(links[l])
  BY <1>1, ReceivedElements
<1> HIDE DEF links, head
<1>5. \A l \in Interfaces : Elements(links[l]) \subseteq Elements(x2[l])
  BY <1>4
<1>6. Aside(links)
  <2>1. \A l \in Interfaces : \A m \in Elements(links[l]) : m.type \notin TokenTypes
    BY <1>2, TransitElements, FreeTransit
  <2>2. \A l \in Interfaces : \A m \in Elements(links[l]) : SideCourse(l, m)
    BY <1>1, <1>5 DEF Course, X2Course
  <2>3. \A l \in Interfaces : InOrder(links[l])
    BY <1>1, <1>4 DEF Course, X2Course
  <2>4. QED
    BY <1>2, <2>1, <2>2, <2>3 DEF Aside
<1>7. TokenCourse(<<from, to>>, head)
  BY <1>1, <1>4 DEF Course, X2Course
<1>8. ASSUME NEW l \in Interfaces, NEW id, Release(id) \in Elements(x2[l])
      PROVE  Release(id) \in Elements(links[l])
  <2>1. Release(id).type \notin TokenTypes
    BY DEF Release, TokenTypes, HandoverTypes
  <2>2. Release(id) # head
    BY <1>2, <2>1
  <2>3. QED
    BY <1>4, <1>8, <2>2
<1>9. QED
  BY <1>2, <1>3, <1>6, <1>7, <1>8 DEF links, head

\* It goes on as another.
LEMMA TokenCourseSent ==
    ASSUME NEW links, Aside(links)', NEW from, NEW to,
           NEW msg, msg.type \in TokenTypes, TokenCourse(<<from, to>>, msg)',
           x2' = Sent(links, from, to, msg)
    PROVE  /\ X2Course'
           /\ \A l \in Interfaces : \A id :
                  Release(id) \in Elements(links[l]) => Release(id) \in Elements(x2'[l])
<1>1. /\ Links(links) /\ \A l \in Interfaces : InOrder(links[l])
      /\ \A l \in Interfaces : \A m \in Elements(links[l]) : m.type \notin TokenTypes /\ SideCourse(l, m)'
  BY DEF Aside
<1>2. \A m : MayPrecede(m, msg)
  BY DEF MayPrecede, TokenTypes, HandoverTypes
<1>3. /\ \A l \in Interfaces : l # <<from, to>> => x2'[l] = links[l]
      /\ <<from, to>> \in Interfaces => Elements(x2'[<<from, to>>]) = Elements(links[<<from, to>>]) \cup {msg}
      /\ \A l \in Interfaces : InOrder(x2'[l])
  BY <1>1, <1>2, SentElements
<1>4. \A m : m.type \notin TokenTypes => \A l : TokenCourse(l, m)'
  BY DEF TokenCourse, TokenTypes, HandoverTypes
<1>5. \A l : SideCourse(l, msg)'
  BY DEF SideCourse, TokenTypes, HandoverTypes
<1>6. ASSUME NEW l \in Interfaces, NEW m \in Elements(x2'[l])
      PROVE  TokenCourse(l, m)' /\ SideCourse(l, m)'
  <2>1. CASE m \in Elements(links[l])
    BY <1>1, <1>4, <2>1
  <2>2. CASE l = <<from, to>> /\ m = msg
    BY <1>5, <2>2
  <2>3. QED
    BY <1>3, <2>1, <2>2
<1>7. QED
  BY <1>3, <1>6 DEF X2Course

\* Or it goes on elsewhere.
LEMMA AsideCourse ==
    ASSUME Aside(x2)'
    PROVE  X2Course'
<1>1. \A m : m.type \notin TokenTypes => \A l : TokenCourse(l, m)'
  BY DEF TokenCourse, TokenTypes, HandoverTypes
<1>2. QED
  BY <1>1 DEF Aside, X2Course

\* What remains of the messages does, whatever the token does.
LEMMA AsideFrame ==
    ASSUME NEW links, Aside(links), Evolves, UNCHANGED mmWaveRnti
    PROVE  Aside(links)'
BY SideFrame DEF Aside

\* The context that serves the UE goes on doing so.
LEMMA ServingFrame ==
    ASSUME ServingCourse, Evolves, UNCHANGED <<mmWaveCell, mmWaveRnti, bearerIsMc>>,
           ~setup', ~allInOutage'
    PROVE  ServingCourse'
BY DEF ServingCourse, Evolves, Found

\* A context has the interface to the LTE cell.
LEMMA ContextFacts ==
    ASSUME TypeInv
    PROVE  \A k \in DOMAIN ctx : ctx[k] \in Context /\ ctx[k].cell \in Cells
               /\ <<LteCell, ctx[k].cell>> \in Interfaces
<1>1. \A k \in DOMAIN ctx : ctx[k] \in Context
  BY DEF TypeInv, CellsTyped
<1>2. \A k \in DOMAIN ctx : ctx[k].cell \in Cells
  BY <1>1 DEF Context
<1>3. QED
  BY <1>1, <1>2, InterfaceOfCells

\* While no message of a procedure is under way on X2.
LEMMA AsideOfFree ==
    ASSUME Undisturbed, X2Free(x2)
    PROVE  Aside(x2)
<1>1. Links(x2) /\ X2Course
  BY DEF Undisturbed, McInv, Shapes, Course
<1>2. \A l \in Interfaces : \A m \in Elements(x2[l]) : m.type \notin TokenTypes
  BY TransitElements, FreeTransit
<1>3. QED
  BY <1>1, <1>2 DEF Aside, X2Course

\* A procedure goes on in a message on X2, and no context starts or ends to
\* leave.
LEMMA GoesOn ==
    ASSUME Undisturbed, RrcFree', ~setup', ~allInOutage',
           UNCHANGED <<mmWaveCell, mmWaveRnti, bearerIsMc>>,
           NEW links, Aside(links),
           \A l \in Interfaces : \A id :
               Release(id) \in Elements(x2[l]) => Release(id) \in Elements(links[l]),
           Evolves, UNCHANGED forwarding,
           \A k \in DOMAIN ctx' : ~ctx'[k].expired /\ (k \in DOMAIN ctx \/ ctx'[k].state # "Leaving"),
           NEW from, NEW to, NEW msg, msg.type \in TokenTypes,
           TokenCourse(<<from, to>>, msg)', x2' = Sent(links, from, to, msg)
    PROVE  Course'
<1>1. McInv /\ TypeInv /\ Course
  BY DEF Undisturbed
<1>2. Aside(links)'
  BY AsideFrame
<1>3. /\ X2Course'
      /\ \A l \in Interfaces : \A id :
             Release(id) \in Elements(links[l]) => Release(id) \in Elements(x2'[l])
  BY <1>2, TokenCourseSent
<1>4. RrcCourse'
  BY FreeCourse
<1>5. ServingCourse'
  BY <1>1, ServingFrame DEF Course
<1>6. LeavingCourse'
  BY <1>1, <1>3, ContextFacts, LeavingFrame DEF Course
<1>7. QED
  BY <1>3, <1>4, <1>5, <1>6 DEF Course

\* A cell passes a procedure on.
LEMMA PassedOn ==
    ASSUME Undisturbed, AtCells, RrcFree', ~setup, ~allInOutage,
           NEW links, Aside(links),
           \A l \in Interfaces : \A id :
               Release(id) \in Elements(x2[l]) => Release(id) \in Elements(links[l]),
           Evolves, UNCHANGED forwarding,
           \A k \in DOMAIN ctx' : ~ctx'[k].expired /\ (k \in DOMAIN ctx \/ ctx'[k].state # "Leaving"),
           NEW from, NEW to, NEW msg, msg.type \in TokenTypes,
           TokenCourse(<<from, to>>, msg)', x2' = Sent(links, from, to, msg)
    PROVE  Course'
<1>1. UNCHANGED <<setup, allInOutage, bearerIsMc, mmWaveCell, mmWaveRnti>>
  BY AtCellsFrame DEF Undisturbed
<1>2. QED
  BY <1>1, GoesOn

\* What the cells leave alone.
LEMMA FreeAtCells ==
    ASSUME McInv, AtCells, RrcFree, UNCHANGED <<commands, completes>>
    PROVE  RrcFree'
BY AtCellsFrame DEF RrcFree

\* What a step of a cell leaves alone of the coordinator and the UE.
LEMMA HereAtCells ==
    ASSUME AtCells
    PROVE  UNCHANGED <<lastCell, mmWaveCell, mmWaveRnti, bearerIsMc, setup, ueRnti, ueMmWaveRnti>>
BY DEF AtCells, coordinatorVars, served, secondary, ueVars

\* A context stays where it is, and what it has.
LEMMA OneEvolves ==
    ASSUME TypeInv, NEW id \in DOMAIN ctx, DOMAIN ctx' = DOMAIN ctx,
           \A k \in DOMAIN ctx : k # id => ctx'[k] = ctx[k],
           ctx'[id].cell = ctx[id].cell, ctx[id].rlc => ctx'[id].rlc,
           ctx'[id].state = "Leaving" <=> ctx[id].state = "Leaving",
           ctx[id].state # "Removed" => ctx'[id].state # "Removed"
    PROVE  Evolves
BY DEF Evolves

\* The context of the request gets its RLC: the UE is settled.
LEMMA RecvRlcSetupRequestCourse ==
    ASSUME Undisturbed, NEW cell \in Cells, RecvRlcSetupRequest(cell), AtCells
    PROVE  Course'
<1> DEFINE id == Oldest(LteCell, cell).rnti
           new == [ctx[id] EXCEPT !.rlc = TRUE, !.requests = TRUE]
           done == [type |-> "RlcSetupCompleted"]
<1>1. McInv /\ TypeInv /\ Course
  BY DEF Undisturbed
<1>2. /\ Arrived(LteCell, cell, "RlcSetupRequest") /\ id \in DOMAIN ctx
      /\ ctx' = [ctx EXCEPT ![id] = new]
      /\ ctx[id].state = "Connected" => x2' = Sent(Received(x2, LteCell, cell), cell, LteCell, done)
      /\ UNCHANGED <<imsiRnti, forwarding, commands, completes, mishaps>>
  BY DEF RecvRlcSetupRequest, Found
<1>3. <<LteCell, cell>> \in Interfaces /\ "RlcSetupRequest" \in TokenTypes
  BY InterfaceOfCells DEF TokenTypes
<1>4. /\ Oldest(LteCell, cell).type = "RlcSetupRequest"
      /\ TokenCourse(<<LteCell, cell>>, Oldest(LteCell, cell))
      /\ ~setup /\ ~allInOutage /\ RrcFree
      /\ Aside(Received(x2, LteCell, cell))
      /\ \A l \in Interfaces : \A k :
             Release(k) \in Elements(x2[l]) => Release(k) \in Elements(Received(x2, LteCell, cell)[l])
  BY <1>2, <1>3, TokenCourseArrives
<1>5. id = mmWaveRnti /\ Resides(mmWaveCell, mmWaveRnti)
  BY <1>4 DEF TokenCourse
<1>6. InState(mmWaveCell, mmWaveRnti, "Connected") /\ imsiRnti[mmWaveCell] = mmWaveRnti /\ UeAt(mmWaveRnti)
  BY <1>5 DEF Resides
<1>7. ctx[id].state = "Connected" /\ ctx[id].cell = mmWaveCell
  BY <1>5, <1>6 DEF InState, Found
<1>8. ctx[id] \in Context /\ ~ctx[id].expired
  BY <1>1, <1>2, ContextFacts DEF Course, LeavingCourse
<1>9. new \in Context /\ new.rlc /\ new.requests /\ new.state = "Connected" /\ new.cell = mmWaveCell /\ ~new.expired
  BY <1>7, <1>8 DEF Context
<1>10. PICK T : T = Received(x2, LteCell, cell)
  OBVIOUS
<1> HIDE DEF id, new
<1>11. /\ DOMAIN ctx' = DOMAIN ctx /\ ctx'[id] = new
       /\ \A k \in DOMAIN ctx : k # id => ctx'[k] = ctx[k]
  BY <1>1, <1>2, <1>9, ContextChanges
<1>12. Evolves
  BY <1>1, <1>2, <1>7, <1>9, <1>11, OneEvolves
<1>13. Settled'
  BY <1>2, <1>5, <1>6, <1>9, <1>11, HereAtCells DEF Settled, Resides, InState, Found, UeAt
<1>14. done.type \in TokenTypes /\ TokenCourse(<<cell, LteCell>>, done)'
  BY <1>13 DEF TokenCourse, TokenTypes
<1>15. RrcFree'
  BY <1>1, <1>2, <1>4, FreeAtCells
<1>16. \A k \in DOMAIN ctx' : ~ctx'[k].expired /\ (k \in DOMAIN ctx \/ ctx'[k].state # "Leaving")
  BY <1>1, <1>9, <1>11 DEF Course, LeavingCourse
<1> HIDE DEF done
<1>17. QED
  BY <1>2, <1>4, <1>7, <1>10, <1>12, <1>14, <1>15, <1>16, PassedOn

\* What arrives before a release is no request for a handover.
LEMMA NoReleaseBehind ==
    ASSUME Undisturbed, NEW cell \in Cells, Arrived(LteCell, cell, "McHandoverRequest"),
           NEW id
    PROVE  Release(id) \notin Elements(x2[<<LteCell, cell>>])
<1>1. /\ Links(x2) /\ x2[<<LteCell, cell>>] # <<>>
      /\ Head(x2[<<LteCell, cell>>]).type = "McHandoverRequest"
      /\ \A l \in Interfaces : InOrder(x2[l])
  BY DEF Undisturbed, McInv, Shapes, Arrived, Course, X2Course
<1>2. <<LteCell, cell>> \in Interfaces
  BY InterfaceOfCells
<1>3. /\ Elements(x2[<<LteCell, cell>>])
           = Elements(Received(x2, LteCell, cell)[<<LteCell, cell>>]) \cup {Head(x2[<<LteCell, cell>>])}
      /\ \A m \in Elements(Received(x2, LteCell, cell)[<<LteCell, cell>>]) :
             MayPrecede(Head(x2[<<LteCell, cell>>]), m)
  BY <1>1, <1>2, ReceivedElements
<1>4. Release(id).type = "UeContextRelease"
  BY DEF Release
<1>5. QED
  BY <1>1, <1>3, <1>4 DEF MayPrecede

\* The request meets the context of the UE, which goes into preparation.
LEMMA RecvMcHandoverRequestCourse ==
    ASSUME Undisturbed, NEW cell \in Cells, RecvMcHandoverRequest(cell), AtCells
    PROVE  Course'
<1> DEFINE id == imsiRnti[cell]
           target == Oldest(LteCell, cell).target
           new == [ctx[id] EXCEPT !.state = "Preparation", !.target = target, !.requests = FALSE]
<1>1. McInv /\ TypeInv /\ Course
  BY DEF Undisturbed
<1>2. PICK to, request :
      /\ to = target
      /\ request = [type |-> "HandoverRequest", source |-> id, rlc |-> ctx[id].requests]
      /\ Arrived(LteCell, cell, "McHandoverRequest") /\ id \in DOMAIN ctx
      /\ ctx' = [ctx EXCEPT ![id] = new]
      /\ x2' = Sent(Received(x2, LteCell, cell), cell, to, request)
      /\ UNCHANGED <<imsiRnti, forwarding, commands, completes, mishaps>>
  BY DEF RecvMcHandoverRequest, InState, Found
<1>3. <<LteCell, cell>> \in Interfaces /\ "McHandoverRequest" \in TokenTypes
  BY InterfaceOfCells DEF TokenTypes, HandoverTypes
<1>4. /\ Oldest(LteCell, cell).type = "McHandoverRequest"
      /\ TokenCourse(<<LteCell, cell>>, Oldest(LteCell, cell))
      /\ Oldest(LteCell, cell) \in InTransit(x2)
      /\ ~setup /\ ~allInOutage /\ RrcFree
      /\ Aside(Received(x2, LteCell, cell))
      /\ \A l \in Interfaces : \A k :
             Release(k) \in Elements(x2[l]) => Release(k) \in Elements(Received(x2, LteCell, cell)[l])
  BY <1>2, <1>3, TokenCourseArrives
<1>5. target \in Cells
  BY <1>1, <1>4 DEF TypeInv, MessagesTyped, X2Typed
<1>6. Settled /\ lastCell = mmWaveCell /\ cell = lastCell
  BY <1>4 DEF TokenCourse
<1>7. /\ id = mmWaveRnti /\ UeAt(mmWaveRnti) /\ InState(cell, id, "Connected")
      /\ ctx[id].state = "Connected" /\ ctx[id].cell = cell /\ ctx[id].requests
  BY <1>6 DEF Settled, Resides, InState, Found
<1>8. ctx[id] \in Context /\ ~ctx[id].expired
  BY <1>1, <1>2, ContextFacts DEF Course, LeavingCourse
<1>9. /\ new \in Context /\ new.rlc = ctx[id].rlc /\ new.state = "Preparation"
      /\ new.cell = cell /\ ~new.expired
  BY <1>5, <1>7, <1>8 DEF Context, States
<1>10. forwarding[cell] = 0
  <2>1. ASSUME NEW k \in DOMAIN ctx, InState(cell, k, "Leaving") PROVE FALSE
    <3>1. k # mmWaveRnti /\ ctx[k].state = "Leaving" /\ ctx[k].cell = cell
      BY <1>7, <2>1 DEF InState, Found
    <3>2. Release(k) \in Elements(x2[<<LteCell, cell>>])
      BY <1>1, <3>1 DEF Course, LeavingCourse
    <3>3. QED
      BY <1>2, <3>2, NoReleaseBehind
  <2>2. QED
    BY <1>1, <2>1 DEF Course, LeavingCourse
<1>11. PICK T : T = Received(x2, LteCell, cell)
  OBVIOUS
<1>12. request.type = "HandoverRequest" /\ request.source = mmWaveRnti /\ request.rlc
  BY <1>2, <1>7
<1> HIDE DEF id, new, target
<1>13. /\ DOMAIN ctx' = DOMAIN ctx /\ ctx'[id] = new
       /\ \A k \in DOMAIN ctx : k # id => ctx'[k] = ctx[k]
  BY <1>1, <1>2, <1>9, ContextChanges
<1>14. Evolves
  BY <1>1, <1>2, <1>7, <1>9, <1>13, OneEvolves
<1>15. Source("Preparation")' /\ UeAt(mmWaveRnti)' /\ forwarding'[lastCell'] = 0
  BY <1>2, <1>6, <1>7, <1>9, <1>10, <1>13, HereAtCells DEF Source, InState, Found, UeAt
<1>16. request.type \in TokenTypes /\ TokenCourse(<<cell, to>>, request)'
  <2>1. request.source = mmWaveRnti' /\ cell = lastCell'
    BY <1>6, <1>12, HereAtCells
  <2>2. QED
    BY <1>12, <1>15, <2>1 DEF TokenCourse, TokenTypes, HandoverTypes
<1>17. RrcFree'
  BY <1>1, <1>2, <1>4, FreeAtCells
<1>18. \A k \in DOMAIN ctx' : ~ctx'[k].expired /\ (k \in DOMAIN ctx \/ ctx'[k].state # "Leaving")
  BY <1>1, <1>9, <1>13 DEF Course, LeavingCourse
<1>19. QED
  BY <1>2, <1>4, <1>11, <1>14, <1>16, <1>17, <1>18, PassedOn

\* The target makes the context that the UE will go to.
LEMMA AdmitHandoverCourse ==
    ASSUME Undisturbed, NEW cell \in Cells, NEW source \in Cells \ {cell},
           AdmitHandover(source, cell), AtCells
    PROVE  Course'
<1> DEFINE new == NewContext(cell, "Joining", Oldest(source, cell).source, Oldest(source, cell).rlc)
<1>1. McInv /\ TypeInv /\ Course
  BY DEF Undisturbed
<1>2. PICK id, ack :
      /\ id = Len(ctx) + 1
      /\ ack = [type |-> "HandoverRequestAck", source |-> Oldest(source, cell).source, new |-> id]
      /\ Arrived(source, cell, "HandoverRequest")
      /\ ctx' = Append(ctx, new) /\ imsiRnti' = [imsiRnti EXCEPT ![cell] = id]
      /\ x2' = Sent(Received(x2, source, cell), cell, source, ack)
      /\ UNCHANGED <<forwarding, commands, completes, mishaps>>
  BY DEF AdmitHandover
<1>3. <<source, cell>> \in Interfaces /\ "HandoverRequest" \in TokenTypes
  BY InterfaceOfCells DEF TokenTypes, HandoverTypes
<1>4. /\ Oldest(source, cell).type = "HandoverRequest"
      /\ TokenCourse(<<source, cell>>, Oldest(source, cell))
      /\ Oldest(source, cell) \in InTransit(x2)
      /\ ~setup /\ ~allInOutage /\ RrcFree
      /\ Aside(Received(x2, source, cell))
      /\ \A l \in Interfaces : \A k :
             Release(k) \in Elements(x2[l]) => Release(k) \in Elements(Received(x2, source, cell)[l])
  BY <1>2, <1>3, TokenCourseArrives
<1>5. /\ Oldest(source, cell).source \in Contexts /\ Oldest(source, cell).rlc \in BOOLEAN
  BY <1>1, <1>4 DEF TypeInv, MessagesTyped, X2Typed
<1>6. /\ Source("Preparation") /\ UeAt(mmWaveRnti) /\ forwarding[lastCell] = 0
      /\ source = lastCell /\ Oldest(source, cell).source = mmWaveRnti /\ Oldest(source, cell).rlc
  BY <1>4 DEF TokenCourse
<1>7. Oldest(source, cell).source \in Nat
  BY <1>5 DEF Contexts
<1>8. /\ new \in Context /\ new.rlc /\ new.requests /\ new.state = "Joining"
      /\ new.cell = cell /\ ~new.expired /\ new.source = mmWaveRnti
  BY <1>5, <1>6, <1>7 DEF Context, States, NewContext
<1>9. PICK T : T = Received(x2, source, cell)
  OBVIOUS
<1>10. ack.type = "HandoverRequestAck" /\ ack.source = mmWaveRnti /\ ack.new = id
  BY <1>2, <1>6
<1> HIDE DEF new
<1>11. /\ DOMAIN ctx' = DOMAIN ctx \cup {id} /\ ctx'[id] = new
       /\ \A k \in DOMAIN ctx : ctx'[k] = ctx[k]
  BY <1>1, <1>2, <1>8, ContextIsAdded
<1>12. Evolves
  BY <1>11 DEF Evolves
<1>13. Source("Preparation")' /\ UeAt(mmWaveRnti)' /\ forwarding'[lastCell'] = 0
  BY <1>2, <1>6, <1>11, HereAtCells DEF Source, InState, Found, UeAt
<1>14. NewHome(cell, id, "Joining")'
  <2>1. imsiRnti'[cell] = id
    BY <1>1, <1>2 DEF TypeInv, CellsTyped
  <2>2. cell # lastCell' /\ mmWaveRnti' = mmWaveRnti
    BY <1>6, HereAtCells
  <2>3. QED
    BY <1>8, <1>11, <2>1, <2>2 DEF NewHome, InState, Found
<1>15. ack.type \in TokenTypes /\ TokenCourse(<<cell, source>>, ack)'
  <2>1. ack.source = mmWaveRnti' /\ source = lastCell'
    BY <1>6, <1>10, HereAtCells
  <2>2. QED
    BY <1>10, <1>13, <1>14, <2>1 DEF TokenCourse, TokenTypes, HandoverTypes
<1>16. RrcFree'
  BY <1>1, <1>2, <1>4, FreeAtCells
<1>17. \A k \in DOMAIN ctx' : ~ctx'[k].expired /\ (k \in DOMAIN ctx \/ ctx'[k].state # "Leaving")
  BY <1>1, <1>8, <1>11 DEF Course, LeavingCourse
<1>18. QED
  BY <1>2, <1>4, <1>9, <1>12, <1>15, <1>16, <1>17, PassedOn

\* The UE has reached the target, which tells the coordinator.
LEMMA RecvReconfigurationCompleteCourse ==
    ASSUME Undisturbed, NEW id \in DOMAIN ctx, RecvReconfigurationComplete(id), AtCells
    PROVE  Course'
<1>1. McInv /\ TypeInv /\ Course
  BY DEF Undisturbed
<1>2. PICK cell, done :
      /\ cell = ctx[id].cell
      /\ done = [type |-> "SecondaryCellHandoverCompleted", rnti |-> id, source |-> ctx[id].source]
      /\ id \in completes /\ ctx[id].state = "Joining"
      /\ ctx' = [ctx EXCEPT ![id].state = "Connected"]
      /\ completes' = completes \ {id}
      /\ x2' = Sent(x2, cell, LteCell, done)
      /\ UNCHANGED <<imsiRnti, forwarding, commands, mishaps>>
  BY DEF RecvReconfigurationComplete
<1>3. TokenAt("complete") /\ ~setup /\ ~allInOutage
  BY <1>1, <1>2, TokenElsewhere DEF Places
<1>4. Moving(id)
  BY <1>1, <1>2 DEF Course, RrcCourse
<1>5. /\ UeAt(id) /\ Source("Leaving") /\ InState(cell, id, "Joining") /\ cell # lastCell
      /\ imsiRnti[cell] = id /\ ctx[id].source = mmWaveRnti /\ ctx[id].rlc /\ ctx[id].requests
  BY <1>2, <1>4 DEF Moving, NewHome
<1>6. done.type = "SecondaryCellHandoverCompleted" /\ done.rnti = id /\ done.source = mmWaveRnti
  BY <1>2, <1>5
<1>7. ctx[id] \in Context /\ ~ctx[id].expired
  BY <1>1, ContextFacts DEF Course, LeavingCourse
<1>8. /\ DOMAIN ctx' = DOMAIN ctx /\ ctx'[id] = [ctx[id] EXCEPT !.state = "Connected"]
      /\ ctx'[id].state = "Connected"
      /\ \A k \in DOMAIN ctx : k # id => ctx'[k] = ctx[k]
  <2>1. "Connected" \in States
    BY DEF States
  <2>2. QED
    BY <1>1, <1>2, <2>1, StateChanges
<1>9. /\ ctx'[id].cell = ctx[id].cell /\ ctx'[id].rlc = ctx[id].rlc /\ ctx'[id].source = ctx[id].source
      /\ ctx'[id].requests = ctx[id].requests /\ ctx'[id].expired = ctx[id].expired
  BY <1>7, <1>8 DEF Context
<1>10. Evolves
  BY <1>1, <1>2, <1>8, <1>9, OneEvolves
<1>11. id # mmWaveRnti
  BY <1>5 DEF Source, InState
<1>12. Source("Leaving")' /\ UeAt(id)'
  BY <1>5, <1>8, <1>11, HereAtCells DEF Source, InState, Found, UeAt
<1>13. NewHome(cell, id, "Connected")'
  BY <1>2, <1>5, <1>8, <1>9, HereAtCells DEF NewHome, InState, Found
<1>14. done.type \in TokenTypes /\ TokenCourse(<<cell, LteCell>>, done)'
  <2>1. done.source = mmWaveRnti'
    BY <1>6, HereAtCells
  <2>2. QED
    BY <1>6, <1>12, <1>13, <2>1 DEF TokenCourse, TokenTypes, HandoverTypes
<1>15. X2Free(x2) /\ RrcFree'
  <2>1. X2Free(x2) /\ commands' = {} /\ completes' = {} /\ ueState # "Handover"
        /\ FreeIn(lteDl, DlTypes) /\ FreeIn(lteUl, UlTypes)
    BY <1>2, <1>3 DEF TokenAt
  <2>2. QED
    BY <1>1, <2>1, AtCellsFrame DEF RrcFree
<1>16. \A k \in DOMAIN ctx' : ~ctx'[k].expired /\ (k \in DOMAIN ctx \/ ctx'[k].state # "Leaving")
  BY <1>1, <1>7, <1>8, <1>9 DEF Course, LeavingCourse
<1>17. PICK T : T = x2
  OBVIOUS
<1>18. Aside(T) /\ x2' = Sent(T, cell, LteCell, done)
  BY <1>2, <1>15, <1>17, AsideOfFree
<1>19. QED
  BY <1>2, <1>3, <1>10, <1>14, <1>15, <1>16, <1>17, <1>18, PassedOn

---------------------------------------------------------------------------
(***************************************************************************)
(* Steps that take no procedure further.                                   *)
(***************************************************************************)

\* What serves the UE and where it goes stay as they are: only contexts that
\* have been left may change.
Keeps ==
    /\ UNCHANGED <<lastCell, mmWaveCell, mmWaveRnti, bearerIsMc, ueRnti, ueMmWaveRnti, imsiRnti>>
    /\ \A cell \in Cells : forwarding[cell] = 0 => forwarding'[cell] = 0
    /\ \A k \in DOMAIN ctx :
           /\ k \in DOMAIN ctx'
           /\ k = mmWaveRnti \/ ctx[k].state # "Leaving" =>
                  /\ ctx'[k].cell = ctx[k].cell /\ ctx'[k].state = ctx[k].state
                  /\ ctx'[k].source = ctx[k].source
                  /\ ctx'[k].rlc = ctx[k].rlc /\ ctx'[k].requests = ctx[k].requests

\* Then what is said of the places of the UE holds on ...
LEMMA KeepsPlaces ==
    ASSUME Keeps
    PROVE  /\ \A cell, id : Resides(cell, id) => Resides(cell, id)'
           /\ Settled => Settled'
           /\ \A state : Source(state) => Source(state)'
           /\ \A cell, id, state : NewHome(cell, id, state) /\ state # "Leaving" => NewHome(cell, id, state)'
           /\ \A id : Moving(id) => Moving(id)'
           /\ \A id : UeAt(id) => UeAt(id)'
<1>1. \A id : UeAt(id) => UeAt(id)'
  BY DEF Keeps, UeAt
<1>2. \A cell, id : Resides(cell, id) => Resides(cell, id)'
  BY DEF Keeps, UeAt, Resides, InState, Found
<1>3. Settled => Settled'
  BY DEF Keeps, UeAt, Settled, Resides, InState, Found
<1>4. \A state : Source(state) => Source(state)'
  BY DEF Keeps, Source, InState, Found
<1>5. \A cell, id, state : NewHome(cell, id, state) /\ state # "Leaving" => NewHome(cell, id, state)'
  BY DEF Keeps, NewHome, InState, Found
<1>6. ASSUME NEW id, Moving(id) PROVE Moving(id)'
  <2>1. ctx'[id].cell = ctx[id].cell
    BY <1>6 DEF Moving, NewHome, InState, Found, Keeps
  <2>2. PICK home : home = ctx[id].cell
    OBVIOUS
  <2>3. Source("Leaving")' /\ NewHome(home, id, "Joining")' /\ UeAt(id)'
    BY <1>1, <1>4, <1>5, <1>6, <2>2 DEF Moving
  <2>4. QED
    BY <2>1, <2>2, <2>3 DEF Moving, NewHome, InState, Found
<1>7. QED
  BY <1>1, <1>2, <1>3, <1>4, <1>5, <1>6

\* ... and so does what a message of a procedure says ...
LEMMA KeepsToken ==
    ASSUME TypeInv, Keeps, NEW l, NEW msg, TokenCourse(l, msg)
    PROVE  TokenCourse(l, msg)'
<1>1. UNCHANGED <<lastCell, mmWaveCell, mmWaveRnti, bearerIsMc>>
  BY DEF Keeps
<1>2. ASSUME NEW state, Source(state), forwarding[lastCell] = 0
      PROVE  forwarding'[lastCell'] = 0
  <2>1. lastCell \in Cells
    BY <1>2, ContextFacts DEF Source, InState, Found
  <2>2. QED
    BY <1>1, <1>2, <2>1 DEF Keeps
<1>3. QED
  BY <1>1, <1>2, KeepsPlaces DEF TokenCourse

\* ... and what the UE and RRC say.
LEMMA KeepsRrc ==
    ASSUME TypeInv, Keeps, RrcCourse,
           \A m \in Elements(lteDl') : m \in Elements(lteDl) \/ m.type \notin DlTypes,
           Elements(lteUl') \subseteq Elements(lteUl),
           commands' \subseteq commands, completes' \subseteq completes,
           ueState' = "Handover" => ueState = "Handover" /\ handoverTo' = handoverTo
    PROVE  RrcCourse'
<1>1. bearerIsMc' = bearerIsMc /\ mmWaveRnti' = mmWaveRnti
  BY DEF Keeps
<1>2. ASSUME NEW m \in Elements(lteDl') PROVE DlCourse(m)'
  <2>1. CASE m \in Elements(lteDl)
    BY <1>1, <2>1, KeepsPlaces DEF RrcCourse, DlCourse
  <2>2. CASE m.type \notin DlTypes
    BY <2>2 DEF DlCourse, DlTypes
  <2>3. QED
    BY <2>1, <2>2
<1>3. ASSUME NEW m \in Elements(lteUl') PROVE UlCourse(m)'
  BY <1>1, KeepsPlaces DEF RrcCourse, UlCourse
<1>4. ASSUME NEW command \in commands'
      PROVE  /\ command.from = mmWaveRnti' /\ UeAt(mmWaveRnti)' /\ Source("Leaving")'
             /\ NewHome(ctx[command.to].cell, command.to, "Joining")'
  <2>1. /\ command.from = mmWaveRnti /\ UeAt(mmWaveRnti) /\ Source("Leaving")
        /\ NewHome(ctx[command.to].cell, command.to, "Joining")
    BY DEF RrcCourse
  <2>2. /\ command.from = mmWaveRnti' /\ UeAt(mmWaveRnti)' /\ Source("Leaving")'
        /\ NewHome(ctx[command.to].cell, command.to, "Joining")'
    <3>1. ctx'[command.to].cell = ctx[command.to].cell
      BY <2>1 DEF NewHome, InState, Found, Keeps
    <3>2. PICK home : home = ctx[command.to].cell
      OBVIOUS
    <3>3. NewHome(home, command.to, "Joining")'
      BY <2>1, <3>2, KeepsPlaces
    <3>4. NewHome(ctx[command.to].cell, command.to, "Joining")'
      BY <3>1, <3>2, <3>3 DEF NewHome, InState, Found
    <3>5. UeAt(mmWaveRnti)'
      BY <1>1, <2>1 DEF Keeps, UeAt
    <3>6. QED
      BY <1>1, <2>1, <3>4, <3>5, KeepsPlaces
  <2>3. QED
    BY <2>2
<1>5. (ueState' = "Handover" => Moving(handoverTo)') /\ \A id \in completes' : Moving(id)'
  BY KeepsPlaces DEF RrcCourse, Moving, UeAt, NewHome, InState, Found
<1>6. QED
  BY <1>2, <1>3, <1>4, <1>5 DEF RrcCourse

\* A step that keeps them, and keeps what is aside and what leaves, keeps the course.
LEMMA Kept ==
    ASSUME Undisturbed, Keeps, setup' => setup, allInOutage' => allInOutage,
           \A m \in Elements(lteDl') : m \in Elements(lteDl) \/ m.type \notin DlTypes,
           Elements(lteUl') \subseteq Elements(lteUl),
           commands' \subseteq commands, completes' \subseteq completes,
           ueState' = "Handover" => ueState = "Handover" /\ handoverTo' = handoverTo,
           \A l \in Interfaces : \A m \in Elements(x2'[l]) :
               SideCourse(l, m)' /\ (m \in Elements(x2[l]) \/ m.type \notin TokenTypes),
           \A l \in Interfaces : InOrder(x2'[l]),
           LeavingCourse'
    PROVE  Course'
<1>1. TypeInv /\ Course
  BY DEF Undisturbed
<1>2. X2Course'
  <2>1. ASSUME NEW l \in Interfaces, NEW m \in Elements(x2'[l]) PROVE TokenCourse(l, m)'
    <3>1. CASE m \in Elements(x2[l])
      BY <1>1, <3>1, KeepsToken DEF Course, X2Course
    <3>2. CASE m.type \notin TokenTypes
      BY <3>2 DEF TokenCourse, TokenTypes, HandoverTypes
    <3>3. QED
      BY <3>1, <3>2
  <2>2. QED
    BY <2>1 DEF X2Course
<1>3. RrcCourse'
  BY <1>1, KeepsRrc DEF Course
<1>4. ServingCourse'
  <2>1. setup' => Settled' /\ lastCell' = mmWaveCell'
    BY <1>1, KeepsPlaces DEF Course, ServingCourse, Keeps
  <2>2. allInOutage' => ~bearerIsMc'
    BY <1>1 DEF Course, ServingCourse, Keeps
  <2>3. bearerIsMc' => Found(mmWaveCell, mmWaveRnti)' /\ ctx'[mmWaveRnti'].rlc
    BY <1>1 DEF Course, ServingCourse, Keeps, Found
  <2>4. QED
    BY <2>1, <2>2, <2>3 DEF ServingCourse
<1>5. QED
  BY <1>2, <1>3, <1>4 DEF Course

\* In particular if no context starts or ends to leave.
LEMMA KeptEvolving ==
    ASSUME Undisturbed, Keeps, setup' => setup, allInOutage' => allInOutage,
           \A m \in Elements(lteDl') : m \in Elements(lteDl) \/ m.type \notin DlTypes,
           Elements(lteUl') \subseteq Elements(lteUl),
           commands' \subseteq commands, completes' \subseteq completes,
           ueState' = "Handover" => ueState = "Handover" /\ handoverTo' = handoverTo,
           Evolves, UNCHANGED forwarding,
           \A k \in DOMAIN ctx' : ~ctx'[k].expired /\ (k \in DOMAIN ctx \/ ctx'[k].state # "Leaving"),
           \A l \in Interfaces : \A m \in Elements(x2'[l]) :
               m \in Elements(x2[l]) \/ (m.type \notin TokenTypes /\ SideCourse(l, m)),
           \A l \in Interfaces : InOrder(x2'[l]),
           \A l \in Interfaces : \A id :
               Release(id) \in Elements(x2[l]) => Release(id) \in Elements(x2'[l])
    PROVE  Course'
<1>1. TypeInv /\ Course
  BY DEF Undisturbed
<1>2. mmWaveRnti' = mmWaveRnti /\ bearerIsMc' = bearerIsMc
  BY DEF Keeps
<1>3. LeavingCourse'
  BY <1>1, <1>2, ContextFacts, LeavingFrame DEF Course
<1>4. ASSUME NEW l \in Interfaces, NEW m \in Elements(x2'[l])
      PROVE  SideCourse(l, m)' /\ (m \in Elements(x2[l]) \/ m.type \notin TokenTypes)
  <2>1. SideCourse(l, m)
    BY <1>1, <1>4 DEF Course, X2Course
  <2>2. SideCourse(l, m)'
    BY <1>2, <2>1, SideFrame
  <2>3. QED
    BY <2>2
<1>5. QED
  BY <1>3, <1>4, Kept

\* A message that belongs to no procedure and is no release has been taken.
LEMMA SideTaken ==
    ASSUME Undisturbed, NEW from, NEW to, <<from, to>> \in Interfaces,
           NEW type, type # "UeContextRelease", Arrived(from, to, type),
           x2' = Received(x2, from, to)
    PROVE  /\ \A l \in Interfaces : InOrder(x2'[l]) /\ Elements(x2'[l]) \subseteq Elements(x2[l])
           /\ \A l \in Interfaces : \A id :
                  Release(id) \in Elements(x2[l]) => Release(id) \in Elements(x2'[l])
<1>1. /\ Links(x2) /\ x2[<<from, to>>] # <<>> /\ Head(x2[<<from, to>>]).type = type
      /\ \A l \in Interfaces : InOrder(x2[l])
  BY DEF Undisturbed, McInv, Shapes, Arrived, Course, X2Course
<1>2. /\ \A l \in Interfaces : l # <<from, to>> => x2'[l] = x2[l]
      /\ Elements(x2[<<from, to>>]) = Elements(x2'[<<from, to>>]) \cup {Head(x2[<<from, to>>])}
      /\ \A l \in Interfaces : InOrder(x2'[l])
  BY <1>1, ReceivedElements
<1>3. \A id : Release(id).type = "UeContextRelease"
  BY DEF Release
<1>4. \A l \in Interfaces : Elements(x2'[l]) \subseteq Elements(x2[l])
  BY <1>2
<1>5. ASSUME NEW l \in Interfaces, NEW id, Release(id) \in Elements(x2[l])
      PROVE  Release(id) \in Elements(x2'[l])
  <2>1. Release(id) # Head(x2[<<from, to>>])
    BY <1>1, <1>3
  <2>2. QED
    BY <1>2, <1>5, <2>1
<1>6. QED
  BY <1>2, <1>4, <1>5

\* The UE has fallen back to LTE, and a context is told.
LEMMA RecvSwitchConnectionCourse ==
    ASSUME Undisturbed, NEW cell \in Cells, RecvSwitchConnection(cell), AtCells
    PROVE  Course'
<1> DEFINE id == Oldest(LteCell, cell).rnti
           new == [ctx[id] EXCEPT !.target = LteCell]
<1>1. McInv /\ TypeInv /\ Course
  BY DEF Undisturbed
<1>2. /\ Arrived(LteCell, cell, "SwitchConnection") /\ id \in DOMAIN ctx
      /\ ctx' = [ctx EXCEPT ![id] = new]
      /\ x2' = Received(x2, LteCell, cell)
      /\ UNCHANGED <<imsiRnti, forwarding, commands, completes, mishaps>>
  BY DEF RecvSwitchConnection, Found
<1>3. ctx[id] \in Context
  BY <1>1, <1>2, ContextFacts
<1>4. /\ new \in Context /\ new.cell = ctx[id].cell /\ new.state = ctx[id].state
      /\ new.source = ctx[id].source /\ new.rlc = ctx[id].rlc
      /\ new.requests = ctx[id].requests /\ new.expired = ctx[id].expired
  BY <1>3 DEF Context
<1> HIDE DEF id, new
<1>5. /\ DOMAIN ctx' = DOMAIN ctx /\ ctx'[id] = new
      /\ \A k \in DOMAIN ctx : k # id => ctx'[k] = ctx[k]
  BY <1>1, <1>2, <1>4, ContextChanges
<1>6. Evolves
  BY <1>1, <1>2, <1>4, <1>5, OneEvolves
<1>7. Keeps
  BY <1>2, <1>4, <1>5, HereAtCells DEF Keeps
<1>8. \A k \in DOMAIN ctx' : ~ctx'[k].expired /\ (k \in DOMAIN ctx \/ ctx'[k].state # "Leaving")
  BY <1>1, <1>2, <1>4, <1>5 DEF Course, LeavingCourse
<1>9. UNCHANGED <<setup, allInOutage, lteDl, lteUl, ueState, handoverTo>>
  BY <1>1, AtCellsFrame
<1>10. <<LteCell, cell>> \in Interfaces
  BY InterfaceOfCells
<1>11. /\ \A l \in Interfaces : InOrder(x2'[l]) /\ Elements(x2'[l]) \subseteq Elements(x2[l])
       /\ \A l \in Interfaces : \A k :
              Release(k) \in Elements(x2[l]) => Release(k) \in Elements(x2'[l])
  BY <1>2, <1>10, SideTaken
<1>12. QED
  BY <1>2, <1>6, <1>7, <1>8, <1>9, <1>11, KeptEvolving

\* The context that the UE has left is released.
LEMMA RecvUeContextReleaseCourse ==
    ASSUME Undisturbed, NEW cell \in Cells, RecvUeContextRelease(cell), AtCells
    PROVE  Course'
<1> DEFINE here == <<LteCell, cell>>
           head == Oldest(LteCell, cell)
           id == head.rnti
<1>1. McInv /\ TypeInv /\ Course /\ Links(x2)
  BY DEF Undisturbed, McInv, Shapes
<1>2. /\ x2[here] # <<>> /\ head = Head(x2[here]) /\ head.type = "UeContextRelease"
      /\ InState(cell, id, "Leaving") /\ id \in DOMAIN ctx
      /\ ctx' = [ctx EXCEPT ![id].state = "Removed"]
      /\ forwarding' = [forwarding EXCEPT ![cell] = 0]
      /\ x2' = Received(x2, LteCell, cell)
      /\ UNCHANGED <<imsiRnti, commands, completes, mishaps>>
  BY DEF RecvUeContextRelease, StopForwarding, Arrived, Oldest, InState, Found
<1>3. here \in Interfaces
  BY InterfaceOfCells
<1>4. /\ \A l \in Interfaces : l # here => x2'[l] = x2[l]
      /\ Elements(x2[here]) = Elements(x2'[here]) \cup {head}
      /\ (\A l \in Interfaces : InOrder(x2[l])) =>
            /\ \A l \in Interfaces : InOrder(x2'[l])
            /\ \A m \in Elements(x2'[here]) : MayPrecede(head, m)
  <2>1. /\ <<LteCell, cell>> \in Interfaces /\ x2[<<LteCell, cell>>] # <<>>
        /\ Links(x2) /\ x2' = Received(x2, LteCell, cell)
    BY <1>1, <1>2, <1>3
  <2> HIDE DEF head
  <2>2. /\ \A l \in Interfaces : l # <<LteCell, cell>> => x2'[l] = x2[l]
        /\ Elements(x2[<<LteCell, cell>>])
             = Elements(x2'[<<LteCell, cell>>]) \cup {Head(x2[<<LteCell, cell>>])}
        /\ (\A l \in Interfaces : InOrder(x2[l])) =>
              /\ \A l \in Interfaces : InOrder(x2'[l])
              /\ \A m \in Elements(x2'[<<LteCell, cell>>]) : MayPrecede(Head(x2[<<LteCell, cell>>]), m)
    BY <2>1, ReceivedElements
  <2>3. QED
    BY <1>2, <2>2
<1>5. UNCHANGED <<setup, allInOutage, lteDl, lteUl, ueState, handoverTo, mmWaveRnti, bearerIsMc>>
  BY <1>1, AtCellsFrame
<1>6. \A l \in Interfaces : l = <<l[1], l[2]>>
  BY DEF Interfaces
<1> HIDE DEF here
<1>7. /\ \A l \in Interfaces : InOrder(x2'[l]) /\ Elements(x2'[l]) \subseteq Elements(x2[l])
      /\ \A m \in Elements(x2'[here]) : MayPrecede(head, m)
  BY <1>1, <1>4 DEF Course, X2Course
<1>8. id # mmWaveRnti
  <2>1. SideCourse(here, head)
    BY <1>1, <1>3, <1>4 DEF Course, X2Course
  <2>2. QED
    BY <1>2, <2>1 DEF SideCourse
<1> HIDE DEF head
<1>9. /\ DOMAIN ctx' = DOMAIN ctx /\ ctx'[id].state = "Removed"
      /\ \A k \in DOMAIN ctx : k # id => ctx'[k] = ctx[k]
      /\ ctx'[id] = [ctx[id] EXCEPT !.state = "Removed"]
  <2>1. "Removed" \in States
    BY DEF States
  <2> HIDE DEF id
  <2>2. QED
    BY <1>1, <1>2, <2>1, StateChanges
<1>10. ctx[id].state = "Leaving" /\ ctx[id].cell = cell
  BY <1>2 DEF InState, Found
<1>11. /\ forwarding'[cell] = 0
       /\ \A c \in Cells : c # cell => forwarding'[c] = forwarding[c]
  BY <1>1, <1>2 DEF TypeInv, CellsTyped
<1>12. ctx'[id].expired = ctx[id].expired
  <2>1. ctx[id] \in Context
    BY <1>1, <1>2, ContextFacts
  <2>2. QED
    BY <1>9, <2>1 DEF Context
<1> HIDE DEF id
<1>13. Keeps
  BY <1>2, <1>8, <1>9, <1>10, <1>11, HereAtCells DEF Keeps
<1>14. ASSUME NEW l \in Interfaces, NEW m \in Elements(x2'[l])
       PROVE  SideCourse(l, m)'
  <2>1. SideCourse(l, m)
    BY <1>1, <1>7, <1>14 DEF Course, X2Course
  <2>2. CASE l = here
    <3>1. l[1] = LteCell /\ l[2] = cell
      BY <2>2 DEF here
    <3>2. MayPrecede(head, m)
      BY <1>7, <1>14, <2>2
    <3>3. m.type # "UeContextRelease" /\ (m.type = "SwitchConnection" => m.rnti # id)
      BY <1>2, <3>2 DEF MayPrecede, id
    <3>4. QED
      BY <1>9, <2>1, <3>1, <3>3 DEF SideCourse, Found
  <2>3. CASE l # here
    <3>1. l[1] = LteCell => l[2] # cell
      BY <1>6, <2>3 DEF here
    <3>2. QED
      BY <1>5, <1>9, <1>10, <2>1, <3>1 DEF SideCourse, InState, Found
  <2>4. QED
    BY <2>2, <2>3
<1>15. LeavingCourse'
  <2>1. LeavingCourse
    BY <1>1 DEF Course
  <2>2. \A k \in DOMAIN ctx' : ~ctx'[k].expired
    BY <1>9, <1>12, <2>1 DEF LeavingCourse
  <2>3. \A k \in DOMAIN ctx' : ctx'[k].state = "Leaving" =>
            /\ k # id /\ ctx'[k] = ctx[k] /\ ctx[k].cell # cell
            /\ ctx[k].cell \in Cells /\ <<LteCell, ctx[k].cell>> \in Interfaces
    BY <1>1, <1>2, <1>9, <1>10, <2>1, ContextFacts DEF LeavingCourse
  <2>4. ASSUME NEW k \in DOMAIN ctx', ctx'[k].state = "Leaving"
        PROVE  /\ bearerIsMc' /\ forwarding'[ctx'[k].cell] # 0
               /\ k = mmWaveRnti' \/ Release(k) \in Elements(x2'[<<LteCell, ctx'[k].cell>>])
    <3>1. /\ ctx'[k] = ctx[k] /\ ctx[k].cell # cell /\ ctx[k].cell \in Cells
          /\ <<LteCell, ctx[k].cell>> \in Interfaces
      BY <2>3, <2>4
    <3>2. /\ bearerIsMc /\ forwarding[ctx[k].cell] # 0
          /\ k = mmWaveRnti \/ Release(k) \in Elements(x2[<<LteCell, ctx[k].cell>>])
      BY <1>9, <2>1, <2>4, <3>1 DEF LeavingCourse
    <3>3. x2'[<<LteCell, ctx[k].cell>>] = x2[<<LteCell, ctx[k].cell>>]
      BY <1>4, <3>1 DEF here
    <3>4. QED
      BY <1>5, <1>11, <3>1, <3>2, <3>3
  <2>5. \A i, j \in DOMAIN ctx' :
            ctx'[i].state = "Leaving" /\ ctx'[j].state = "Leaving" /\ ctx'[i].cell = ctx'[j].cell => i = j
    BY <1>9, <2>1, <2>3 DEF LeavingCourse
  <2>6. ASSUME NEW c \in Cells, forwarding'[c] # 0
        PROVE  \E k \in DOMAIN ctx' : InState(c, k, "Leaving")'
    <3>1. c # cell /\ forwarding[c] # 0
      BY <1>11, <2>6
    <3>2. PICK k \in DOMAIN ctx : InState(c, k, "Leaving")
      BY <2>1, <3>1 DEF LeavingCourse
    <3>3. k # id /\ ctx'[k] = ctx[k]
      BY <1>9, <1>10, <3>1, <3>2 DEF InState, Found
    <3>4. QED
      BY <1>9, <3>2, <3>3 DEF InState, Found
  <2>7. QED
    BY <2>2, <2>4, <2>5, <2>6 DEF LeavingCourse, Release
<1>16. QED
  BY <1>2, <1>5, <1>7, <1>13, <1>14, <1>15, Kept

---------------------------------------------------------------------------
(***************************************************************************)
(* The decisions of the coordinator.                                       *)
(***************************************************************************)

\* What a decision leaves alone.
Deciding == UNCHANGED <<contextVars, ueVars, lastCell, secondary>>

\* A decision does.
LEMMA DecidingKeeps ==
    ASSUME Undisturbed, Deciding
    PROVE  /\ Keeps /\ Evolves
           /\ UNCHANGED <<ctx, imsiRnti, forwarding, commands, completes, mishaps,
                          ueState, ueRnti, ueMmWaveRnti, handoverTo, lteUl,
                          lastCell, reconfiguring, bearerIsMc, mmWaveCell, mmWaveRnti>>
           /\ \A k \in DOMAIN ctx' : ~ctx'[k].expired /\ (k \in DOMAIN ctx \/ ctx'[k].state # "Leaving")
<1>1. UNCHANGED <<ctx, imsiRnti, forwarding, commands, completes, mishaps,
                  ueState, ueRnti, ueMmWaveRnti, handoverTo, lteUl,
                  lastCell, reconfiguring, bearerIsMc, mmWaveCell, mmWaveRnti>>
  BY DEF Deciding, contextVars, contexts, ueVars, secondary
<1>2. Keeps /\ Evolves
  BY <1>1 DEF Keeps, Evolves
<1>3. \A k \in DOMAIN ctx' : ~ctx'[k].expired /\ (k \in DOMAIN ctx \/ ctx'[k].state # "Leaving")
  BY <1>1 DEF Undisturbed, Course, LeavingCourse
<1>4. QED
  BY <1>1, <1>2, <1>3

\* A decision that starts no procedure.
LEMMA SideDecision ==
    ASSUME Undisturbed, Deciding, UNCHANGED <<setup, allInOutage>>,
           \A m \in Elements(lteDl') : m \in Elements(lteDl) \/ m.type \notin DlTypes,
           \A l \in Interfaces : \A m \in Elements(x2'[l]) :
               m \in Elements(x2[l]) \/ (m.type \notin TokenTypes /\ SideCourse(l, m)),
           \A l \in Interfaces : InOrder(x2'[l]),
           \A l \in Interfaces : Elements(x2[l]) \subseteq Elements(x2'[l])
    PROVE  Course'
BY DecidingKeeps, KeptEvolving

\* A decision that sends nothing.
LEMMA SameMessages ==
    ASSUME Undisturbed, Deciding, UNCHANGED <<setup, allInOutage, lteDl, x2>>
    PROVE  Course'
<1>1. \A l \in Interfaces : InOrder(x2'[l])
  BY DEF Undisturbed, Course, X2Course
<1>2. QED
  BY <1>1, SideDecision

\* The orders to change the path of the bearer.
LEMMA SwitchSent ==
    ASSUME Undisturbed, NEW useMmWave, SendRrcConnectionSwitch(useMmWave)
    PROVE  /\ \A m \in Elements(lteDl') : m \in Elements(lteDl) \/ m.type \notin DlTypes
           /\ \A l \in Interfaces : \A m \in Elements(x2'[l]) :
                  m \in Elements(x2[l]) \/ (m.type \notin TokenTypes /\ SideCourse(l, m))
           /\ \A l \in Interfaces : InOrder(x2'[l])
           /\ \A l \in Interfaces : Elements(x2[l]) \subseteq Elements(x2'[l])
<1>1. McInv /\ TypeInv /\ Course /\ Links(x2) /\ IsSequence(lteDl)
  BY DEF Undisturbed, McInv, Shapes
<1>2. \A l \in Interfaces : InOrder(x2[l])
  BY <1>1 DEF Course, X2Course
<1>3. \A m \in Elements(lteDl') : m \in Elements(lteDl) \/ m.type \notin DlTypes
  <2>1. PICK order : order.type = "Switch" /\ lteDl' = Append(lteDl, order)
    BY DEF SendRrcConnectionSwitch
  <2>2. Elements(lteDl') = Elements(lteDl) \cup {order}
    BY <1>1, <2>1, ElementsFacts
  <2>3. QED
    BY <2>1, <2>2 DEF DlTypes
<1>4. CASE x2' = x2
  BY <1>2, <1>3, <1>4
<1>5. CASE ~(x2' = x2)
  <2>1. PICK cell, switch :
        /\ cell = mmWaveCell /\ switch = [type |-> "SwitchConnection", rnti |-> mmWaveRnti]
        /\ bearerIsMc /\ x2' = Sent(x2, LteCell, cell, switch)
    BY <1>5 DEF SendRrcConnectionSwitch
  <2>2. Found(cell, mmWaveRnti) /\ ctx[mmWaveRnti].rlc /\ cell \in Cells
    BY <1>1, <2>1, ContextFacts DEF Course, ServingCourse, Found
  <2>3. <<LteCell, cell>> \in Interfaces
    BY <2>2, InterfaceOfCells
  <2>4. /\ switch.type = "SwitchConnection" /\ switch.rnti = mmWaveRnti /\ switch.type \notin TokenTypes
    BY <2>1 DEF TokenTypes, HandoverTypes
  <2>5. SideCourse(<<LteCell, cell>>, switch)
    BY <2>2, <2>4 DEF SideCourse
  <2>6. ASSUME NEW m \in Elements(x2[<<LteCell, cell>>]) PROVE MayPrecede(m, switch)
    <3>1. m.type = "UeContextRelease" => m.rnti # mmWaveRnti
      BY <1>1, <2>3 DEF Course, X2Course, SideCourse
    <3>2. QED
      BY <2>4, <3>1 DEF MayPrecede
  <2>7. /\ \A l \in Interfaces : l # <<LteCell, cell>> => x2'[l] = x2[l]
        /\ Elements(x2'[<<LteCell, cell>>]) = Elements(x2[<<LteCell, cell>>]) \cup {switch}
        /\ \A l \in Interfaces : InOrder(x2'[l])
    <3>1. x2' = Sent(x2, LteCell, cell, switch)
      BY <2>1
    <3>2. QED
      BY <1>1, <1>2, <2>3, <2>6, <3>1, SentElements
  <2>8. ASSUME NEW l \in Interfaces, NEW m \in Elements(x2'[l])
        PROVE  m \in Elements(x2[l]) \/ (m.type \notin TokenTypes /\ SideCourse(l, m))
    BY <2>4, <2>5, <2>7
  <2>9. \A l \in Interfaces : Elements(x2[l]) \subseteq Elements(x2'[l])
    BY <2>7
  <2>10. QED
    BY <1>3, <2>7, <2>8, <2>9
<1>6. QED
  BY <1>3, <1>4, <1>5

\* The coordinator asks for a handover.
LEMMA HandoverStartsCourse ==
    ASSUME Undisturbed, Deciding, setup, NEW target, target # lastCell,
           SendMcHandoverRequest(target), UNCHANGED <<allInOutage, lteDl>>
    PROVE  Course'
<1>1. McInv /\ TypeInv /\ Course
  BY DEF Undisturbed
<1>2. /\ Keeps /\ Evolves
      /\ UNCHANGED <<forwarding, commands, completes, ueState, lteUl, lastCell,
                     bearerIsMc, mmWaveCell, mmWaveRnti>>
      /\ \A k \in DOMAIN ctx' : ~ctx'[k].expired /\ (k \in DOMAIN ctx \/ ctx'[k].state # "Leaving")
  BY DecidingKeeps
<1>3. PICK cell, request, T :
      /\ cell = lastCell /\ request = [type |-> "McHandoverRequest", target |-> target] /\ T = x2
      /\ x2' = Sent(T, LteCell, cell, request) /\ ~setup'
  BY DEF SendMcHandoverRequest
<1>4. /\ X2Free(x2) /\ FreeIn(lteDl, DlTypes) /\ FreeIn(lteUl, UlTypes)
      /\ commands = {} /\ completes = {} /\ ueState # "Handover"
  BY <1>1, NothingUnderWay
<1>5. RrcFree' /\ ~allInOutage'
  BY <1>1, <1>2, <1>4 DEF RrcFree, McInv, Coordinated
<1>6. Aside(T)
  BY <1>3, <1>4, AsideOfFree
<1>7. Settled /\ lastCell = mmWaveCell
  BY <1>1 DEF Course, ServingCourse
<1>8. Settled' /\ lastCell' = mmWaveCell' /\ cell = lastCell' /\ target # lastCell'
  BY <1>2, <1>3, <1>7, KeepsPlaces
<1>9. request.type = "McHandoverRequest" /\ request.target = target
  BY <1>3
<1>10. request.type \in TokenTypes /\ TokenCourse(<<LteCell, cell>>, request)'
  BY <1>8, <1>9 DEF TokenCourse, TokenTypes, HandoverTypes
<1>11. QED
  BY <1>2, <1>3, <1>5, <1>6, <1>10, GoesOn

\* The UE is told to connect, or to reconfigure.
LEMMA DlCourseSent ==
    ASSUME RrcFree, IsSequence(lteDl), NEW msg, DlCourse(msg)', lteDl' = Append(lteDl, msg),
           UNCHANGED <<lteUl, commands, completes, ueState>>
    PROVE  RrcCourse'
<1>1. \A m \in Elements(lteDl) : m.type \notin DlTypes
  BY DEF RrcFree, FreeIn, Elements
<1>2. \A m \in Elements(lteUl') : m.type \notin UlTypes
  BY DEF RrcFree, FreeIn, Elements
<1>3. \A m \in Elements(lteDl') : m \in Elements(lteDl) \/ m = msg
  BY ElementsFacts
<1>4. (\A m \in Elements(lteDl) : DlCourse(m))'
  BY <1>1, <1>3 DEF DlCourse, DlTypes
<1>5. (\A m \in Elements(lteUl) : UlCourse(m))'
  BY <1>2 DEF UlCourse, UlTypes
<1>6. QED
  BY <1>4, <1>5 DEF RrcCourse, RrcFree

\* The first mmWave cell that is not in outage.
LEMMA ConnectToMmWaveCourse ==
    ASSUME Undisturbed, NEW sinr, ConnectToMmWave(sinr), UNCHANGED <<contextVars, ueVars>>
    PROVE  Course'
<1>1. McInv /\ TypeInv /\ Course /\ IsSequence(lteDl)
  BY DEF Undisturbed, McInv, Shapes
<1>2. PICK order :
      /\ order.type = "Connect" /\ lteDl' = Append(lteDl, order)
      /\ allInOutage /\ x2' = x2 /\ setup' = setup /\ Deciding
  BY DEF ConnectToMmWave, Deciding, served
<1>3. /\ Keeps /\ Evolves
      /\ UNCHANGED <<forwarding, commands, completes, ueState, lteUl, lastCell,
                     bearerIsMc, mmWaveCell, mmWaveRnti>>
      /\ \A k \in DOMAIN ctx' : ~ctx'[k].expired /\ (k \in DOMAIN ctx \/ ctx'[k].state # "Leaving")
  BY <1>2, DecidingKeeps
<1>4. X2Free(x2) /\ RrcFree
  BY <1>1, <1>2, NothingUnderWay DEF RrcFree
<1>5. ~bearerIsMc /\ ~bearerIsMc' /\ ~setup'
  BY <1>1, <1>2, <1>3 DEF Course, ServingCourse, McInv, Coordinated
<1>6. DlCourse(order)'
  BY <1>2, <1>5 DEF DlCourse
<1>7. RrcCourse'
  BY <1>1, <1>2, <1>3, <1>4, <1>6, DlCourseSent
<1>8. X2Course'
  <2>1. PICK T : T = x2
    OBVIOUS
  <2>2. Aside(T)
    BY <1>4, <2>1, AsideOfFree
  <2>3. Aside(T)'
    BY <1>3, <2>2, AsideFrame
  <2>4. Aside(x2)'
    BY <1>2, <2>1, <2>3 DEF Aside
  <2>5. QED
    BY <2>4, AsideCourse
<1>9. ServingCourse'
  BY <1>5 DEF ServingCourse
<1>10. LeavingCourse'
  BY <1>1, <1>2, <1>3, ContextFacts, LeavingFrame DEF Course
<1>11. QED
  BY <1>7, <1>8, <1>9, <1>10 DEF Course

\* The coordinator looks at the SINR and decides, or lets things be.
LEMMA TriggerCourse ==
    ASSUME Undisturbed, Trigger
    PROVE  Course'
<1>1. PICK sinr : TriggerUeAssociationUpdate(sinr) /\ UNCHANGED <<contextVars, ueVars>>
  BY DEF Trigger
<1>2. CASE FallBackToLte(sinr)
  <2>1. SendRrcConnectionSwitch(FALSE) /\ Deciding /\ UNCHANGED <<setup, allInOutage>>
    BY <1>1, <1>2 DEF FallBackToLte, Deciding
  <2>2. QED
    BY <2>1, SwitchSent, SideDecision
<1>3. CASE ReturnToMmWave(sinr)
  <2>1. SendRrcConnectionSwitch(TRUE) /\ Deciding /\ UNCHANGED <<setup, allInOutage>>
    BY <1>1, <1>3 DEF ReturnToMmWave, Deciding
  <2>2. QED
    BY <2>1, SwitchSent, SideDecision
<1>4. CASE ConnectToMmWave(sinr)
  BY <1>1, <1>4, ConnectToMmWaveCourse
<1>5. CASE HandOverNow(sinr)
  <2>1. PICK target :
        /\ target # lastCell /\ setup /\ SendMcHandoverRequest(target)
        /\ Deciding /\ UNCHANGED <<allInOutage, lteDl>>
    BY <1>1, <1>5 DEF HandOverNow, Deciding
  <2>2. QED
    BY <2>1, HandoverStartsCourse
<1>6. CASE TttBasedHandover(sinr)
  <2>1. Deciding /\ UNCHANGED <<setup, allInOutage, lteDl, x2>>
    BY <1>1, <1>6 DEF TttBasedHandover, Deciding, served
  <2>2. QED
    BY <2>1, SameMessages
<1>7. CASE KeepServing(sinr)
  <2>1. Deciding /\ UNCHANGED <<setup, allInOutage, lteDl, x2>>
    BY <1>1, <1>7 DEF KeepServing, Deciding, coordinatorVars, served
  <2>2. QED
    BY <2>1, SameMessages
<1>8. QED
  BY <1>1, <1>2, <1>3, <1>4, <1>5, <1>6, <1>7 DEF TriggerUeAssociationUpdate

\* A scheduled handover starts like any other, if the UE is set up.
LEMMA TimeToTriggerCourse ==
    ASSUME Undisturbed, TimeToTrigger
    PROVE  Course'
<1>1. handover # NoHandover /\ Deciding /\ UNCHANGED <<allInOutage, lteDl>>
  BY DEF TimeToTrigger, PerformHandover, Deciding
<1>2. CASE setup
  <2>1. PICK target : target = handover.target /\ SendMcHandoverRequest(target)
    BY <1>2 DEF TimeToTrigger, PerformHandover
  <2>2. target # lastCell
    BY <1>1, <2>1 DEF Undisturbed, McInv, Coordinated, ScheduledHandoverIsCurrent
  <2>3. QED
    BY <1>1, <1>2, <2>1, <2>2, HandoverStartsCourse
<1>3. CASE ~setup
  <2>1. UNCHANGED <<setup, x2>>
    BY <1>3 DEF TimeToTrigger, PerformHandover
  <2>2. QED
    BY <1>1, <2>1, SameMessages
<1>4. QED
  BY <1>2, <1>3

\* Nothing happens.
LEMMA StutterCourse ==
    ASSUME Undisturbed, UNCHANGED vars
    PROVE  Course'
<1>1. Deciding /\ UNCHANGED <<setup, allInOutage, lteDl, x2>>
  BY DEF vars, Deciding, coordinatorVars, served
<1>2. QED
  BY <1>1, SameMessages

---------------------------------------------------------------------------
(***************************************************************************)
(* The UE.                                                                 *)
(***************************************************************************)

\* An order to change the path of the bearer arrives.
LEMMA UeRecvConnectionSwitchCourse ==
    ASSUME Undisturbed, UeRecvConnectionSwitch
    PROVE  Course'
<1>1. /\ FromLte("Switch") /\ lteDl' = Tail(lteDl)
      /\ UNCHANGED <<setup, allInOutage, x2, ctx, imsiRnti, forwarding, commands, completes,
                     ueState, ueRnti, ueMmWaveRnti, handoverTo, lteUl,
                     lastCell, bearerIsMc, mmWaveCell, mmWaveRnti>>
  BY DEF UeRecvConnectionSwitch, served, secondary, contextVars, contexts
<1>2. Keeps /\ Evolves
  BY <1>1 DEF Keeps, Evolves
<1>3. \A k \in DOMAIN ctx' : ~ctx'[k].expired /\ (k \in DOMAIN ctx \/ ctx'[k].state # "Leaving")
  BY <1>1 DEF Undisturbed, Course, LeavingCourse
<1>4. Elements(lteDl') \subseteq Elements(lteDl)
  BY <1>1, DlIsTaken DEF Undisturbed
<1>5. \A l \in Interfaces : InOrder(x2'[l])
  BY <1>1 DEF Undisturbed, Course, X2Course
<1>6. QED
  BY <1>1, <1>2, <1>3, <1>4, <1>5, KeptEvolving

\* What is reported to the LTE cell.
LEMMA UlCourseSent ==
    ASSUME FreeIn(lteDl', DlTypes), FreeIn(lteUl, UlTypes), IsSequence(lteUl),
           NEW msg, UlCourse(msg)', lteUl' = Append(lteUl, msg),
           commands' = {}, completes' = {}, ueState' # "Handover"
    PROVE  RrcCourse'
<1>1. \A m \in Elements(lteDl') : m.type \notin DlTypes
  BY DEF FreeIn, Elements
<1>2. \A m \in Elements(lteUl) : m.type \notin UlTypes
  BY DEF FreeIn, Elements
<1>3. \A m \in Elements(lteUl') : m \in Elements(lteUl) \/ m = msg
  BY ElementsFacts
<1>4. (\A m \in Elements(lteDl) : DlCourse(m))'
  BY <1>1 DEF DlCourse, DlTypes
<1>5. (\A m \in Elements(lteUl) : UlCourse(m))'
  BY <1>2, <1>3 DEF UlCourse, UlTypes
<1>6. QED
  BY <1>4, <1>5 DEF RrcCourse

\* A procedure goes on in another way than in a message on X2.
LEMMA GoesOnElsewhere ==
    ASSUME Undisturbed, RrcCourse', ~setup', ~allInOutage',
           UNCHANGED <<mmWaveCell, mmWaveRnti, bearerIsMc, forwarding>>, Evolves,
           NEW links, Aside(links),
           \A l \in Interfaces : \A id :
               Release(id) \in Elements(x2[l]) => Release(id) \in Elements(links[l]),
           x2' = links,
           \A k \in DOMAIN ctx' : ~ctx'[k].expired /\ (k \in DOMAIN ctx \/ ctx'[k].state # "Leaving")
    PROVE  Course'
<1>1. TypeInv /\ Course
  BY DEF Undisturbed
<1>2. Aside(links)'
  BY AsideFrame
<1>3. Aside(x2)'
  BY <1>2 DEF Aside
<1>4. X2Course'
  BY <1>3, AsideCourse
<1>5. ServingCourse'
  BY <1>1, ServingFrame DEF Course
<1>6. LeavingCourse'
  BY <1>1, ContextFacts, LeavingFrame DEF Course
<1>7. QED
  BY <1>4, <1>5, <1>6 DEF Course

\* The UE gets its first context, and nothing has one but it.
LEMMA UeConnectToMmWaveCourse ==
    ASSUME Undisturbed, UeConnectToMmWave
    PROVE  Course'
<1>1. McInv /\ TypeInv /\ Course /\ IsSequence(lteUl)
  BY DEF Undisturbed, McInv, Shapes
<1>2. PICK cell, id, new, report :
      /\ cell = Head(lteDl).cell /\ id = Len(ctx) + 1
      /\ new = NewContext(cell, "Connected", 0, FALSE)
      /\ report = [type |-> "SecondaryCellConnected", rnti |-> id, cell |-> cell]
      /\ FromLte("Connect") /\ lteDl' = Tail(lteDl) /\ lteUl' = Append(lteUl, report)
      /\ ctx' = Append(ctx, new) /\ imsiRnti' = [imsiRnti EXCEPT ![cell] = id]
      /\ ueRnti' = id /\ ueMmWaveRnti' = id /\ ueState' = "Connected"
      /\ UNCHANGED <<setup, allInOutage, bearerIsMc, mmWaveCell, mmWaveRnti, x2,
                     forwarding, commands, completes>>
  BY DEF UeConnectToMmWave, served, secondary
<1>3. TokenAt("lteDl") /\ ~setup /\ ~allInOutage /\ FreeIn(lteDl', DlTypes)
  BY <1>1, <1>2, DlTaken DEF DlTypes
<1>4. X2Free(x2) /\ FreeIn(lteUl, UlTypes) /\ commands' = {} /\ completes' = {}
  BY <1>2, <1>3 DEF TokenAt
<1>5. Head(lteDl) \in Elements(lteDl) /\ Head(lteDl).type = "Connect"
  BY <1>1, <1>2, DlIsTaken
<1>6. cell \in Cells /\ ~bearerIsMc
  BY <1>1, <1>2, <1>5 DEF TypeInv, MessagesTyped, DlTyped, Course, RrcCourse, DlCourse
<1>7. new \in Context /\ new.cell = cell /\ new.state = "Connected" /\ ~new.expired
  BY <1>2, <1>6 DEF NewContext, Context, States
<1>8. /\ DOMAIN ctx' = DOMAIN ctx \cup {id} /\ ctx'[id] = new
      /\ \A k \in DOMAIN ctx : ctx'[k] = ctx[k]
  BY <1>1, <1>2, <1>7, ContextIsAdded
<1>9. Evolves
  BY <1>8 DEF Evolves
<1>10. Resides(cell, id)'
  <2>1. imsiRnti'[cell] = id
    BY <1>1, <1>2, <1>6 DEF TypeInv, CellsTyped
  <2>2. QED
    BY <1>2, <1>7, <1>8, <2>1 DEF Resides, InState, Found, UeAt
<1>11. UlCourse(report)'
  BY <1>2, <1>6, <1>10 DEF UlCourse
<1>12. RrcCourse'
  BY <1>1, <1>2, <1>3, <1>4, <1>11, UlCourseSent
<1>13. PICK T : T = x2
  OBVIOUS
<1>14. Aside(T) /\ x2' = T
  BY <1>2, <1>4, <1>13, AsideOfFree
<1>15. \A k \in DOMAIN ctx' : ~ctx'[k].expired /\ (k \in DOMAIN ctx \/ ctx'[k].state # "Leaving")
  BY <1>1, <1>7, <1>8 DEF Course, LeavingCourse
<1>16. QED
  BY <1>2, <1>3, <1>9, <1>12, <1>13, <1>14, <1>15, GoesOnElsewhere

\* A step that leaves the contexts and X2 alone.
LEMMA GoesOnWithUe ==
    ASSUME Undisturbed, RrcCourse', ~setup', ~allInOutage', X2Free(x2),
           UNCHANGED <<ctx, x2, mmWaveCell, mmWaveRnti, bearerIsMc, forwarding>>
    PROVE  Course'
<1>1. Evolves
  BY DEF Evolves
<1>2. \A k \in DOMAIN ctx' : ~ctx'[k].expired /\ (k \in DOMAIN ctx \/ ctx'[k].state # "Leaving")
  BY DEF Undisturbed, Course, LeavingCourse
<1>3. PICK T : T = x2
  OBVIOUS
<1>4. Aside(T) /\ x2' = T
  BY <1>3, AsideOfFree
<1>5. QED
  BY <1>1, <1>2, <1>3, <1>4, GoesOnElsewhere

\* The UE has its RLC and says so: it was settled before, and still is.
LEMMA UeReconfigureCourse ==
    ASSUME Undisturbed, UeReconfigure
    PROVE  Course'
<1>1. McInv /\ TypeInv /\ Course /\ IsSequence(lteUl)
  BY DEF Undisturbed, McInv, Shapes
<1>2. PICK report :
      /\ report.type = "ReconfigurationCompleted"
      /\ FromLte("Reconfiguration") /\ lteDl' = Tail(lteDl) /\ lteUl' = Append(lteUl, report)
      /\ UNCHANGED <<setup, allInOutage, lastCell, bearerIsMc, mmWaveCell, mmWaveRnti, x2, ctx, imsiRnti,
                     forwarding, commands, completes, ueState, ueRnti, ueMmWaveRnti>>
  BY DEF UeReconfigure, served, secondary, contextVars, contexts
<1>3. TokenAt("lteDl") /\ ~setup /\ ~allInOutage /\ FreeIn(lteDl', DlTypes)
  BY <1>1, <1>2, DlTaken DEF DlTypes
<1>4. X2Free(x2) /\ FreeIn(lteUl, UlTypes) /\ commands' = {} /\ completes' = {} /\ ueState' # "Handover"
  BY <1>2, <1>3 DEF TokenAt
<1>5. Head(lteDl) \in Elements(lteDl) /\ Head(lteDl).type = "Reconfiguration"
  BY <1>1, <1>2, DlIsTaken
<1>6. Settled
  BY <1>1, <1>5 DEF Course, RrcCourse, DlCourse
<1>7. Keeps
  BY <1>2 DEF Keeps
<1>8. UlCourse(report)'
  BY <1>2, <1>6, <1>7, KeepsPlaces DEF UlCourse
<1>9. RrcCourse'
  BY <1>1, <1>2, <1>3, <1>4, <1>8, UlCourseSent
<1>10. QED
  BY <1>2, <1>3, <1>4, <1>9, GoesOnWithUe

\* The UE sets out for the target.
LEMMA UeRecvHandoverCommandCourse ==
    ASSUME Undisturbed, UeRecvHandoverCommand
    PROVE  Course'
<1>1. McInv /\ TypeInv /\ Course
  BY DEF Undisturbed
<1>2. PICK command \in commands :
      /\ commands' = commands \ {command}
      /\ ueRnti' = command.to /\ ueMmWaveRnti' = command.to /\ handoverTo' = command.to
      /\ UNCHANGED <<setup, allInOutage, lastCell, bearerIsMc, mmWaveCell, mmWaveRnti, lteDl, lteUl,
                     x2, ctx, imsiRnti, forwarding, completes>>
  BY DEF UeRecvHandoverCommand, coordinatorVars, served, secondary, contexts
<1>3. TokenAt("command") /\ ~setup /\ ~allInOutage
  BY <1>1, <1>2, TokenElsewhere DEF Places
<1>4. /\ commands' = {} /\ completes' = {} /\ X2Free(x2)
      /\ FreeIn(lteDl', DlTypes) /\ FreeIn(lteUl', UlTypes)
  BY <1>2, <1>3 DEF TokenAt
<1>5. Source("Leaving") /\ NewHome(ctx[command.to].cell, command.to, "Joining")
  BY <1>1, <1>2 DEF Course, RrcCourse
<1>6. Moving(handoverTo)'
  BY <1>2, <1>5 DEF Moving, UeAt, Source, NewHome, InState, Found
<1>7. RrcCourse'
  BY <1>4, <1>6 DEF RrcCourse, DlCourse, UlCourse, FreeIn, Elements, DlTypes, UlTypes
<1>8. QED
  BY <1>2, <1>3, <1>4, <1>7, GoesOnWithUe

\* It has reached it.
LEMMA UeRandomAccessSuccessfulCourse ==
    ASSUME Undisturbed, UeRandomAccessSuccessful
    PROVE  Course'
<1>1. McInv /\ TypeInv /\ Course
  BY DEF Undisturbed
<1>2. PICK id :
      /\ id = handoverTo /\ ueState = "Handover" /\ ueState' = "Connected"
      /\ completes' = completes \cup {id}
      /\ UNCHANGED <<setup, allInOutage, lastCell, bearerIsMc, mmWaveCell, mmWaveRnti, lteDl, lteUl,
                     x2, ctx, imsiRnti, forwarding, commands, ueRnti, ueMmWaveRnti>>
  BY DEF UeRandomAccessSuccessful, coordinatorVars, served, secondary, contexts
<1>3. TokenAt("ue") /\ ~setup /\ ~allInOutage
  BY <1>1, <1>2, TokenElsewhere DEF Places
<1>4. /\ commands' = {} /\ completes' = {id} /\ X2Free(x2)
      /\ FreeIn(lteDl', DlTypes) /\ FreeIn(lteUl', UlTypes)
  BY <1>2, <1>3 DEF TokenAt
<1>5. Moving(id)
  BY <1>1, <1>2 DEF Course, RrcCourse
<1>6. Keeps
  BY <1>2 DEF Keeps
<1>7. Moving(id)'
  BY <1>5, <1>6, KeepsPlaces
<1>8. RrcCourse'
  BY <1>2, <1>4, <1>7 DEF RrcCourse, DlCourse, UlCourse, FreeIn, Elements, DlTypes, UlTypes
<1>9. QED
  BY <1>2, <1>3, <1>4, <1>8, GoesOnWithUe

---------------------------------------------------------------------------
(***************************************************************************)
(* What arrives at the coordinator.                                        *)
(***************************************************************************)

\* No context leaves before the bearer has its leg to mmWave.
LEMMA NoneLeaves ==
    ASSUME Course, ~bearerIsMc
    PROVE  \A k \in DOMAIN ctx : ctx[k].state # "Leaving"
BY DEF Course, LeavingCourse

\* The coordinator has the mmWave cell set up the RLC of the bearer.
LEMMA RecvSecondaryCellConnectedCourse ==
    ASSUME Undisturbed, RecvSecondaryCellConnected
    PROVE  Course'
<1>1. McInv /\ TypeInv /\ Course
  BY DEF Undisturbed
<1>2. /\ lteUl # <<>> /\ Head(lteUl).type = "SecondaryCellConnected"
      /\ lteUl' = Tail(lteUl)
      /\ UNCHANGED <<setup, allInOutage, bearerIsMc, lteDl, ctx, imsiRnti, forwarding,
                     commands, completes, ueState, ueRnti, ueMmWaveRnti>>
  BY DEF RecvSecondaryCellConnected, RecvSecondaryCellInitialAccess, served, contextVars, contexts
<1>3. /\ FreeIn(lteUl', UlTypes) /\ ~setup /\ ~allInOutage
      /\ X2Free(x2) /\ commands = {} /\ completes = {} /\ ueState # "Handover"
      /\ FreeIn(lteDl, DlTypes)
  BY <1>1, <1>2, UlTaken DEF UlTypes
<1>4. Head(lteUl) \in Elements(lteUl)
  BY <1>1, <1>2, UlIsTaken
<1>5. PICK cell, id, request, T :
      /\ cell = Head(lteUl).cell /\ id = Head(lteUl).rnti /\ T = x2
      /\ request = [type |-> "RlcSetupRequest", rnti |-> id]
      /\ mmWaveCell' = cell /\ mmWaveRnti' = id
      /\ ~bearerIsMc => x2' = Sent(T, LteCell, cell, request)
  BY DEF RecvSecondaryCellConnected, RecvSecondaryCellInitialAccess, NoteSecondary
<1>6. ~bearerIsMc /\ Resides(cell, id)
  BY <1>1, <1>2, <1>4, <1>5 DEF Course, RrcCourse, UlCourse
<1>7. \A k \in DOMAIN ctx : ctx[k].state # "Leaving"
  BY <1>1, <1>6, NoneLeaves
<1>8. Aside(T)'
  <2>1. Aside(T)
    BY <1>3, <1>5, AsideOfFree
  <2>2. ASSUME NEW l \in Interfaces, NEW m \in Elements(T[l]) PROVE SideCourse(l, m)'
    <3>1. SideCourse(l, m)
      BY <2>1 DEF Aside
    <3>2. m.type # "UeContextRelease"
      BY <1>7, <3>1 DEF SideCourse, InState, Found
    <3>3. QED
      BY <1>2, <3>1, <3>2 DEF SideCourse, Found
  <2>3. QED
    BY <2>1, <2>2 DEF Aside
<1>9. Resides(mmWaveCell, mmWaveRnti)'
  BY <1>2, <1>5, <1>6 DEF Resides, InState, Found, UeAt
<1>10. request.type = "RlcSetupRequest" /\ request.rnti = id
  BY <1>5
<1>11. request.type \in TokenTypes /\ TokenCourse(<<LteCell, cell>>, request)'
  BY <1>2, <1>5, <1>6, <1>9, <1>10 DEF TokenCourse, TokenTypes
<1>12. x2' = Sent(T, LteCell, cell, request)
  BY <1>5, <1>6
<1>13. X2Course'
  BY <1>8, <1>11, <1>12, TokenCourseSent
<1>14. RrcFree'
  BY <1>2, <1>3 DEF RrcFree
<1>15. ServingCourse'
  BY <1>2, <1>3, <1>6 DEF ServingCourse
<1>16. LeavingCourse'
  BY <1>1, <1>2, <1>7 DEF Course, LeavingCourse, InState, Found
<1>17. QED
  BY <1>13, <1>14, <1>15, <1>16, FreeCourse DEF Course

\* The UE is set up.
LEMMA RecvUeReconfiguredCourse ==
    ASSUME Undisturbed, RecvUeReconfigured
    PROVE  Course'
<1>1. McInv /\ TypeInv /\ Course
  BY DEF Undisturbed
<1>2. /\ lteUl # <<>> /\ Head(lteUl).type = "ReconfigurationCompleted"
      /\ lteUl' = Tail(lteUl) /\ lastCell' = mmWaveCell
      /\ UNCHANGED <<allInOutage, bearerIsMc, mmWaveCell, mmWaveRnti, lteDl, x2, ctx, imsiRnti,
                     forwarding, commands, completes, ueState, ueRnti, ueMmWaveRnti>>
  BY DEF RecvUeReconfigured, RecvReconfigurationCompleted, Serve, contextVars, contexts
<1>3. /\ FreeIn(lteUl', UlTypes) /\ ~allInOutage
      /\ X2Free(x2) /\ commands = {} /\ completes = {} /\ ueState # "Handover"
      /\ FreeIn(lteDl, DlTypes)
  BY <1>1, <1>2, UlTaken DEF UlTypes
<1>4. Settled
  <2>1. Head(lteUl) \in Elements(lteUl)
    BY <1>1, <1>2, UlIsTaken
  <2>2. QED
    BY <1>1, <1>2, <2>1 DEF Course, RrcCourse, UlCourse
<1>5. Settled' /\ lastCell' = mmWaveCell'
  BY <1>2, <1>4 DEF Settled, Resides, InState, Found, UeAt
<1>6. Evolves
  BY <1>2 DEF Evolves
<1>7. X2Course'
  <2>1. PICK T : T = x2
    OBVIOUS
  <2>2. Aside(T)
    BY <1>3, <2>1, AsideOfFree
  <2>3. Aside(T)'
    BY <1>2, <1>6, <2>2, AsideFrame
  <2>4. Aside(x2)'
    BY <1>2, <2>1, <2>3 DEF Aside
  <2>5. QED
    BY <2>4, AsideCourse
<1>8. RrcFree'
  BY <1>2, <1>3 DEF RrcFree
<1>9. ServingCourse'
  BY <1>2, <1>3, <1>5 DEF ServingCourse, Settled, Resides, InState
<1>10. LeavingCourse'
  <2>1. \A k \in DOMAIN ctx' : ~ctx'[k].expired /\ (k \in DOMAIN ctx \/ ctx'[k].state # "Leaving")
    BY <1>1, <1>2 DEF Course, LeavingCourse
  <2>2. QED
    BY <1>1, <1>2, <1>6, <2>1, ContextFacts, LeavingFrame DEF Course
<1>11. QED
  BY <1>7, <1>8, <1>9, <1>10, FreeCourse DEF Course

\* The RLC at the mmWave cell is set up, and the UE is told.
LEMMA RecvRlcSetupCompletedCourse ==
    ASSUME Undisturbed, NEW cell \in Cells, RecvRlcSetupCompleted(cell), UNCHANGED <<contextVars, ueVars>>
    PROVE  Course'
<1>1. McInv /\ TypeInv /\ Course /\ IsSequence(lteDl)
  BY DEF Undisturbed, McInv, Shapes
<1>2. PICK order, T :
      /\ T = Received(x2, cell, LteCell) /\ order.type = "Reconfiguration"
      /\ Arrived(cell, LteCell, "RlcSetupCompleted") /\ x2' = T /\ bearerIsMc' = TRUE
      /\ lteDl' = Append(lteDl, order)
      /\ UNCHANGED <<setup, allInOutage, mmWaveCell, mmWaveRnti, ctx, imsiRnti, forwarding,
                     commands, completes, ueState, ueRnti, ueMmWaveRnti, lteUl>>
  BY DEF RecvRlcSetupCompleted, served, contextVars, contexts, ueVars
<1>3. <<cell, LteCell>> \in Interfaces /\ "RlcSetupCompleted" \in TokenTypes
  BY InterfaceOfCells DEF TokenTypes
<1>4. /\ Oldest(cell, LteCell).type = "RlcSetupCompleted"
      /\ TokenCourse(<<cell, LteCell>>, Oldest(cell, LteCell))
      /\ ~setup /\ ~allInOutage /\ RrcFree
      /\ Aside(Received(x2, cell, LteCell))
      /\ \A l \in Interfaces : \A k :
             Release(k) \in Elements(x2[l]) => Release(k) \in Elements(Received(x2, cell, LteCell)[l])
  BY <1>2, <1>3, TokenCourseArrives
<1>5. Settled
  BY <1>4 DEF TokenCourse
<1>6. Settled' /\ Evolves
  BY <1>2, <1>5 DEF Settled, Resides, InState, Found, UeAt, Evolves
<1>7. Aside(T)'
  BY <1>2, <1>4, <1>6, AsideFrame
<1>8. X2Course'
  <2>1. Aside(x2)'
    BY <1>2, <1>7 DEF Aside
  <2>2. QED
    BY <2>1, AsideCourse
<1>9. RrcCourse'
  <2>1. DlCourse(order)'
    BY <1>2, <1>6 DEF DlCourse
  <2>2. QED
    BY <1>1, <1>2, <1>4, <2>1, DlCourseSent
<1>10. ServingCourse'
  BY <1>2, <1>4, <1>6 DEF ServingCourse, Settled, Resides, InState
<1>11. LeavingCourse'
  <2>1. \A k \in DOMAIN ctx' : ~ctx'[k].expired /\ (k \in DOMAIN ctx \/ ctx'[k].state # "Leaving")
    BY <1>1, <1>2 DEF Course, LeavingCourse
  <2>2. \A l \in Interfaces : \A k : Release(k) \in Elements(x2[l]) => Release(k) \in Elements(x2'[l])
    BY <1>2, <1>4
  <2>3. QED
    BY <1>1, <1>2, <1>6, <2>1, <2>2, ContextFacts, LeavingFrame DEF Course
<1>12. QED
  BY <1>8, <1>9, <1>10, <1>11 DEF Course

\* The UE is served from the cell it has come to, and the context it has left is
\* to be released.
LEMMA RecvSecondaryCellHandoverCompletedCourse ==
    ASSUME Undisturbed, NEW cell \in Cells, RecvSecondaryCellHandoverCompleted(cell),
           UNCHANGED <<contextVars, ueVars>>
    PROVE  Course'
<1>1. McInv /\ TypeInv /\ Course
  BY DEF Undisturbed
<1>2. PICK T, old, oldCell, new :
      /\ T = Received(x2, cell, LteCell) /\ new = Oldest(cell, LteCell).rnti
      /\ old = Oldest(cell, LteCell).source /\ oldCell = mmWaveCell
      /\ Arrived(cell, LteCell, "SecondaryCellHandoverCompleted")
      /\ x2' = Sent(T, LteCell, oldCell, Release(old))
      /\ mmWaveCell' = cell /\ mmWaveRnti' = new
      /\ lastCell # cell => lastCell' = cell
      /\ UNCHANGED <<allInOutage, bearerIsMc, lteDl, ctx, imsiRnti, forwarding,
                     commands, completes, ueState, ueRnti, ueMmWaveRnti, lteUl>>
  BY DEF RecvSecondaryCellHandoverCompleted, ReleasingSource, NoteSecondary, Serve, Release,
         contextVars, contexts, ueVars
<1>3. <<cell, LteCell>> \in Interfaces /\ "SecondaryCellHandoverCompleted" \in TokenTypes
  BY InterfaceOfCells DEF TokenTypes, HandoverTypes
<1>4. /\ Oldest(cell, LteCell).type = "SecondaryCellHandoverCompleted"
      /\ TokenCourse(<<cell, LteCell>>, Oldest(cell, LteCell))
      /\ ~setup /\ ~allInOutage /\ RrcFree
      /\ Aside(Received(x2, cell, LteCell))
      /\ \A l \in Interfaces : \A k :
             Release(k) \in Elements(x2[l]) => Release(k) \in Elements(Received(x2, cell, LteCell)[l])
  BY <1>2, <1>3, TokenCourseArrives
<1>5. /\ Source("Leaving") /\ UeAt(new) /\ old = mmWaveRnti /\ NewHome(cell, new, "Connected")
  BY <1>2, <1>4 DEF TokenCourse
<1>6. /\ lastCell = oldCell /\ old \in DOMAIN ctx /\ ctx[old].cell = oldCell
      /\ ctx[old].state = "Leaving"
  BY <1>2, <1>5 DEF Source, InState, Found
<1>7. /\ new \in DOMAIN ctx /\ ctx[new].cell = cell /\ ctx[new].state = "Connected"
      /\ cell # lastCell /\ imsiRnti[cell] = new /\ ctx[new].rlc /\ ctx[new].requests
  BY <1>5 DEF NewHome, InState, Found
<1>8. oldCell \in Cells /\ <<LteCell, oldCell>> \in Interfaces
  BY <1>1, <1>6, ContextFacts
<1>9. /\ Aside(T)
      /\ \A l \in Interfaces : \A k : Release(k) \in Elements(x2[l]) => Release(k) \in Elements(T[l])
  BY <1>2, <1>4
<1>10. LeavingCourse
  BY <1>1 DEF Course
<1>11. Release(old).type = "UeContextRelease" /\ Release(old).rnti = old
  BY DEF Release
<1>12. PICK release : release = Release(old)
  OBVIOUS
<1>13. ASSUME NEW m \in Elements(T[<<LteCell, oldCell>>]) PROVE MayPrecede(m, release)
  <2>1. m.type \notin TokenTypes /\ SideCourse(<<LteCell, oldCell>>, m)
    BY <1>8, <1>9 DEF Aside
  <2>2. ASSUME m.type = "UeContextRelease" PROVE FALSE
    <3>1. m.rnti \in DOMAIN ctx /\ ctx[m.rnti].cell = oldCell /\ ctx[m.rnti].state = "Leaving"
          /\ m.rnti # mmWaveRnti
      BY <2>1, <2>2 DEF SideCourse, InState, Found
    <3>2. QED
      BY <1>5, <1>6, <1>10, <3>1 DEF LeavingCourse
  <2>3. QED
    BY <1>11, <1>12, <2>1, <2>2 DEF MayPrecede, TokenTypes, HandoverTypes
<1>14. /\ \A l \in Interfaces : l # <<LteCell, oldCell>> => x2'[l] = T[l]
       /\ Elements(x2'[<<LteCell, oldCell>>]) = Elements(T[<<LteCell, oldCell>>]) \cup {release}
       /\ \A l \in Interfaces : InOrder(x2'[l])
  <2>1. Links(T) /\ (\A l \in Interfaces : InOrder(T[l])) /\ x2' = Sent(T, LteCell, oldCell, release)
    BY <1>2, <1>9, <1>12 DEF Aside
  <2>2. QED
    BY <1>8, <1>13, <2>1, SentElements
<1>15. SideCourse(<<LteCell, oldCell>>, release)'
  BY <1>2, <1>6, <1>7, <1>11, <1>12 DEF SideCourse, InState, Found
<1>16. ASSUME NEW l \in Interfaces, NEW m \in Elements(T[l]) PROVE SideCourse(l, m)'
  <2>1. SideCourse(l, m)
    BY <1>9 DEF Aside
  <2>2. QED
    BY <1>2, <1>7, <2>1 DEF SideCourse, InState, Found
<1>17. X2Course'
  <2>1. ASSUME NEW l \in Interfaces, NEW m \in Elements(x2'[l])
        PROVE  m.type \notin TokenTypes /\ SideCourse(l, m)'
    <3>1. CASE m \in Elements(T[l])
      BY <1>9, <1>16, <3>1 DEF Aside
    <3>2. CASE l = <<LteCell, oldCell>> /\ m = release
      BY <1>11, <1>12, <1>15, <3>2 DEF TokenTypes, HandoverTypes
    <3>3. QED
      BY <1>14, <3>1, <3>2
  <2>2. Links(x2')
    <3>1. Links(T) /\ x2' = Sent(T, LteCell, oldCell, release)
      BY <1>2, <1>9, <1>12 DEF Aside
    <3>2. QED
      BY <3>1, SentLinks
  <2>3. Aside(x2)'
    BY <1>14, <2>1, <2>2 DEF Aside
  <2>4. QED
    BY <2>3, AsideCourse
<1>18. RrcCourse'
  <2>1. RrcFree'
    BY <1>2, <1>4 DEF RrcFree
  <2>2. QED
    BY <2>1, FreeCourse
<1>19. ServingCourse'
  <2>1. Settled' /\ lastCell' = mmWaveCell'
    BY <1>2, <1>5, <1>7 DEF Settled, Resides, InState, Found, UeAt
  <2>2. QED
    BY <1>2, <1>4, <2>1 DEF ServingCourse, Settled, Resides, InState
<1>20. LeavingCourse'
  <2>1. ASSUME NEW k \in DOMAIN ctx, ctx[k].state = "Leaving"
        PROVE  Release(k) \in Elements(x2'[<<LteCell, ctx[k].cell>>])
    <3>1. <<LteCell, ctx[k].cell>> \in Interfaces
      BY <1>1, ContextFacts
    <3>2. CASE k = old
      BY <1>6, <1>12, <1>14, <3>2
    <3>3. CASE k # old
      <4>1. Release(k) \in Elements(x2[<<LteCell, ctx[k].cell>>])
        BY <1>5, <1>10, <2>1, <3>3 DEF LeavingCourse
      <4>2. Release(k) \in Elements(T[<<LteCell, ctx[k].cell>>])
        BY <1>9, <3>1, <4>1
      <4>3. QED
        BY <1>14, <3>1, <4>2
    <3>4. QED
      BY <3>2, <3>3
  <2>2. \A k \in DOMAIN ctx' : ctx'[k].state = "Leaving" =>
            /\ bearerIsMc' /\ forwarding'[ctx'[k].cell] # 0
            /\ k = mmWaveRnti' \/ Release(k) \in Elements(x2'[<<LteCell, ctx'[k].cell>>])
    BY <1>2, <1>10, <2>1 DEF LeavingCourse
  <2>3. QED
    BY <1>2, <1>10, <2>2 DEF LeavingCourse, InState, Found, Release
<1>21. QED
  BY <1>17, <1>18, <1>19, <1>20 DEF Course

\* The target has admitted the UE, which is told to go there.
LEMMA RecvHandoverRequestAckCourse ==
    ASSUME Undisturbed, NEW cell \in Cells, NEW target \in Cells \ {cell},
           RecvHandoverRequestAck(target, cell), AtCells
    PROVE  Course'
<1>1. McInv /\ TypeInv /\ Course
  BY DEF Undisturbed
<1>2. PICK T, old, new :
      /\ T = Received(x2, target, cell) /\ old = Oldest(target, cell).source
      /\ new = Oldest(target, cell).new
      /\ Arrived(target, cell, "HandoverRequestAck") /\ old \in DOMAIN ctx
      /\ ctx' = [ctx EXCEPT ![old].state = "Leaving"]
      /\ commands' = commands \cup {[from |-> old, to |-> new]}
      /\ forwarding' = [forwarding EXCEPT ![cell] = target]
      /\ x2' = T /\ UNCHANGED <<imsiRnti, completes, mishaps>>
  BY DEF RecvHandoverRequestAck, Found
<1>3. <<target, cell>> \in Interfaces /\ "HandoverRequestAck" \in TokenTypes
  BY InterfaceOfCells DEF TokenTypes, HandoverTypes
<1>4. /\ Oldest(target, cell).type = "HandoverRequestAck"
      /\ TokenCourse(<<target, cell>>, Oldest(target, cell))
      /\ Oldest(target, cell) \in InTransit(x2)
      /\ ~setup /\ ~allInOutage /\ RrcFree
      /\ Aside(Received(x2, target, cell))
      /\ \A l \in Interfaces : \A k :
             Release(k) \in Elements(x2[l]) => Release(k) \in Elements(Received(x2, target, cell)[l])
  BY <1>2, <1>3, TokenCourseArrives
<1>5. /\ Source("Preparation") /\ UeAt(mmWaveRnti) /\ forwarding[lastCell] = 0
      /\ cell = lastCell /\ old = mmWaveRnti /\ NewHome(target, new, "Joining")
  BY <1>2, <1>4 DEF TokenCourse
<1>6. /\ lastCell = mmWaveCell /\ ctx[old].cell = cell /\ ctx[old].state = "Preparation"
  BY <1>5 DEF Source, InState, Found
<1>7. /\ new \in DOMAIN ctx /\ ctx[new].cell = target /\ ctx[new].state = "Joining" /\ new # old
      /\ imsiRnti[target] = new /\ ctx[new].source = old /\ ctx[new].rlc /\ ctx[new].requests
  BY <1>5, <1>6 DEF NewHome, InState, Found
<1>8. bearerIsMc
  BY <1>1, <1>4 DEF McInv, BearerFirst, HandoverTypes
<1>9. UNCHANGED <<setup, allInOutage, lastCell, bearerIsMc, mmWaveCell, mmWaveRnti,
                  ueRnti, ueMmWaveRnti, lteDl, lteUl, ueState>>
  BY <1>1, AtCellsFrame, HereAtCells
<1>10. /\ DOMAIN ctx' = DOMAIN ctx /\ ctx'[old] = [ctx[old] EXCEPT !.state = "Leaving"]
       /\ ctx'[old].state = "Leaving"
       /\ \A k \in DOMAIN ctx : k # old => ctx'[k] = ctx[k]
  <2>1. "Leaving" \in States
    BY DEF States
  <2>2. QED
    BY <1>1, <1>2, <2>1, StateChanges
<1>11. ctx'[old].cell = cell /\ ctx'[old].rlc = ctx[old].rlc /\ ctx'[old].expired = ctx[old].expired
  <2>1. ctx[old] \in Context
    BY <1>1, <1>2, ContextFacts
  <2>2. QED
    BY <1>6, <1>10, <2>1 DEF Context
<1>12. /\ forwarding'[cell] # 0
       /\ \A c \in Cells : c # cell => forwarding'[c] = forwarding[c]
  <2>1. target \in Nat \ {0}
    BY CellsAssumption
  <2>2. QED
    BY <1>1, <1>2, <2>1 DEF TypeInv, CellsTyped
<1>13. LeavingCourse /\ forwarding[cell] = 0
  BY <1>1, <1>5 DEF Course
<1>14. X2Course'
  <2>1. ASSUME NEW l \in Interfaces, NEW m \in Elements(T[l]) PROVE SideCourse(l, m)'
    <3>1. SideCourse(l, m)
      BY <1>2, <1>4 DEF Aside
    <3>2. ASSUME m.type = "UeContextRelease"
          PROVE  l[1] = LteCell /\ InState(l[2], m.rnti, "Leaving")' /\ m.rnti # mmWaveRnti'
      <4>1. l[1] = LteCell /\ InState(l[2], m.rnti, "Leaving") /\ m.rnti # mmWaveRnti
        BY <3>1, <3>2 DEF SideCourse
      <4>2. m.rnti \in DOMAIN ctx /\ ctx'[m.rnti] = ctx[m.rnti]
        BY <1>5, <1>10, <4>1 DEF InState, Found
      <4>3. QED
        BY <1>9, <1>10, <4>1, <4>2 DEF InState, Found
    <3>3. ASSUME m.type = "SwitchConnection"
          PROVE  l[1] = LteCell /\ Found(l[2], m.rnti)' /\ ctx'[m.rnti].rlc
      <4>1. l[1] = LteCell /\ Found(l[2], m.rnti) /\ ctx[m.rnti].rlc
        BY <3>1, <3>3 DEF SideCourse
      <4>2. CASE m.rnti = old
        BY <1>6, <1>10, <1>11, <4>1, <4>2 DEF Found
      <4>3. CASE m.rnti # old
        BY <1>10, <4>1, <4>3 DEF Found
      <4>4. QED
        BY <4>1, <4>2, <4>3
    <3>4. QED
      BY <3>1, <3>2, <3>3 DEF SideCourse
  <2>2. Aside(T)'
    BY <1>2, <1>4, <2>1 DEF Aside
  <2>3. Aside(x2)'
    BY <1>2, <2>2 DEF Aside
  <2>4. QED
    BY <2>3, AsideCourse
<1>15. RrcCourse'
  <2>1. commands = {} /\ completes' = {} /\ ueState' # "Handover"
        /\ FreeIn(lteDl', DlTypes) /\ FreeIn(lteUl', UlTypes)
    BY <1>2, <1>4, <1>9 DEF RrcFree
  <2>2. UeAt(mmWaveRnti)' /\ Source("Leaving")'
    BY <1>2, <1>5, <1>6, <1>9, <1>10, <1>11 DEF UeAt, Source, InState, Found
  <2>3. NewHome(ctx[new].cell, new, "Joining")'
    BY <1>2, <1>5, <1>7, <1>9, <1>10 DEF NewHome, InState, Found
  <2>4. ASSUME NEW command \in commands'
        PROVE  /\ command.from = mmWaveRnti' /\ UeAt(mmWaveRnti)' /\ Source("Leaving")'
               /\ NewHome(ctx[command.to].cell, command.to, "Joining")'
    <3>1. command.from = old /\ command.to = new
      BY <1>2, <2>1
    <3>2. NewHome(ctx[command.to].cell, command.to, "Joining")'
      BY <2>3, <3>1 DEF NewHome, InState, Found
    <3>3. QED
      BY <1>5, <1>9, <2>2, <3>1, <3>2
  <2>5. QED
    BY <2>1, <2>4 DEF RrcCourse, DlCourse, UlCourse, FreeIn, Elements, DlTypes, UlTypes
<1>16. ServingCourse'
  BY <1>1, <1>4, <1>5, <1>6, <1>8, <1>9, <1>10, <1>11 DEF Course, ServingCourse, Found
<1>17. LeavingCourse'
  <2>1. \A k \in DOMAIN ctx' : ~ctx'[k].expired
    BY <1>10, <1>11, <1>13 DEF LeavingCourse
  <2>2. ASSUME NEW k \in DOMAIN ctx', ctx'[k].state = "Leaving", k # old
        PROVE  /\ ctx'[k] = ctx[k] /\ ctx[k].state = "Leaving"
               /\ ctx[k].cell # cell /\ ctx[k].cell \in Cells
               /\ forwarding'[ctx'[k].cell] # 0
               /\ Release(k) \in Elements(x2'[<<LteCell, ctx'[k].cell>>])
    <3>1. ctx'[k] = ctx[k] /\ k \in DOMAIN ctx
      BY <1>10, <2>2
    <3>2. ctx[k].cell \in Cells /\ <<LteCell, ctx[k].cell>> \in Interfaces
      BY <1>1, <3>1, ContextFacts
    <3>3. forwarding[ctx[k].cell] # 0 /\ Release(k) \in Elements(x2[<<LteCell, ctx[k].cell>>])
      BY <1>5, <1>13, <2>2, <3>1 DEF LeavingCourse
    <3>4. ctx[k].cell # cell
      BY <1>13, <3>3
    <3>5. Release(k) \in Elements(x2'[<<LteCell, ctx[k].cell>>])
      BY <1>2, <1>4, <3>2, <3>3
    <3>6. QED
      BY <1>12, <2>2, <3>1, <3>2, <3>3, <3>4, <3>5
  <2>3. \A k \in DOMAIN ctx' : ctx'[k].state = "Leaving" =>
            /\ bearerIsMc' /\ forwarding'[ctx'[k].cell] # 0
            /\ k = mmWaveRnti' \/ Release(k) \in Elements(x2'[<<LteCell, ctx'[k].cell>>])
    BY <1>5, <1>8, <1>9, <1>11, <1>12, <2>2
  <2>4. \A i, j \in DOMAIN ctx' :
            ctx'[i].state = "Leaving" /\ ctx'[j].state = "Leaving" /\ ctx'[i].cell = ctx'[j].cell => i = j
    <3>1. \A k \in DOMAIN ctx' : ctx'[k].state = "Leaving" /\ k # old =>
              ctx'[k] = ctx[k] /\ ctx[k].state = "Leaving" /\ ctx[k].cell # cell
      BY <2>2
    <3>2. ctx'[old].cell = cell /\ DOMAIN ctx' = DOMAIN ctx
      BY <1>10, <1>11
    <3>3. \A i, j \in DOMAIN ctx :
              ctx[i].state = "Leaving" /\ ctx[j].state = "Leaving" /\ ctx[i].cell = ctx[j].cell => i = j
      BY <1>13 DEF LeavingCourse
    <3>4. QED
      BY <3>1, <3>2, <3>3
  <2>5. ASSUME NEW c \in Cells, forwarding'[c] # 0
        PROVE  \E k \in DOMAIN ctx' : InState(c, k, "Leaving")'
    <3>1. CASE c = cell
      BY <1>2, <1>10, <1>11, <3>1 DEF InState, Found
    <3>2. CASE c # cell
      <4>1. PICK k \in DOMAIN ctx : InState(c, k, "Leaving")
        BY <1>12, <1>13, <2>5, <3>2 DEF LeavingCourse
      <4>2. k # old
        BY <1>6, <3>2, <4>1 DEF InState, Found
      <4>3. QED
        BY <1>10, <4>1, <4>2 DEF InState, Found
    <3>3. QED
      BY <3>1, <3>2
  <2>6. QED
    BY <2>1, <2>3, <2>4, <2>5 DEF LeavingCourse, Release
<1>18. QED
  BY <1>14, <1>15, <1>16, <1>17 DEF Course

---------------------------------------------------------------------------
(***************************************************************************)
(* The course is kept.                                                     *)
(***************************************************************************)

\* While nothing goes wrong no handover is refused and none has failed.
LEMMA NothingFails ==
    ASSUME Undisturbed, NEW from, NEW to, <<from, to>> \in Interfaces,
           NEW type \in {"HandoverPreparationFailure", "HandoverFailed"}
    PROVE  ~Arrived(from, to, type)
<1> DEFINE s == x2[<<from, to>>]
<1>1. IsSequence(s) /\ X2Course
  BY DEF Undisturbed, McInv, Shapes, Links, Course
<1>2. SUFFICES ASSUME s # <<>>, Head(s).type = type PROVE FALSE
  BY DEF Arrived
<1>3. Head(s) \in Elements(s)
  <2> HIDE DEF s
  <2>1. QED
    BY <1>1, <1>2, ElementsFacts
<1>4. SideCourse(<<from, to>>, Head(s))
  BY <1>1, <1>3 DEF X2Course
<1>5. QED
  BY <1>2, <1>4 DEF SideCourse

CourseInv == mishaps = 0 => Course

\* A mmWave cell receives a message of X2.
LEMMA CellReceivesCourse ==
    ASSUME Undisturbed, CellReceives
    PROVE  Course'
<1>1. AtCells
  BY DEF CellReceives, AtCells
<1>2. PICK cell \in Cells :
         \/ RecvRlcSetupRequest(cell)
         \/ RecvMcHandoverRequest(cell)
         \/ RecvSwitchConnection(cell)
         \/ RecvUeContextRelease(cell)
         \/ \E other \in Cells \ {cell} :
                \/ AdmitHandover(other, cell)
                \/ RecvHandoverRequestAck(other, cell)
                \/ RecvHandoverPreparationFailure(other, cell)
  BY DEF CellReceives
<1>3. ASSUME NEW other \in Cells \ {cell}
      PROVE  ~RecvHandoverPreparationFailure(other, cell)
  <2>1. <<other, cell>> \in Interfaces
    BY InterfaceOfCells
  <2>2. QED
    BY <2>1, NothingFails DEF RecvHandoverPreparationFailure
<1>4. QED
  BY <1>1, <1>2, <1>3, RecvRlcSetupRequestCourse, RecvMcHandoverRequestCourse,
     RecvSwitchConnectionCourse, RecvUeContextReleaseCourse, AdmitHandoverCourse,
     RecvHandoverRequestAckCourse

\* The coordinator receives one.
LEMMA CoordinatorReceivesCourse ==
    ASSUME Undisturbed, CoordinatorReceives
    PROVE  Course'
<1>1. PICK cell \in Cells :
         /\ \/ RecvRlcSetupCompleted(cell)
            \/ RecvSecondaryCellHandoverCompleted(cell)
            \/ RecvHandoverFailed(cell)
         /\ UNCHANGED <<contextVars, ueVars>>
  BY DEF CoordinatorReceives
<1>2. ~RecvHandoverFailed(cell)
  BY InterfaceOfCells, NothingFails DEF RecvHandoverFailed
<1>3. QED
  BY <1>1, <1>2, RecvRlcSetupCompletedCourse, RecvSecondaryCellHandoverCompletedCourse

\* What goes wrong is counted, and the timers expire only after that.
LEMMA MishapsAreCounted ==
    ASSUME TypeInv, UeRandomAccessFailed \/ Mishaps
    PROVE  mishaps' # 0
<1>1. mishaps \in Nat
  BY UeContextAssumption DEF TypeInv, CellsTyped
<1>2. mishaps' = mishaps + 1
  BY DEF UeRandomAccessFailed, Mishaps, RefuseHandover, LoseCommand, LoseComplete, Mishap
<1>3. QED
  BY <1>1, <1>2

\* No timer of a handover expires.
LEMMA TimersWait ==
    ASSUME Undisturbed
    PROVE  ~Timers
<1>1. \A id \in DOMAIN ctx : ~ctx[id].expired
  BY DEF Undisturbed, Course, LeavingCourse
<1>2. mishaps = 0 /\ ~(0 > 0)
  BY DEF Undisturbed
<1>3. QED
  BY <1>1, <1>2 DEF Timers, HandoverJoiningTimeout, RemoveUe, HandoverLeavingTimeout

\* A step in which nothing goes wrong counts nothing.
LEMMA OtherStepsCountNothing ==
    ASSUME [Next]_vars, ~UeRandomAccessFailed, ~Mishaps
    PROVE  UNCHANGED mishaps
<1>1. CASE \/ Trigger \/ TimeToTrigger \/ CoordinatorReceives \/ LteCellHearsUe
           \/ UNCHANGED vars
  <2>1. UNCHANGED contextVars
    BY <1>1 DEF Trigger, TimeToTrigger, CoordinatorReceives, LteCellHearsUe,
       RecvSecondaryCellConnected, RecvUeReconfigured, vars
  <2>2. QED
    BY <2>1 DEF contextVars
<1>2. CASE Ue
  BY <1>2 DEF Ue, UeConnectToMmWave, UeReconfigure, UeRecvConnectionSwitch,
     UeRecvHandoverCommand, UeRandomAccessSuccessful, contextVars
<1>3. CASE CellReceives
  BY <1>3 DEF CellReceives, RecvRlcSetupRequest, RecvMcHandoverRequest, RecvSwitchConnection,
     RecvUeContextRelease, AdmitHandover, RecvHandoverRequestAck, RecvHandoverPreparationFailure
<1>4. CASE CellHearsUe \/ Timers
  BY <1>4 DEF CellHearsUe, RecvReconfigurationComplete, Timers, HandoverJoiningTimeout,
     RemoveUe, HandoverLeavingTimeout
<1>5. QED
  BY <1>1, <1>2, <1>3, <1>4 DEF Next

\* A procedure takes its course as long as nothing goes wrong.
LEMMA CourseNext ==
    ASSUME McInv, TypeInv, CourseInv, [Next]_vars
    PROVE  CourseInv'
<1>1. SUFFICES ASSUME mishaps' = 0 PROVE Course'
  BY DEF CourseInv
<1>2. ~UeRandomAccessFailed /\ ~Mishaps
  BY <1>1, MishapsAreCounted
<1>3. Undisturbed
  BY <1>1, <1>2, OtherStepsCountNothing DEF Undisturbed, CourseInv
<1>4. ~Timers
  BY <1>3, TimersWait
<1>5. CASE Trigger \/ TimeToTrigger \/ UNCHANGED vars
  BY <1>3, <1>5, TriggerCourse, TimeToTriggerCourse, StutterCourse
<1>6. CASE CoordinatorReceives \/ CellReceives
  BY <1>3, <1>6, CoordinatorReceivesCourse, CellReceivesCourse
<1>7. CASE CellHearsUe
  BY <1>3, <1>7, RecvReconfigurationCompleteCourse DEF CellHearsUe, AtCells
<1>8. CASE LteCellHearsUe
  BY <1>3, <1>8, RecvSecondaryCellConnectedCourse, RecvUeReconfiguredCourse DEF LteCellHearsUe
<1>9. CASE Ue
  BY <1>3, <1>9, UeConnectToMmWaveCourse, UeReconfigureCourse, UeRecvConnectionSwitchCourse,
     UeRecvHandoverCommandCourse, UeRandomAccessSuccessfulCourse DEF Ue
<1>10. QED
  BY <1>2, <1>4, <1>5, <1>6, <1>7, <1>8, <1>9 DEF Next

\* Before the UE has a mmWave cell there is nothing to say but that it may be
\* on its way to its first.
LEMMA CourseInit ==
    ASSUME Init
    PROVE  CourseInv
<1>1. /\ X2Init /\ CoordinatorInit
      /\ ctx = <<>> /\ forwarding = [cell \in Cells |-> 0]
      /\ commands = {} /\ completes = {} /\ ueState = "Idle" /\ lteUl = <<>>
      /\ setup = FALSE /\ bearerIsMc = FALSE
  BY DEF Init, UeContextInit, CoordinatorInit
<1>2. Elements(<<>>) = {} /\ InOrder(<<>>) /\ DOMAIN ctx = {}
  BY <1>1 DEF Elements, InOrder
<1>3. X2Course
  <2>1. \A l \in Interfaces : x2[l] = <<>>
    BY <1>1 DEF X2Init
  <2>2. QED
    BY <1>2, <2>1 DEF X2Course
<1>4. RrcCourse
  <2>1. \A msg \in Elements(lteDl) : DlCourse(msg)
    <3>1. CASE lteDl = <<>>
      BY <1>2, <3>1
    <3>2. ASSUME NEW cell \in Cells, lteDl = <<[type |-> "Connect", cell |-> cell]>>
          PROVE  \A msg \in Elements(lteDl) : DlCourse(msg)
      <4> DEFINE order == [type |-> "Connect", cell |-> cell]
      <4>1. DlCourse(order)
        BY <1>1 DEF DlCourse
      <4>2. lteDl = <<order>>
        BY <3>2
      <4> HIDE DEF order
      <4>3. Elements(lteDl) = {order}
        BY <4>2 DEF Elements
      <4>4. QED
        BY <4>1, <4>3
    <3>3. QED
      BY <1>1, <3>1, <3>2 DEF CoordinatorInit
  <2>2. QED
    BY <1>1, <1>2, <2>1 DEF RrcCourse
<1>5. ServingCourse
  BY <1>1 DEF ServingCourse
<1>6. LeavingCourse
  BY <1>1, <1>2 DEF LeavingCourse
<1>7. QED
  BY <1>3, <1>4, <1>5, <1>6 DEF Course, CourseInv

\* As long as nothing goes wrong a procedure takes its course: where its message
\* is says what each cell, the coordinator and the UE know of the UE's contexts,
\* and what it has left behind waits for a message that is under way.
THEOREM CourseIsTaken == Spec => [](McInv /\ TypeInv /\ CourseInv)
<1>1. Init => McInv /\ TypeInv /\ CourseInv
  BY McInit, TypeInit, CourseInit
<1>2. (McInv /\ TypeInv /\ CourseInv) /\ [Next]_vars => (McInv /\ TypeInv /\ CourseInv)'
  BY McNext, TypeNext, CourseNext
<1>3. QED
  BY <1>1, <1>2, PTL DEF Spec

\* A UE that is not being handed over is served by the one context that the
\* coordinator, the map of the cell and both RRC entities of the UE know, at the
\* cell the coordinator believes in, and that context has the RLC of the bearer
\* (LteEnbRrc, UeManager and LteUeRrc, whatever their order).
THEOREM ServedAlways == Spec => []ServedByItsContext
<1>1. McInv /\ TypeInv /\ CourseInv => ServedByItsContext
  BY DEF CourseInv, Course, ServingCourse, Settled, Resides, UeAt, InState,
     ServedByItsContext, ServingContext
<1>2. QED
  BY <1>1, CourseIsTaken, PTL

\* No handler of X2 meets a context it asserts not to: a request finds its UE
\* connected, an acknowledgement finds it prepared and its tunnel unforwarded, a
\* release finds the context that leaves and the forwarding it stops, and what
\* moves the bearer to LTE finds a context with its RLC.
THEOREM HandlersAlwaysAccept == Spec => []HandlersAccept
<1>1. ASSUME McInv, TypeInv, Course, NEW link \in Interfaces, x2[link] # <<>>
      PROVE  CanHandle(link[1], link[2], Head(x2[link]))
  <2> DEFINE msg == Head(x2[link])
             to == link[2]
  <2>1. IsSequence(x2[link])
    BY <1>1 DEF McInv, Shapes, Links
  <2>2. msg \in Elements(x2[link])
    BY <1>1, <2>1, ElementsFacts
  <2>3. TokenCourse(link, msg) /\ SideCourse(link, msg) /\ LeavingCourse
    BY <1>1, <2>2 DEF Course, X2Course
  <2> HIDE DEF msg, to
  <2>4. msg.type = "McHandoverRequest" => InState(to, imsiRnti[to], "Connected")
    BY <2>3 DEF to, TokenCourse, Settled, Resides
  <2>5. msg.type = "RlcSetupRequest" => Found(to, msg.rnti)
    BY <2>3 DEF to, TokenCourse, Resides, InState
  <2>6. msg.type = "SwitchConnection" => Found(to, msg.rnti) /\ ctx[msg.rnti].rlc
    BY <2>3 DEF to, SideCourse
  <2>7. msg.type = "UeContextRelease" => InState(to, msg.rnti, "Leaving") /\ forwarding[to] # 0
    <3>1. SUFFICES ASSUME msg.type = "UeContextRelease"
                   PROVE  InState(to, msg.rnti, "Leaving") /\ forwarding[to] # 0
      OBVIOUS
    <3>2. InState(to, msg.rnti, "Leaving")
      BY <2>3, <3>1 DEF to, SideCourse
    <3>3. QED
      BY <2>3, <3>2 DEF LeavingCourse, InState, Found
  <2>8. msg.type = "HandoverRequestAck" =>
            InState(to, msg.source, "Preparation") /\ forwarding[to] = 0
    BY <2>3 DEF to, TokenCourse, Source
  <2>9. msg.type # "HandoverPreparationFailure"
    BY <2>3 DEF SideCourse
  <2>10. CanHandle(link[1], to, msg)
    BY <2>4, <2>5, <2>6, <2>7, <2>8, <2>9 DEF CanHandle
  <2>11. QED
    BY <2>10 DEF msg, to
<1>2. McInv /\ TypeInv /\ CourseInv => HandlersAccept
  BY <1>1 DEF CourseInv, HandlersAccept
<1>3. QED
  BY <1>2, CourseIsTaken, PTL

\* A cell forwards what arrives for the UE exactly while it has a context that
\* leaves: the tunnel that EpcX2 forwards is neither left behind by a release
\* nor taken away before it.
THEOREM ForwardingOnlyWhileLeaving == Spec => []ForwardingMeansLeaving
<1>1. McInv /\ TypeInv /\ CourseInv => ForwardingMeansLeaving
  <2>1. SUFFICES ASSUME LeavingCourse, NEW cell \in Cells
                 PROVE  forwarding[cell] # 0 <=> \E id \in DOMAIN ctx : InState(cell, id, "Leaving")
    BY DEF CourseInv, Course, ForwardingMeansLeaving
  <2>2. QED
    BY <2>1 DEF LeavingCourse, InState, Found
<1>2. QED
  BY <1>1, CourseIsTaken, PTL

=============================================================================
