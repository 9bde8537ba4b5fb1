------------------------ MODULE OrderLifecycleProofs ------------------------
(***************************************************************************)
(* The invariants of OrderLifecycle and the refinement of OrderTrust, for  *)
(* orders of every size.                                                   *)
(*                                                                         *)
(* Each function of app/orders.py is first shown, on its own, to return a  *)
(* sound order from a sound one (the lemmas ...Sound), together with what  *)
(* it may do to the trusted flag, to filled and to an assumed FILLED.  The *)
(* theorems then only split Next into the six calls.                       *)
(***************************************************************************)
EXTENDS OrderLifecycle, TLAPS

Order == [status : Statuses, qty : Sizes, filled : Nat, confirmed : BOOLEAN]

\* The inductive invariant, said of one order.
Sound(o) ==
  /\ o \in Order
  /\ o.confirmed => ~IsOpen(o.status)
  /\ o.filled <= o.qty
  /\ o.status = "FILLED" /\ ~o.confirmed => o.filled = o.qty

\* What every call but confirm_terminal respects when it turns o into p.
Respects(o, p) ==
  /\ p.filled >= o.filled
  /\ p.confirmed => p.filled = o.filled
  /\ o.confirmed => p.confirmed /\ p.status = o.status
  /\ o.status = "FILLED" => p.status = "FILLED"

USE DEF Statuses, Terminal, IsOpen, Returned, Raised

LEMMA WithStatus ==
  ASSUME NEW o \in Order, NEW status \in Statuses
  PROVE  /\ [o EXCEPT !.status = status] \in Order
         /\ [o EXCEPT !.status = status].status = status
         /\ [o EXCEPT !.status = status].qty = o.qty
         /\ [o EXCEPT !.status = status].filled = o.filled
         /\ [o EXCEPT !.status = status].confirmed = o.confirmed
BY DEF Order

LEMMA WithFilled ==
  ASSUME NEW o \in Order, NEW filled \in Nat
  PROVE  /\ [o EXCEPT !.filled = filled] \in Order
         /\ [o EXCEPT !.filled = filled].status = o.status
         /\ [o EXCEPT !.filled = filled].qty = o.qty
         /\ [o EXCEPT !.filled = filled].filled = filled
         /\ [o EXCEPT !.filled = filled].confirmed = o.confirmed
BY DEF Order

LEMMA WithConfirmed ==
  ASSUME NEW o \in Order, NEW confirmed \in BOOLEAN
  PROVE  /\ [o EXCEPT !.confirmed = confirmed] \in Order
         /\ [o EXCEPT !.confirmed = confirmed].status = o.status
         /\ [o EXCEPT !.confirmed = confirmed].qty = o.qty
         /\ [o EXCEPT !.confirmed = confirmed].filled = o.filled
         /\ [o EXCEPT !.confirmed = confirmed].confirmed = confirmed
BY DEF Order

LEMMA TransitionSound ==
  ASSUME NEW o \in Order, NEW requested \in Statuses
  PROVE  /\ Transition(o, requested).order \in Order
         /\ Transition(o, requested).raised \in Exceptions
         /\ Transition(o, requested).order.filled = o.filled
         /\ Transition(o, requested).order.qty = o.qty
         /\ Transition(o, requested).order.confirmed = o.confirmed
         /\ IF requested \in LegalTransitions[o.status]
              THEN Transition(o, requested).order.status = requested
              ELSE Transition(o, requested).order = o
         /\ (Transition(o, requested).raised = "none")
              <=> (requested \in LegalTransitions[o.status])
BY DEF Transition, CanTransition, Order, Exceptions

-----------------------------------------------------------------------------
LEMMA MarkSubmittedSound ==
  ASSUME NEW o, Sound(o)
  PROVE  /\ Sound(MarkSubmitted(o).order)
         /\ Respects(o, MarkSubmitted(o).order)
         /\ MarkSubmitted(o).raised \in Exceptions
  <1>1. o \in Order
    BY DEF Sound
  <1>2. Transition(o, "SUBMITTED").order.status = "SUBMITTED" => o.status = "NEW" \/ Transition(o, "SUBMITTED").order = o
    BY <1>1, TransitionSound DEF LegalTransitions, Order
  <1> QED
    BY <1>1, <1>2, TransitionSound, SizesAssumption
       DEF MarkSubmitted, Sound, Respects, Order, LegalTransitions

LEMMA MarkWorkingSound ==
  ASSUME NEW o, Sound(o)
  PROVE  /\ Sound(MarkWorking(o).order)
         /\ Respects(o, MarkWorking(o).order)
         /\ MarkWorking(o).raised \in Exceptions
  <1>1. o \in Order
    BY DEF Sound
  <1> QED
    BY <1>1, TransitionSound, SizesAssumption
       DEF MarkWorking, Sound, Respects, Order, LegalTransitions

\* A fill is counted only while the end is not trusted, and only up to qty.
LEMMA ApplyFillSound ==
  ASSUME NEW o, Sound(o), NEW qty \in Nat \ {0}
  PROVE  /\ Sound(ApplyFill(o, qty).order)
         /\ Respects(o, ApplyFill(o, qty).order)
         /\ ApplyFill(o, qty).raised \in Exceptions
  <1> DEFINE total  == o.filled + qty
             booked == Booked(o, qty)
             target == FillTarget(booked)
  <1>1. o \in Order /\ o.qty \in Nat /\ o.filled \in Nat /\ total \in Nat
    <2>1. o \in Order
      BY DEF Sound
    <2>2. o.qty \in Sizes /\ o.filled \in Nat
      BY <2>1 DEF Order
    <2>3. o.qty \in Nat
      BY <2>2, SizesAssumption
    <2> QED
      BY <2>1, <2>2, <2>3
  <1>2. CASE o.confirmed
    BY <1>1, <1>2 DEF ApplyFill, Sound, Respects, Exceptions, Order
  <1>3. CASE ~o.confirmed /\ total > o.qty
    BY <1>1, <1>3 DEF ApplyFill, Sound, Respects, Exceptions, Order
  <1>4. booked \in Order /\ booked.filled = total /\ booked.qty = o.qty
        /\ booked.status = o.status /\ booked.confirmed = o.confirmed
    BY <1>1, WithFilled DEF Booked
  <1>5. target \in Statuses /\ target \in {"FILLED", "PARTIALLY_FILLED"}
        /\ (target = "FILLED" <=> total >= o.qty)
    BY <1>4 DEF FillTarget
  <1>6. CASE ~o.confirmed /\ total <= o.qty /\ o.status = "CANCELLED"
    <2> DEFINE p == [booked EXCEPT !.status = target]
    <2>1. ApplyFill(o, qty) = Returned(p)
      BY <1>1, <1>4, <1>6 DEF ApplyFill, Land
    <2> HIDE DEF booked, target
    <2>2. p \in Order /\ p.status = target /\ p.filled = total /\ p.qty = o.qty
          /\ p.confirmed = o.confirmed
      BY <1>4, <1>5, WithStatus
    <2>3. ApplyFill(o, qty).order = p /\ ApplyFill(o, qty).raised = "none"
      BY <2>1
    <2> HIDE DEF p
    <2> QED
      BY <1>1, <1>5, <1>6, <2>2, <2>3 DEF Sound, Respects, Exceptions
  <1>7. CASE ~o.confirmed /\ total <= o.qty /\ o.status # "CANCELLED"
    <2>1. ApplyFill(o, qty) = Transition(booked, target)
      BY <1>1, <1>4, <1>7 DEF ApplyFill, Land
    <2> HIDE DEF booked, target
    <2>2. booked.status \in Statuses
      BY <1>4 DEF Order
    <2> DEFINE p == Transition(booked, target).order
    <2>3. p \in Order /\ p.filled = total /\ p.qty = o.qty /\ p.confirmed = o.confirmed
          /\ (p.status = target \/ (p = booked /\ target \notin LegalTransitions[o.status]))
          /\ Transition(booked, target).raised \in Exceptions
      BY <1>4, <1>5, TransitionSound
    <2>4. o.status = "FILLED" => total > o.qty
      BY <1>1, <1>7 DEF Sound
    <2> HIDE DEF p
    <2>5. Sound(p)
      BY <1>1, <1>4, <1>5, <1>7, <2>3, <2>4 DEF Sound
    <2>6. Respects(o, p)
      BY <1>1, <1>4, <1>5, <1>7, <2>3, <2>4 DEF Respects
    <2> QED
      BY <2>1, <2>3, <2>5, <2>6 DEF p
  <1> QED
    BY <1>1, <1>2, <1>3, <1>6, <1>7

LEMMA MarkCancelledSound ==
  ASSUME NEW o, Sound(o), NEW confirmed \in BOOLEAN
  PROVE  /\ Sound(MarkCancelled(o, confirmed).order)
         /\ Respects(o, MarkCancelled(o, confirmed).order)
         /\ MarkCancelled(o, confirmed).raised \in Exceptions
  <1> DEFINE r == IF o.status = "CANCELLED" THEN Returned(o)
                                            ELSE Transition(o, "CANCELLED")
  <1>1. o \in Order /\ o.qty \in Nat /\ o.filled \in Nat
        /\ o.confirmed \in BOOLEAN /\ o.status \in Statuses
    BY SizesAssumption DEF Sound, Order
  <1>2. CASE o.status = "FILLED" /\ o.confirmed
    BY <1>1, <1>2 DEF MarkCancelled, Respects, Exceptions
  <1>3. r.order \in Order /\ r.order.filled = o.filled /\ r.order.qty = o.qty
        /\ r.order.confirmed = o.confirmed /\ r.raised \in Exceptions
    BY <1>1, TransitionSound DEF Exceptions
  <1>4. CASE ~(o.status = "FILLED" /\ o.confirmed) /\ r.raised # "none"
    <2>1. MarkCancelled(o, confirmed) = r
      BY <1>4 DEF MarkCancelled
    <2>2. r.order = o
      BY <1>1, <1>4, TransitionSound
    <2> QED
      BY <1>1, <1>3, <2>1, <2>2 DEF Respects
  <1>5. CASE ~(o.status = "FILLED" /\ o.confirmed) /\ r.raised = "none"
    <2> DEFINE p == [r.order EXCEPT !.confirmed = @ \/ confirmed]
    <2>1. MarkCancelled(o, confirmed) = Returned(p)
      BY <1>5 DEF MarkCancelled
    <2>2. r.order.status = "CANCELLED"
      BY <1>1, <1>5, TransitionSound
    <2>3. o.status # "FILLED" /\ (o.confirmed => o.status = "CANCELLED")
      BY <1>1, <1>5, TransitionSound DEF Sound, LegalTransitions
    <2> HIDE DEF r
    <2>4. p \in Order /\ p.status = "CANCELLED" /\ p.filled = o.filled
          /\ p.qty = o.qty /\ p.confirmed = (o.confirmed \/ confirmed)
      BY <1>1, <1>3, <2>2 DEF Order
    <2>5. MarkCancelled(o, confirmed).order = p
          /\ MarkCancelled(o, confirmed).raised = "none"
      BY <2>1
    <2> HIDE DEF p
    <2> QED
      BY <1>1, <2>3, <2>4, <2>5 DEF Sound, Respects, Exceptions
  <1> QED
    BY <1>2, <1>4, <1>5

LEMMA MarkRejectedSound ==
  ASSUME NEW o, Sound(o), NEW confirmed \in BOOLEAN
  PROVE  /\ Sound(MarkRejected(o, confirmed).order)
         /\ Respects(o, MarkRejected(o, confirmed).order)
         /\ MarkRejected(o, confirmed).raised \in Exceptions
  <1> DEFINE r == IF o.status = "REJECTED" THEN Returned(o)
                                           ELSE Transition(o, "REJECTED")
  <1>1. o \in Order /\ o.qty \in Nat /\ o.filled \in Nat
        /\ o.confirmed \in BOOLEAN /\ o.status \in Statuses
    BY SizesAssumption DEF Sound, Order
  <1>2. CASE o.status = "REJECTED" /\ o.confirmed
    BY <1>1, <1>2 DEF MarkRejected, Respects, Exceptions
  <1>3. CASE ~(o.status = "REJECTED" /\ o.confirmed) /\ o.filled > 0
    BY <1>1, <1>3 DEF MarkRejected, Respects, Exceptions
  <1>4. r.order \in Order /\ r.order.filled = o.filled /\ r.order.qty = o.qty
        /\ r.order.confirmed = o.confirmed /\ r.raised \in Exceptions
    BY <1>1, TransitionSound DEF Exceptions
  <1>5. CASE ~(o.status = "REJECTED" /\ o.confirmed) /\ ~(o.filled > 0)
             /\ r.raised # "none"
    <2>1. MarkRejected(o, confirmed) = r
      BY <1>5 DEF MarkRejected
    <2>2. r.order = o
      BY <1>1, <1>5, TransitionSound
    <2> QED
      BY <1>1, <1>4, <2>1, <2>2 DEF Respects
  <1>6. CASE ~(o.status = "REJECTED" /\ o.confirmed) /\ ~(o.filled > 0)
             /\ r.raised = "none"
    <2> DEFINE p == [r.order EXCEPT !.confirmed = confirmed]
    <2>1. MarkRejected(o, confirmed) = Returned(p)
      BY <1>6 DEF MarkRejected
    <2>2. r.order.status = "REJECTED"
      BY <1>1, <1>6, TransitionSound
    <2>3. o.status # "FILLED" /\ ~o.confirmed
      BY <1>1, <1>6, TransitionSound DEF Sound, LegalTransitions
    <2> HIDE DEF r
    <2>4. p \in Order /\ p.status = "REJECTED" /\ p.filled = o.filled
          /\ p.qty = o.qty /\ p.confirmed = confirmed
      BY <1>4, <2>2, WithConfirmed
    <2>5. MarkRejected(o, confirmed).order = p
          /\ MarkRejected(o, confirmed).raised = "none"
      BY <2>1
    <2> HIDE DEF p
    <2> QED
      BY <1>1, <2>3, <2>4, <2>5 DEF Sound, Respects, Exceptions
  <1> QED
    BY <1>1, <1>2, <1>3, <1>5, <1>6

\* The broker's answer may exchange one end for another, and take an assumed
\* end back, but it never moves filled nor takes the trusted flag back.
LEMMA ConfirmTerminalSound ==
  ASSUME NEW o, Sound(o), NEW status \in Statuses
  PROVE  /\ Sound(ConfirmTerminal(o, status))
         /\ ConfirmTerminal(o, status).filled = o.filled
         /\ o.confirmed => ConfirmTerminal(o, status).confirmed
  <1>1. o \in Order /\ o.qty \in Nat /\ o.filled \in Nat
    BY SizesAssumption DEF Sound, Order
  <1>2. CASE ~IsOpen(status)
    <2> DEFINE p == [o EXCEPT !.status = status, !.confirmed = TRUE]
    <2>1. ConfirmTerminal(o, status) = p
      BY <1>2 DEF ConfirmTerminal
    <2>2. p \in Order /\ p.status = status /\ p.filled = o.filled
          /\ p.qty = o.qty /\ p.confirmed
      BY <1>1 DEF Order
    <2> HIDE DEF p
    <2> QED
      BY <1>1, <1>2, <2>1, <2>2 DEF Sound
  <1>3. CASE IsOpen(status) /\ ~IsOpen(o.status) /\ ~o.confirmed
    <2> DEFINE p == [o EXCEPT !.status = status]
    <2>1. ConfirmTerminal(o, status) = p
      BY <1>3 DEF ConfirmTerminal
    <2>2. p \in Order /\ p.status = status /\ p.filled = o.filled
          /\ p.qty = o.qty /\ p.confirmed = o.confirmed
      BY <1>1, WithStatus
    <2> HIDE DEF p
    <2> QED
      BY <1>1, <1>3, <2>1, <2>2 DEF Sound
  <1>4. CASE IsOpen(status) /\ ~(~IsOpen(o.status) /\ ~o.confirmed)
    BY <1>1, <1>4 DEF ConfirmTerminal
  <1> QED
    BY <1>2, <1>3, <1>4

-----------------------------------------------------------------------------
\* The invariant, and what a step may do to the order.
IInv == Sound(order) /\ lastCall \in [op : Operations, raised : Exceptions]

LocalStep == lastCall'.op # "confirm_terminal" /\ Respects(order, order')

BrokerStep ==
  /\ lastCall'.op = "confirm_terminal"
  /\ order'.filled = order.filled
  /\ order.confirmed => order'.confirmed

LEMMA InitInvariant == Init => IInv
  <1> SUFFICES ASSUME Init PROVE IInv
    OBVIOUS
  <1> PICK size \in Sizes : order = NewOrder(size)
    BY DEF Init
  <1>1. order \in Order /\ order.status = "NEW" /\ order.filled = 0
        /\ order.qty = size /\ ~order.confirmed
    BY DEF NewOrder, Order
  <1>2. size \in Nat /\ 0 <= size
    BY SizesAssumption
  <1>3. lastCall \in [op : Operations, raised : Exceptions]
    BY DEF Init, Operations, Exceptions
  <1> QED
    BY <1>1, <1>2, <1>3 DEF IInv, Sound

LEMMA StepKeepsInvariant ==
  ASSUME IInv, Next
  PROVE  IInv' /\ (LocalStep \/ BrokerStep)
  <1>1. Sound(order)
    BY DEF IInv
  <1>2. CASE Submitted
    BY <1>1, <1>2, MarkSubmittedSound
       DEF Submitted, Call, IInv, LocalStep, Operations, Exceptions
  <1>3. CASE Working
    BY <1>1, <1>3, MarkWorkingSound
       DEF Working, Call, IInv, LocalStep, Operations, Exceptions
  <1>4. CASE Filled
    <2> PICK qty \in 1 .. order.qty + 1 : Call("apply_fill", ApplyFill(order, qty))
      BY <1>4 DEF Filled
    <2>1. order.qty \in Nat
      BY <1>1, SizesAssumption DEF Sound, Order
    <2>2. qty \in Nat \ {0}
      BY <2>1
    <2> QED
      BY <1>1, <2>2, ApplyFillSound DEF Call, IInv, LocalStep, Operations, Exceptions
  <1>5. CASE Cancelled
    <2> PICK confirmed \in BOOLEAN : Call("mark_cancelled", MarkCancelled(order, confirmed))
      BY <1>5 DEF Cancelled
    <2> QED
      BY <1>1, MarkCancelledSound DEF Call, IInv, LocalStep, Operations, Exceptions
  <1>6. CASE Rejected
    <2> PICK confirmed \in BOOLEAN : Call("mark_rejected", MarkRejected(order, confirmed))
      BY <1>6 DEF Rejected
    <2> QED
      BY <1>1, MarkRejectedSound DEF Call, IInv, LocalStep, Operations, Exceptions
  <1>7. CASE Confirmed
    <2> PICK status \in Statuses :
          Call("confirm_terminal", Returned(ConfirmTerminal(order, status)))
      BY <1>7 DEF Confirmed
    <2>1. order' = ConfirmTerminal(order, status)
          /\ lastCall' = [op |-> "confirm_terminal", raised |-> "none"]
      BY DEF Call
    <2> QED
      BY <1>1, <2>1, ConfirmTerminalSound DEF IInv, BrokerStep, Operations, Exceptions
  <1> QED
    BY <1>2, <1>3, <1>4, <1>5, <1>6, <1>7 DEF Next

LEMMA StutterKeepsInvariant == IInv /\ UNCHANGED vars => IInv'
BY DEF IInv, vars

\* The whole invariant holds in every reachable state, for orders of every size.
THEOREM Inductive == Spec => []IInv
  <1>1. IInv /\ [Next]_vars => IInv'
    BY StepKeepsInvariant, StutterKeepsInvariant
  <1> QED
    BY InitInvariant, <1>1, PTL DEF Spec

\* The order and the outcome of the last call keep their types.
THEOREM TypeCorrect == Spec => []TypeOK
  <1>1. IInv => TypeOK
    BY DEF IInv, Sound, Order, TypeOK
  <1> QED
    BY <1>1, Inductive, PTL

\* terminal_confirmed is only set on an ended order (orders.py, is_terminal).
THEOREM TrustOnlyTerminal == Spec => []TrustIsForTerminal
  <1>1. IInv => TrustIsForTerminal
    BY DEF IInv, Sound, TrustIsForTerminal
  <1> QED
    BY <1>1, Inductive, PTL

\* filled_qty never passes qty (orders.apply_fill's OverFill test).
THEOREM Overfill == Spec => []NeverOverfilled
  <1>1. IInv => NeverOverfilled
    BY DEF IInv, Sound, NeverOverfilled
  <1> QED
    BY <1>1, Inductive, PTL

\* A FILLED nobody confirmed has all its executions (orders.apply_fill).
THEOREM AssumedFilled == Spec => []AssumedFilledIsComplete
  <1>1. IInv => AssumedFilledIsComplete
    BY DEF IInv, Sound, AssumedFilledIsComplete
  <1> QED
    BY <1>1, Inductive, PTL

\* Once the broker has confirmed the end, no call re-opens the order, takes the
\* flag back or counts a fill, whatever the order's size.
THEOREM TrustedFinal == Spec => TrustedIsFinal
  <1>1. ASSUME IInv, IInv', [Next]_vars
        PROVE  [order.confirmed =>
                  /\ order'.confirmed /\ ~IsOpen(order'.status)
                  /\ order'.filled = order.filled
                  /\ order'.status # order.status
                       => lastCall'.op = "confirm_terminal"]_vars
    <2>1. CASE UNCHANGED vars
      BY <2>1
    <2>2. CASE Next
      <3>1. Sound(order')
        BY <1>1 DEF IInv, Sound
      <3>2. LocalStep \/ BrokerStep
        BY <1>1, <2>2, StepKeepsInvariant
      <3>3. order'.confirmed => ~IsOpen(order'.status)
        BY <3>1 DEF Sound
      <3> QED
        BY <3>2, <3>3 DEF LocalStep, BrokerStep, Respects
    <2> QED
      BY <1>1, <2>1, <2>2
  <1> QED
    BY <1>1, Inductive, PTL DEF Spec, TrustedIsFinal

\* Only the broker's answer displaces an assumed FILLED.
THEOREM BrokerUndoesFilled == Spec => OnlyBrokerUndoesFilled
  <1>1. ASSUME IInv, [Next]_vars
        PROVE  [order.status = "FILLED" /\ order'.status # "FILLED"
                  => lastCall'.op = "confirm_terminal"]_vars
    BY <1>1, StepKeepsInvariant DEF LocalStep, BrokerStep, Respects
  <1> QED
    BY <1>1, Inductive, PTL DEF Spec, OnlyBrokerUndoesFilled

\* The state machine of orders.py implements the promise of its docstring.
THEOREM Refinement == Spec => ImplementsTrust
  <1>1. Init => Trust!Init
    <2> SUFFICES ASSUME Init PROVE Trust!Init
      OBVIOUS
    <2> PICK size \in Sizes : order = NewOrder(size)
      BY DEF Init
    <2> QED
      BY DEF NewOrder, Trust!Init, Phase, IsTerminal, NeedsConfirmation
  <1>2. ASSUME IInv, IInv', [Next]_vars
        PROVE  [Trust!Next]_(Trust!trustVars)
    <2>1. CASE UNCHANGED vars
      BY <2>1 DEF vars, Trust!trustVars, Phase, IsTerminal, NeedsConfirmation
    <2>2. CASE Next
      <3>1. LocalStep \/ BrokerStep
        BY <1>2, <2>2, StepKeepsInvariant
      <3>2. order.filled \in Nat /\ order'.filled \in Nat
        BY <1>2 DEF IInv, Sound, Order
      <3>3. /\ order'.filled >= order.filled
            /\ order.confirmed => order'.confirmed
            /\ order'.confirmed => order'.filled = order.filled
        BY <3>1, <3>2 DEF LocalStep, BrokerStep, Respects
      <3>4. /\ (Phase = "trusted") <=> order.confirmed
            /\ (Phase' = "trusted") <=> order'.confirmed
            /\ Phase \in {"open", "assumed", "trusted"}
            /\ Phase' \in {"open", "assumed", "trusted"}
        BY <1>2 DEF IInv, Sound, Phase, IsTerminal, NeedsConfirmation
      <3> HIDE DEF Phase
      <3>5. CASE order'.filled = order.filled
        BY <3>3, <3>4, <3>5
           DEF Trust!Next, Trust!Assume, Trust!Disagree, Trust!Confirm, Trust!trustVars
      <3>6. CASE order'.filled # order.filled
        <4>1. order'.filled > order.filled /\ Phase # "trusted" /\ Phase' # "trusted"
          BY <3>2, <3>3, <3>4, <3>6
        <4> QED
          BY <3>2, <3>4, <4>1 DEF Trust!Next, Trust!Execute
      <3> QED
        BY <3>5, <3>6
    <2> QED
      BY <1>2, <2>1, <2>2
  <1> QED
    BY <1>1, <1>2, Inductive, PTL DEF Spec, ImplementsTrust, Trust!Spec
=============================================================================
