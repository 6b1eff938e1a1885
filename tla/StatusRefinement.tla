-------------------------- MODULE StatusRefinement --------------------------
(***************************************************************************)
(* Status.tla implements ExceptionGuards.tla, for every set of statuses,   *)
(* origins and messages and every nesting depth, if clients neither ask    *)
(* for a rethrow after a nested guarded call nor throw with the message    *)
(* they were given.                                                        *)
(***************************************************************************)
EXTENDS StatusProofs

\* The static variables hold what was thrown, from the throw to its landing.
InFlight == thrown = IF pc = "landed" THEN exception ELSE NULL

-----------------------------------------------------------------------------
(* The calls that a stack of frames stands for.                            *)

\* ExceptionGuards has these operators from SequencesExt as well.
LEMMA SameStacks == \A s : Guards!Last(s) = Last(s) /\ Guards!Front(s) = Front(s)
BY DEF Last, Front, Guards!Last, Guards!Front

LEMMA CallOfFrame == \A f \in Frame : CallOf(f) \in Guards!Call
BY DEF Frame, CallOf, Guards!Call

LEMMA CallsOfStack ==
    ASSUME NEW stack \in Seq(Frame)
    PROVE  /\ CallsOf(stack) \in Seq(Guards!Call)
           /\ Len(CallsOf(stack)) = Len(stack)
           /\ \A k \in 1 .. Len(stack) : CallsOf(stack)[k] = CallOf(stack[k])
<1>1. Len(stack) \in Nat /\ DOMAIN stack = 1 .. Len(stack)
  BY LenProperties
<1>2. \A k \in 1 .. Len(stack) : CallOf(stack[k]) \in Guards!Call
  BY CallOfFrame, ElementOfSeq
<1>. QED
  BY <1>1, <1>2 DEF CallsOf

\* The last call, and those under it, of a stack that is not empty.
LEMMA CallsOfNonEmpty ==
    ASSUME NEW stack \in Seq(Frame)
    PROVE  /\ CallsOf(stack) = <<>> <=> stack = <<>>
           /\ stack # <<>> => /\ Last(CallsOf(stack)) = CallOf(Last(stack))
                              /\ Front(CallsOf(stack)) = CallsOf(Front(stack))
<1>1. CallsOf(stack) = <<>> <=> stack = <<>>
  BY CallsOfStack, EmptySeq
<1>2. ASSUME stack # <<>>
      PROVE  /\ Last(CallsOf(stack)) = CallOf(Last(stack))
             /\ Front(CallsOf(stack)) = CallsOf(Front(stack))
  <2>. DEFINE calls == CallsOf(stack)
  <2>1. /\ calls \in Seq(Guards!Call)
        /\ calls # <<>>
        /\ Len(calls) = Len(stack)
        /\ \A k \in 1 .. Len(stack) : calls[k] = CallOf(stack[k])
    BY <1>1, <1>2, CallsOfStack
  <2>. HIDE DEF calls
  <2>2. /\ Front(calls) \in Seq(Guards!Call)
        /\ Len(Front(calls)) = Len(calls) - 1
        /\ \A k \in 1 .. Len(calls) - 1 : Front(calls)[k] = calls[k]
        /\ Last(calls) = calls[Len(calls)]
    BY <2>1, FrontLast
  <2>3. /\ Len(stack) \in Nat \ {0}
        /\ Front(stack) \in Seq(Frame)
        /\ Len(Front(stack)) = Len(stack) - 1
        /\ \A k \in 1 .. Len(stack) - 1 : Front(stack)[k] = stack[k]
        /\ Last(stack) = stack[Len(stack)]
    BY <1>2, FrontLast
  <2>4. /\ CallsOf(Front(stack)) \in Seq(Guards!Call)
        /\ Len(CallsOf(Front(stack))) = Len(stack) - 1
        /\ \A k \in 1 .. Len(stack) - 1 : CallsOf(Front(stack))[k] = CallOf(stack[k])
    BY <2>3, CallsOfStack
  <2>5. \A k \in 1 .. Len(stack) - 1 : k \in 1 .. Len(stack)
    BY <2>3
  <2>6. Front(calls) = CallsOf(Front(stack))
    BY <2>1, <2>2, <2>4, <2>5, SeqEqual
  <2>7. Last(calls) = CallOf(Last(stack))
    BY <2>1, <2>2, <2>3
  <2>. QED
    BY <2>6, <2>7 DEF calls
<1>. QED
  BY <1>1, <1>2

-----------------------------------------------------------------------------
(* Steps.                                                                  *)

LEMMA InFlightStep ==
    ASSUME QuoteMessage = FALSE
    PROVE  InFlight /\ [Next]_vars => InFlight'
<1>. SUFFICES ASSUME InFlight, [Next]_vars  PROVE InFlight'
  OBVIOUS
<1>1. ASSUME NEW e, NEW handler, NEW stack, Throw(e, handler, stack), Means(e)
      PROVE  InFlight'
  BY <1>1 DEF InFlight, Throw, Means
<1>2. ASSUME NEW e \in Exceptions, tn_throw_exception(e)  PROVE InFlight'
  BY <1>1, <1>2 DEF tn_throw_exception
<1>3. ASSUME NEW rc \in ReturnCodes, HandlerReturns(rc)  PROVE InFlight'
  <2>1. CASE rc # EAGAIN
    BY <1>3, <2>1 DEF HandlerReturns, InFlight
  <2>2. CASE rc = EAGAIN
    BY <1>1, <1>3, <2>2 DEF HandlerReturns
  <2>. QED
    BY <2>1, <2>2
<1>4. CASE CallHandler \/ ReturnCaught
  BY <1>4 DEF CallHandler, ReturnCaught, InFlight
<1>5. ASSUME NEW rc \in ReturnCodes, ActionReturns(rc)  PROVE InFlight'
  BY <1>5 DEF ActionReturns, InFlight
<1>6. CASE UNCHANGED vars
  BY <1>6 DEF vars, InFlight
<1>7. ASSUME NEW handler \in BOOLEAN, tn_with_exception(handler)  PROVE InFlight'
  BY <1>7 DEF tn_with_exception, InFlight
<1>8. CASE \/ \E severity \in Severities : tn_report_status(severity)
           \/ tn_fatal_error
           \/ \E level \in Levels : SetVerbosity(level)
  BY <1>8 DEF tn_report_status, tn_fatal_error, SetVerbosity, InFlight
<1>. QED
  BY <1>2, <1>3, <1>4, <1>5, <1>6, <1>7, <1>8 DEF Next, ThrowQuoting

\* A throw to the innermost of stack delivers the exception to it.
LEMMA ThrowDelivers ==
    ASSUME pc = "user", InFlight,
           NEW stack \in Seq(Frame), NEW e \in Exceptions,
           Throw(e, Len(stack), stack), Means(e)
    PROVE  Guards!Deliver(e, CallsOf(stack))
<1>1. Len(stack) \in Nat /\ SubSeq(stack, 1, Len(stack)) = stack
  BY LenProperties, SubSeqFull
<1>2. e.code # 0
  BY StatusAssumption DEF Exceptions
<1>3. guards' = stack /\ result' = result
  BY <1>1, <1>2 DEF Throw
<1>4. CASE stack = <<>>
  <2>1. Len(stack) = 0 /\ CallsOf(stack) = <<>>
    BY <1>4, CallsOfNonEmpty, EmptySeq
  <2>2. pc' = "abort" /\ thrown' = NULL /\ thrown = NULL
    BY <1>2, <2>1 DEF Throw, Means, InFlight
  <2>. QED
    BY <1>3, <2>1, <2>2 DEF Guards!Deliver
<1>5. CASE stack # <<>>
  <2>1. Len(stack) # 0 /\ CallsOf(stack) # <<>>
    BY <1>5, CallsOfNonEmpty, EmptySeq
  <2>2. pc' = "landed" /\ thrown' = e
    BY <1>2, <2>1 DEF Throw, Means
  <2>. QED
    BY <1>3, <2>1, <2>2 DEF Guards!Deliver
<1>. QED
  BY <1>4, <1>5

\* A return of the innermost frame is one of the call it stands for.
LEMMA ReturnReturns ==
    ASSUME IInv, guards # <<>>, NEW code, Return(code)
    PROVE  /\ CallsOf(guards) # <<>>
           /\ CallsOf(guards)' = Front(CallsOf(guards))
           /\ Last(CallsOf(guards)) = CallOf(Last(guards))
           /\ result' = code
<1>1. guards \in Seq(Frame)
  BY DEF IInv, TypeOK
<1>2. guards' = Front(guards) /\ result' = code
  BY DEF Return
<1>. QED
  BY <1>1, <1>2, CallsOfNonEmpty DEF CallsOf

\* A new frame is a new call; that a handler has nested one is not seen.
LEMMA WithExceptionEnters ==
    ASSUME IInv, InFlight, NEW handler \in BOOLEAN, tn_with_exception(handler)
    PROVE  Guards!Enter(handler)
<1>. DEFINE frame == [previous |-> exception_handler, handler |-> handler,
                      phase |-> "action", caught |-> NULL, nested |-> FALSE]
            call == [handler |-> handler, running |-> "action", told |-> NULL]
            calls == CallsOf(guards)
<1>1. frame \in Frame /\ CallOf(frame) = call
  BY DEF IInv, TypeOK, Frame, CallOf
<1>2. guards' = Append(Nesting, frame)
  BY DEF tn_with_exception
<1>3. call \in Guards!Call
  BY DEF Guards!Call
<1>4. /\ guards \in Seq(Frame)
      /\ Len(guards) \in Nat
      /\ Nesting \in Seq(Frame)
      /\ Len(Nesting) = Len(guards)
      /\ \A k \in 1 .. Len(guards) : CallOf(Nesting[k]) = CallOf(guards[k])
  BY NestingStacked, LenProperties DEF IInv, TypeOK, CallOf
<1>5. /\ calls \in Seq(Guards!Call)
      /\ Len(calls) = Len(guards)
      /\ \A k \in 1 .. Len(guards) : calls[k] = CallOf(guards[k])
  BY <1>4, CallsOfStack
<1>. HIDE DEF frame, call, calls
<1>6. /\ guards' \in Seq(Frame)
      /\ Len(guards') = Len(guards) + 1
      /\ \A k \in 1 .. Len(guards) : guards'[k] = Nesting[k]
      /\ guards'[Len(guards) + 1] = frame
  BY <1>1, <1>2, <1>4, AppendProperties
<1>7. /\ CallsOf(guards') \in Seq(Guards!Call)
      /\ Len(CallsOf(guards')) = Len(guards) + 1
      /\ \A k \in 1 .. Len(guards) + 1 : CallsOf(guards')[k] = CallOf(guards'[k])
  BY <1>6, CallsOfStack
<1>8. /\ Append(calls, call) \in Seq(Guards!Call)
      /\ Len(Append(calls, call)) = Len(guards) + 1
      /\ \A k \in 1 .. Len(guards) : Append(calls, call)[k] = calls[k]
      /\ Append(calls, call)[Len(guards) + 1] = call
  BY <1>3, <1>5, AppendProperties
<1>9. \A k \in 1 .. Len(guards) + 1 : k \in 1 .. Len(guards) \/ k = Len(guards) + 1
  BY <1>4
<1>10. \A k \in 1 .. Len(guards) + 1 : CallsOf(guards')[k] = Append(calls, call)[k]
  BY <1>1, <1>4, <1>5, <1>6, <1>7, <1>8, <1>9
<1>11. CallsOf(guards') = Append(calls, call)
  BY <1>7, <1>8, <1>10, SeqEqual
<1>12. CallsOf(guards)' = Append(CallsOf(guards),
                                [handler |-> handler, running |-> "action", told |-> NULL])
  BY <1>11 DEF CallsOf, calls, call
<1>. QED
  BY <1>12 DEF Guards!Enter, Guards!Running, tn_with_exception, InFlight

\* The frame a jump lands in starts its handler.
LEMMA CallHandlerHandles ==
    ASSUME IInv, InFlight, CallHandler
    PROVE  Guards!Handle
<1>. DEFINE top == [guards[Len(guards)] EXCEPT !.phase = "handler",
                                               !.caught = exception,
                                               !.nested = FALSE]
            call == [handler |-> TRUE, running |-> "handler", told |-> exception]
            calls == CallsOf(guards)
<1>1. /\ exception \in Exceptions
      /\ thrown = exception
      /\ guards \in Seq(Frame) /\ guards # <<>>
      /\ exception # NULL
  BY StatusAssumption DEF CallHandler, IInv, Landing, TypeOK, InFlight
<1>2. /\ guards[Len(guards)] \in Frame
      /\ Last(guards) = guards[Len(guards)]
      /\ Len(guards) \in Nat \ {0}
      /\ guards[Len(guards)].handler
  BY <1>1, FrontLast DEF CallHandler
<1>3. top \in Frame /\ CallOf(top) = call
  BY <1>1, <1>2 DEF Frame, CallOf
<1>4. guards' = [guards EXCEPT ![Len(guards)] = top]
  BY DEF CallHandler
<1>5. call \in Guards!Call
  BY <1>1 DEF Guards!Call
<1>6. /\ calls \in Seq(Guards!Call)
      /\ Len(calls) = Len(guards)
      /\ \A k \in 1 .. Len(guards) : calls[k] = CallOf(guards[k])
      /\ calls # <<>>
      /\ Last(calls) = CallOf(guards[Len(guards)])
  BY <1>1, <1>2, CallsOfStack, CallsOfNonEmpty
<1>7. Last(calls).handler
  BY <1>2, <1>6 DEF CallOf
<1>. HIDE DEF top, call, calls
<1>8. /\ guards' \in Seq(Frame)
      /\ Len(guards') = Len(guards)
      /\ \A k \in 1 .. Len(guards) : k < Len(guards) => guards'[k] = guards[k]
      /\ guards'[Len(guards)] = top
  BY <1>1, <1>3, <1>4, TopChanged
<1>9. /\ CallsOf(guards') \in Seq(Guards!Call)
      /\ Len(CallsOf(guards')) = Len(guards)
      /\ \A k \in 1 .. Len(guards) : CallsOf(guards')[k] = CallOf(guards'[k])
  BY <1>8, CallsOfStack
<1>10. \A t : t = [calls EXCEPT ![Len(calls)] = call]
                => /\ t \in Seq(Guards!Call)
                   /\ Len(t) = Len(guards)
                   /\ \A k \in 1 .. Len(guards) : k < Len(guards) => t[k] = calls[k]
                   /\ t[Len(guards)] = call
  BY <1>5, <1>6, TopChanged
<1>11. \A k \in 1 .. Len(guards) : k < Len(guards) \/ k = Len(guards)
  BY <1>2
<1>12. CallsOf(guards') = [calls EXCEPT ![Len(calls)] = call]
  BY <1>3, <1>6, <1>8, <1>9, <1>10, <1>11, SeqEqual
<1>13. CallsOf(guards)' = [CallsOf(guards) EXCEPT ![Len(CallsOf(guards))] =
           [handler |-> TRUE, running |-> "handler", told |-> thrown]]
  BY <1>1, <1>12 DEF CallsOf, calls, call
<1>14. thrown' = NULL /\ result' = result /\ exception.code # 0
  BY <1>1, StatusAssumption DEF CallHandler, Exceptions
<1>. QED
  BY <1>1, <1>7, <1>13, <1>14, SameStacks DEF Guards!Handle, CallHandler, calls

-----------------------------------------------------------------------------

LEMMA NextMaps ==
    ASSUME NestedRethrow = FALSE, QuoteMessage = FALSE,
           IInv, MessageStable, InFlight, [Next]_vars
    PROVE  [Guards!Next]_(Guards!vars)
<1>. USE DEF Guards!Next
<1>0. /\ guards \in Seq(Frame)
      /\ pc = "user" => Guards!Running
  BY DEF IInv, TypeOK, InFlight, Guards!Running
<1>1. CASE UNCHANGED vars
  BY <1>1 DEF vars, Guards!vars, CallsOf
<1>2. CASE \/ \E severity \in Severities : tn_report_status(severity)
           \/ \E level \in Levels : SetVerbosity(level)
  BY <1>2 DEF tn_report_status, SetVerbosity, Guards!vars, CallsOf
<1>3. CASE tn_fatal_error
  <2>1. Guards!Die
    BY <1>0, <1>3 DEF tn_fatal_error, Guards!Die, CallsOf
  <2>. QED
    BY <2>1
<1>4. ASSUME NEW e \in Exceptions, tn_throw_exception(e)
      PROVE  [Guards!Next]_(Guards!vars)
  <2>1. exception_handler = Len(guards)
    BY DEF IInv, HandlerChain
  <2>2. Formatted(e) \in Exceptions
    BY FormattedException
  <2>3. Guards!Raise(Formatted(e))
    BY <1>0, <1>4, <2>1, <2>2, ThrowDelivers DEF tn_throw_exception, Guards!Raise
  <2>. QED
    BY <2>2, <2>3
<1>5. ASSUME NEW handler \in BOOLEAN, tn_with_exception(handler)
      PROVE  [Guards!Next]_(Guards!vars)
  BY <1>5, WithExceptionEnters
<1>6. ASSUME pc = "user", NEW rc \in ReturnCodes, Return(rc), guards # <<>>,
             UNCHANGED <<pc, thrown>>, InHandler => rc # EAGAIN
      PROVE  [Guards!Next]_(Guards!vars)
  <2>1. Guards!Return(rc)
    BY <1>0, <1>6, ReturnReturns, SameStacks DEF Guards!Return, CallOf, InHandler
  <2>. QED
    BY <2>1 DEF ReturnCodes
<1>7. ASSUME NEW rc \in ReturnCodes, ActionReturns(rc)
      PROVE  [Guards!Next]_(Guards!vars)
  BY <1>6, <1>7 DEF ActionReturns
<1>8. ASSUME NEW rc \in ReturnCodes, HandlerReturns(rc)
      PROVE  [Guards!Next]_(Guards!vars)
  <2>1. CASE rc # EAGAIN
    BY <1>6, <1>8, <2>1 DEF HandlerReturns, InHandler
  <2>2. CASE rc = EAGAIN
    <3>1. /\ guards # <<>>
          /\ exception = Last(guards).caught
          /\ exception \in Exceptions
          /\ Throw(exception, Last(guards).previous, Front(guards))
          /\ Means(exception)
      BY <1>8, <2>2, DeclinedAsTold
    <3>2. /\ Front(guards) \in Seq(Frame)
          /\ Len(Front(guards)) = Last(guards).previous
      BY <3>1, ToStacked, PopStacked DEF IInv, Stacked
    <3>3. pc = "user" /\ Last(guards).phase = "handler"
      BY <1>8 DEF HandlerReturns, InHandler
    <3>4. Guards!Deliver(exception, CallsOf(Front(guards)))
      BY <3>1, <3>2, <3>3, ThrowDelivers
    <3>5. /\ CallsOf(guards) # <<>>
          /\ Last(CallsOf(guards)) = CallOf(Last(guards))
          /\ Front(CallsOf(guards)) = CallsOf(Front(guards))
      BY <1>0, <3>1, CallsOfNonEmpty
    <3>6. Guards!Decline
      BY <1>0, <3>1, <3>3, <3>4, <3>5, SameStacks DEF Guards!Decline, CallOf
    <3>. QED
      BY <3>6
  <2>. QED
    BY <2>1, <2>2
<1>9. CASE CallHandler
  BY <1>9, CallHandlerHandles
<1>10. CASE ReturnCaught
  <2>1. /\ exception \in Exceptions
        /\ guards # <<>>
        /\ thrown = exception
        /\ exception # NULL /\ exception.code # 0
    BY <1>10, StatusAssumption DEF ReturnCaught, IInv, Landing, InFlight, Exceptions
  <2>2. Guards!Surrender
    BY <1>10, <2>1, ReturnReturns, SameStacks DEF ReturnCaught, Guards!Surrender, CallOf
  <2>. QED
    BY <2>2
<1>. QED
  BY <1>1, <1>2, <1>3, <1>4, <1>5, <1>7, <1>8, <1>9, <1>10 DEF Next, ThrowQuoting

LEMMA InitMaps == Init => Guards!Init /\ InFlight
<1>1. ASSUME guards = <<>>  PROVE CallsOf(guards) = <<>>
  <2>1. guards \in Seq(Frame)
    BY <1>1, EmptySeq
  <2>. QED
    BY <1>1, <2>1, CallsOfNonEmpty
<1>. QED
  BY <1>1 DEF Init, Guards!Init, InFlight

\* The static variables, the jumps and the saved pointers of status.c are
\* structured exceptions to its clients.
THEOREM Refinement ==
    ASSUME NestedRethrow = FALSE, QuoteMessage = FALSE
    PROVE  Spec => StructuredExceptions
<1>1. InFlight /\ [Next]_vars => InFlight'
  BY InFlightStep
<1>2. IInv /\ MessageStable /\ InFlight /\ [Next]_vars => [Guards!Next]_(Guards!vars)
  BY NextMaps
<1>. QED
  BY <1>1, <1>2, InitMaps, Invariance, MessageUndisturbed, PTL
     DEF Spec, StructuredExceptions, Guards!Spec
=============================================================================
