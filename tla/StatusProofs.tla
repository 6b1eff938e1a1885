---------------------------- MODULE StatusProofs ----------------------------
(***************************************************************************)
(* Status.tla for every set of statuses, origins and messages and every    *)
(* nesting depth: the type invariant, HandlerChain, AbortJustified and     *)
(* MessageStable for any clients; AssertionsHold for the disciplined ones. *)
(***************************************************************************)
EXTENDS Status, SequenceTheorems, TLAPS

\* What every handler in progress leaves behind: it was called with an
\* exception, whose origin and message stay in the static variables until the
\* next throw overwrites them; and if it is not the innermost frame it is
\* because it has made a guarded call.
HandlersBelow ==
    \A k \in DOMAIN guards : guards[k].phase = "handler" =>
        /\ guards[k].caught \in Exceptions
        /\ exception.origin \in Modules
        /\ exception.details \in Messages
        /\ k < Len(guards) => guards[k].nested

\* A jump lands in a frame, with an exception.
Landing == pc = "landed" => guards # <<>> /\ exception \in Exceptions

\* The inductive invariant, for any clients.
IInv == TypeOK /\ HandlerChain /\ HandlersBelow /\ Landing /\ AbortJustified

-----------------------------------------------------------------------------
(* Stacks of frames.                                                       *)

\* A prefix of a sequence.
LEMMA Prefix ==
    ASSUME NEW S, NEW s \in Seq(S), NEW n \in 0 .. Len(s)
    PROVE  /\ SubSeq(s, 1, n) \in Seq(S)
           /\ Len(SubSeq(s, 1, n)) = n
           /\ \A k \in 1 .. n : SubSeq(s, 1, n)[k] = s[k]
<1>1. Len(s) \in Nat /\ \A k \in 1 .. Len(s) : s[k] \in S
  BY LenProperties, ElementOfSeq
<1>2. \A k \in 1 .. n : s[k] \in S
  BY <1>1
<1>3. n \in Int /\ n - 1 + 1 = n /\ (IF 1 <= n THEN n - 1 + 1 ELSE 0) = n
  BY <1>1
<1>4. \A k \in 1 .. n : 1 + k - 1 = k
  BY <1>1
<1>. QED
  BY <1>2, <1>3, <1>4, SubSeqProperties

\* Popping a non-empty stack, and what is under its top.
LEMMA FrontLast ==
    ASSUME NEW S, NEW s \in Seq(S), s # <<>>
    PROVE  /\ Len(s) \in Nat \ {0}
           /\ Front(s) \in Seq(S)
           /\ Len(Front(s)) = Len(s) - 1
           /\ \A k \in 1 .. Len(s) - 1 : Front(s)[k] = s[k]
           /\ Last(s) = s[Len(s)]
           /\ Last(s) \in S
<1>1. Len(s) \in Nat \ {0}
  BY EmptySeq
<1>2. \A k \in 1 .. Len(s) : s[k] \in S
  BY ElementOfSeq
<1>3. Len(s) - 1 \in 0 .. Len(s)
  BY <1>1
<1>4. /\ Front(s) \in Seq(S)
      /\ Len(Front(s)) = Len(s) - 1
      /\ \A k \in 1 .. Len(s) - 1 : Front(s)[k] = s[k]
  BY <1>3, Prefix DEF Front
<1>5. Last(s) = s[Len(s)] /\ Last(s) \in S
  BY <1>1, <1>2 DEF Last
<1>. QED
  BY <1>1, <1>4, <1>5

\* The arithmetic of a stack's positions.
LEMMA Positions ==
    \A n \in Nat : /\ \A k \in 1 .. n : k < n \/ k = n
                   /\ n # 0 => n \in 1 .. n
                   /\ ~ n < n
OBVIOUS

\* What the invariant says of a stack of frames: frame k is the k-th, and a
\* frame in its handler is explained.
Stacked(stack) ==
    /\ stack \in Seq(Frame)
    /\ \A k \in 1 .. Len(stack) : stack[k].previous = k - 1
    /\ \A k \in 1 .. Len(stack) : stack[k].phase = "handler" =>
           /\ stack[k].caught \in Exceptions
           /\ k < Len(stack) => stack[k].nested

\* ... and of the static variables, while a handler is in progress.
Recorded(stack, e) ==
    \A k \in 1 .. Len(stack) : stack[k].phase = "handler" =>
        e.origin \in Modules /\ e.details \in Messages

LEMMA FromStacked ==
    ASSUME NEW stack, Stacked(stack), NEW e, Recorded(stack, e)
    PROVE  /\ \A k \in DOMAIN stack : stack[k].previous = k - 1
           /\ \A k \in DOMAIN stack : stack[k].phase = "handler" =>
                  /\ stack[k].caught \in Exceptions
                  /\ e.origin \in Modules
                  /\ e.details \in Messages
                  /\ k < Len(stack) => stack[k].nested
<1>1. DOMAIN stack = 1 .. Len(stack)
  BY LenProperties DEF Stacked
<1>. QED
  BY <1>1 DEF Stacked, Recorded

LEMMA ToStacked ==
    ASSUME TypeOK, HandlerChain, HandlersBelow
    PROVE  /\ Stacked(guards)
           /\ Recorded(guards, exception)
           /\ exception_handler = Len(guards)
<1>1. guards \in Seq(Frame) /\ DOMAIN guards = 1 .. Len(guards)
  BY LenProperties DEF TypeOK
<1>. QED
  BY <1>1 DEF HandlerChain, HandlersBelow, Stacked, Recorded

\* Popping a frame keeps the rest as the invariant wants it.
LEMMA PopStacked ==
    ASSUME NEW stack, Stacked(stack), stack # <<>>, NEW e, Recorded(stack, e)
    PROVE  /\ Stacked(Front(stack))
           /\ Recorded(Front(stack), e)
           /\ Len(Front(stack)) = Last(stack).previous
<1>1. /\ stack \in Seq(Frame)
      /\ Len(stack) \in Nat \ {0}
      /\ Front(stack) \in Seq(Frame)
      /\ Len(Front(stack)) = Len(stack) - 1
      /\ \A k \in 1 .. Len(stack) - 1 : Front(stack)[k] = stack[k]
      /\ Last(stack) = stack[Len(stack)]
  BY FrontLast DEF Stacked
<1>2. Len(stack) \in 1 .. Len(stack)
      /\ \A k \in 1 .. Len(stack) - 1 : k \in 1 .. Len(stack) /\ k < Len(stack)
  BY <1>1
<1>3. Len(Front(stack)) = Last(stack).previous
  BY <1>1, <1>2 DEF Stacked
<1>4. Stacked(Front(stack))
  BY <1>1, <1>2 DEF Stacked
<1>5. Recorded(Front(stack), e)
  BY <1>1, <1>2 DEF Recorded
<1>. QED
  BY <1>3, <1>4, <1>5

-----------------------------------------------------------------------------
(* The two ways out of a frame, shared by several actions.                 *)

\* A throw to the innermost of stack, which is guards or what is under its top.
LEMMA ThrowInv ==
    ASSUME IInv, pc = "user",
           NEW stack, Stacked(stack), Recorded(stack, exception),
           NEW e \in [code : ReturnCodes, origin : Modules, details : Messages],
           NEW handler, handler = Len(stack), handler \in 0 .. MaxDepth,
           Throw(e, handler, stack)
    PROVE  IInv'
<1>1. /\ stack \in Seq(Frame)
      /\ Len(stack) \in Nat
      /\ SubSeq(stack, 1, handler) = stack
  BY LenProperties, SubSeqFull DEF Stacked
<1>2. guards' = stack /\ exception_handler' = Len(stack)
  BY <1>1 DEF Throw
<1>3. e.code # 0 => e \in Exceptions
  BY DEF Exceptions, ReturnCodes
<1>4. TypeOK'
  <2>1. report' \in [severity : Severities, printed : BOOLEAN]
    BY DEF Throw, Reports, Printed, Severities, TN_FATAL, TN_EXCEPTION, TN_TRACE
  <2>2. exception' \in [code : ReturnCodes, origin : Modules \cup {NULL},
                        details : Messages \cup {NULL}]
    BY DEF Throw, IInv, TypeOK
  <2>. QED
    BY <1>1, <1>2, <2>1, <2>2 DEF Throw, IInv, TypeOK
<1>5. Recorded(stack, exception')
  BY DEF Throw, Recorded
<1>6. HandlerChain' /\ HandlersBelow'
  BY <1>1, <1>2, <1>5, FromStacked DEF HandlerChain, HandlersBelow
<1>7. Landing'
  BY <1>1, <1>2, <1>3, EmptySeq DEF Throw, Landing
<1>8. AbortJustified'
  <2>. SUFFICES ASSUME pc' = "abort"  PROVE AbortJustified'
    BY DEF AbortJustified
  <2>1. guards' = <<>>
    BY <1>1, <1>2, EmptySeq DEF Throw
  <2>. QED
    BY <2>1 DEF Throw, Reports, Printed, AbortJustified, TN_EXCEPTION, TN_FATAL
<1>. QED
  BY <1>4, <1>6, <1>7, <1>8 DEF IInv

\* A return of the innermost frame.
LEMMA ReturnInv ==
    ASSUME IInv, guards # <<>>, NEW code \in ReturnCodes, Return(code),
           UNCHANGED <<tn_verbosity_level, report>>, pc' \in {"user", "assert"}
    PROVE  IInv'
<1>1. Stacked(guards) /\ Recorded(guards, exception)
  BY ToStacked DEF IInv
<1>2. /\ Stacked(guards')
      /\ Recorded(guards', exception)
      /\ exception_handler' = Len(guards')
  BY <1>1, PopStacked DEF Return
<1>3. Recorded(guards', exception')
  BY <1>2 DEF Return, Recorded, IInv, TypeOK
<1>4. TypeOK'
  <2>1. Last(guards) \in Frame
    BY FrontLast DEF IInv, TypeOK
  <2>2. Last(guards).previous \in 0 .. MaxDepth
    BY <2>1 DEF Frame
  <2>. QED
    BY <1>2, <2>2 DEF Return, Stacked, IInv, TypeOK
<1>5. HandlerChain' /\ HandlersBelow'
  BY <1>2, <1>3, FromStacked DEF HandlerChain, HandlersBelow
<1>. QED
  BY <1>4, <1>5 DEF IInv, Landing, AbortJustified

-----------------------------------------------------------------------------
(* The invariant, initially and action by action.                          *)

LEMMA InitInv == Init => IInv
<1>. SUFFICES ASSUME Init  PROVE IInv
  OBVIOUS
<1>1. TypeOK
  BY StatusAssumption, EmptySeq
     DEF Init, TypeOK, ReturnCodes, Severities, TN_FATAL, TN_INFO, TN_TRACE
<1>2. Stacked(guards) /\ Recorded(guards, exception) /\ exception_handler = Len(guards)
  BY EmptySeq DEF Init, Stacked, Recorded
<1>3. HandlerChain /\ HandlersBelow
  BY <1>2, FromStacked DEF HandlerChain, HandlersBelow
<1>. QED
  BY <1>1, <1>3 DEF IInv, Init, Landing, AbortJustified

\* The steps that touch neither the frames nor the static variables.
LEMMA ReportInv ==
    ASSUME IInv, NEW severity \in Severities,
           tn_report_status(severity) \/ tn_fatal_error
    PROVE  IInv'
<1>1. TypeOK'
  <2>1. TN_FATAL \in Severities
    BY DEF Severities, TN_FATAL, TN_TRACE
  <2>2. \A s, h : Printed(s, h) \in BOOLEAN
    BY DEF Printed
  <2>3. report' \in [severity : Severities, printed : BOOLEAN]
    BY <2>1, <2>2 DEF tn_report_status, tn_fatal_error, Reports
  <2>. QED
    BY <2>3 DEF IInv, TypeOK, tn_report_status, tn_fatal_error
<1>2. HandlerChain' /\ HandlersBelow'
  BY DEF IInv, HandlerChain, HandlersBelow, tn_report_status, tn_fatal_error
<1>3. Landing' /\ AbortJustified'
  BY DEF Landing, AbortJustified, tn_report_status, tn_fatal_error, Reports,
         Printed, TN_FATAL, TN_EXCEPTION
<1>. QED
  BY <1>1, <1>2, <1>3 DEF IInv

LEMMA SetVerbosityInv ==
    ASSUME IInv, NEW level \in Levels, SetVerbosity(level)
    PROVE  IInv'
<1>1. TypeOK'
  BY StatusAssumption DEF IInv, TypeOK, SetVerbosity
<1>2. HandlerChain' /\ HandlersBelow'
  BY DEF IInv, HandlerChain, HandlersBelow, SetVerbosity
<1>. QED
  BY <1>1, <1>2 DEF IInv, Landing, AbortJustified, SetVerbosity

\* What vsnprintf() leaves of an exception is an exception.
LEMMA FormattedException == \A e \in Exceptions : Formatted(e) \in Exceptions
BY StatusAssumption DEF Formatted, Exceptions

LEMMA ThrowExceptionInv ==
    ASSUME IInv, NEW e \in Exceptions, tn_throw_exception(e)
    PROVE  IInv'
<1>1. Stacked(guards) /\ Recorded(guards, exception) /\ exception_handler = Len(guards)
  BY ToStacked DEF IInv
<1>2. Formatted(e) \in [code : ReturnCodes, origin : Modules, details : Messages]
  BY FormattedException DEF Exceptions, ReturnCodes
<1>3. exception_handler \in 0 .. MaxDepth
  BY DEF IInv, TypeOK
<1>. QED
  BY <1>1, <1>2, <1>3, ThrowInv DEF tn_throw_exception

\* A garbled message is a message: what is thrown with it is an exception.
LEMMA ThrowQuotingInv ==
    ASSUME IInv, NEW e \in Exceptions, ThrowQuoting(e)
    PROVE  IInv'
<1>1. Stacked(guards) /\ Recorded(guards, exception) /\ exception_handler = Len(guards)
  BY ToStacked DEF IInv
<1>2. PICK garbled \in Messages :
          Throw([e EXCEPT !.details = garbled], exception_handler, guards)
  BY DEF ThrowQuoting
<1>3. [e EXCEPT !.details = garbled]
          \in [code : ReturnCodes, origin : Modules, details : Messages]
  BY DEF Exceptions, ReturnCodes
<1>4. exception_handler \in 0 .. MaxDepth /\ pc = "user"
  BY DEF IInv, TypeOK, ThrowQuoting
<1>. QED
  BY <1>1, <1>2, <1>3, <1>4, ThrowInv

\* Changing what the innermost frame executes leaves the others alone.
LEMMA TopChanged ==
    ASSUME NEW S, NEW s \in Seq(S), s # <<>>, NEW top \in S,
           NEW t, t = [s EXCEPT ![Len(s)] = top]
    PROVE  /\ t \in Seq(S)
           /\ t # <<>>
           /\ Len(t) = Len(s)
           /\ \A k \in 1 .. Len(s) : k < Len(s) => t[k] = s[k]
           /\ t[Len(s)] = top
<1>1. /\ Len(s) \in Nat \ {0}
      /\ Len(s) \in 1 .. Len(s)
  BY EmptySeq, Positions
<1>2. /\ t \in Seq(S)
      /\ Len(t) = Len(s)
      /\ \A k \in 1 .. Len(s) : t[k] = IF k = Len(s) THEN top ELSE s[k]
  BY <1>1, ExceptSeq
<1>3. t # <<>>
  BY <1>1, <1>2, EmptySeq
<1>4. \A k \in 1 .. Len(s) : k < Len(s) => k # Len(s)
  BY <1>1, Positions
<1>. QED
  BY <1>1, <1>2, <1>3, <1>4

\* The stack under a new frame.
LEMMA NestingStacked ==
    ASSUME IInv
    PROVE  /\ Nesting \in Seq(Frame)
           /\ Len(Nesting) = Len(guards)
           /\ \A k \in 1 .. Len(guards) :
                  /\ Nesting[k].previous = guards[k].previous
                  /\ Nesting[k].phase = guards[k].phase
                  /\ Nesting[k].caught = guards[k].caught
                  /\ Nesting[k].handler = guards[k].handler
                  /\ Nesting[k].phase = "handler" => Nesting[k].nested
<1>1. /\ guards \in Seq(Frame)
      /\ DOMAIN guards = 1 .. Len(guards)
      /\ Len(guards) \in Nat
      /\ \A k \in 1 .. Len(guards) : guards[k] \in Frame
  BY LenProperties, ElementOfSeq DEF IInv, TypeOK
<1>2. \A k \in 1 .. Len(guards) :
          k < Len(guards) /\ guards[k].phase = "handler" => guards[k].nested
  BY <1>1 DEF IInv, HandlersBelow
<1>3. CASE InHandler
  <2>. DEFINE top == [guards[Len(guards)] EXCEPT !.nested = TRUE]
  <2>1. guards # <<>> /\ Len(guards) \in 1 .. Len(guards)
    BY <1>1, <1>3, EmptySeq DEF InHandler
  <2>2. /\ top \in Frame
        /\ top.previous = guards[Len(guards)].previous
        /\ top.phase = guards[Len(guards)].phase
        /\ top.caught = guards[Len(guards)].caught
        /\ top.handler = guards[Len(guards)].handler
        /\ top.nested
    BY <1>1, <2>1 DEF Frame
  <2>3. Nesting = [guards EXCEPT ![Len(guards)] = top]
    BY <1>3 DEF Nesting
  <2>. HIDE DEF top
  <2>9. guards \in Seq(Frame) /\ guards # <<>> /\ top \in Frame
    BY <1>1, <2>1, <2>2
  <2>4. /\ Nesting \in Seq(Frame)
        /\ Len(Nesting) = Len(guards)
        /\ \A k \in 1 .. Len(guards) : k < Len(guards) => Nesting[k] = guards[k]
        /\ Nesting[Len(guards)] = top
    BY <2>9, <2>3, TopChanged
  <2>5. \A k \in 1 .. Len(guards) : k < Len(guards) \/ k = Len(guards)
    BY <1>1, Positions
  <2>. QED
    BY <1>2, <2>2, <2>4, <2>5
<1>4. CASE ~InHandler
  <2>1. Nesting = guards
    BY <1>4 DEF Nesting
  <2>2. \A k \in 1 .. Len(guards) : guards[k].phase = "handler" => k < Len(guards)
    BY <1>1, <1>4, EmptySeq DEF InHandler, Last
  <2>. QED
    BY <1>1, <1>2, <2>1, <2>2
<1>. QED
  BY <1>3, <1>4

LEMMA WithExceptionInv ==
    ASSUME IInv, NEW handler \in BOOLEAN, tn_with_exception(handler)
    PROVE  IInv'
<1>. DEFINE frame == [previous |-> exception_handler, handler |-> handler,
                      phase |-> "action", caught |-> NULL, nested |-> FALSE]
<1>1. /\ frame \in Frame
      /\ Len(guards) \in Nat
      /\ exception_handler = Len(guards)
  BY LenProperties DEF Frame, IInv, TypeOK, HandlerChain
<1>2. guards' = Append(Nesting, frame)
  BY DEF tn_with_exception
<1>3. /\ guards' \in Seq(Frame)
      /\ guards' # <<>>
      /\ Len(guards') = Len(guards) + 1
      /\ \A k \in 1 .. Len(guards) : guards'[k] = Nesting[k]
      /\ guards'[Len(guards) + 1] = frame
  BY <1>1, <1>2, NestingStacked, AppendProperties
<1>4. \A k \in 1 .. Len(guards') : k \in 1 .. Len(guards) \/ k = Len(guards) + 1
  BY <1>1, <1>3
<1>5. Stacked(guards)
  BY ToStacked DEF IInv
<1>6. Recorded(guards, exception)
  BY ToStacked DEF IInv
<1>7. Stacked(guards')
  <2>1. /\ frame.previous = Len(guards) + 1 - 1
        /\ frame.phase # "handler"
    BY <1>1
  <2>. HIDE DEF frame
  <2>2. \A k \in 1 .. Len(guards) :
            /\ guards'[k].previous = k - 1
            /\ guards'[k].phase = "handler" =>
                   guards'[k].caught \in Exceptions /\ guards'[k].nested
    <3>. SUFFICES ASSUME NEW k \in 1 .. Len(guards)
                  PROVE  /\ guards'[k].previous = k - 1
                         /\ guards'[k].phase = "handler" =>
                                guards'[k].caught \in Exceptions /\ guards'[k].nested
      OBVIOUS
    <3>1. guards'[k] = Nesting[k]
      BY <1>3
    <3>2. /\ Nesting[k].previous = guards[k].previous
          /\ Nesting[k].phase = guards[k].phase
          /\ Nesting[k].caught = guards[k].caught
          /\ Nesting[k].phase = "handler" => Nesting[k].nested
      BY NestingStacked
    <3>3. /\ guards[k].previous = k - 1
          /\ guards[k].phase = "handler" => guards[k].caught \in Exceptions
      BY <1>5 DEF Stacked
    <3>. QED
      BY <3>1, <3>2, <3>3
  <2>3. guards'[Len(guards) + 1].previous = Len(guards) + 1 - 1
        /\ guards'[Len(guards) + 1].phase # "handler"
    BY <1>3, <2>1
  <2>4. \A k \in 1 .. Len(guards') :
            /\ guards'[k].previous = k - 1
            /\ guards'[k].phase = "handler" =>
                   guards'[k].caught \in Exceptions /\ guards'[k].nested
    BY <1>4, <2>2, <2>3
  <2>. QED
    BY <1>3, <2>4 DEF Stacked
<1>8. Recorded(guards', exception')
  BY <1>1, <1>3, <1>4, <1>6, NestingStacked
     DEF Recorded, tn_with_exception, IInv, TypeOK
<1>9. TypeOK'
  <2>1. exception_handler' \in 0 .. MaxDepth
    BY <1>1, StatusAssumption DEF tn_with_exception
  <2>2. exception' \in [code : ReturnCodes, origin : Modules \cup {NULL},
                        details : Messages \cup {NULL}]
    BY DEF tn_with_exception, IInv, TypeOK, ReturnCodes
  <2>. QED
    BY <1>3, <2>1, <2>2 DEF tn_with_exception, IInv, TypeOK
<1>10. HandlerChain' /\ HandlersBelow'
  BY <1>1, <1>3, <1>7, <1>8, FromStacked
     DEF HandlerChain, HandlersBelow, tn_with_exception
<1>. QED
  BY <1>9, <1>10 DEF IInv, Landing, AbortJustified, tn_with_exception

LEMMA ActionReturnsInv ==
    ASSUME IInv, NEW rc \in ReturnCodes, ActionReturns(rc)
    PROVE  IInv'
BY ReturnInv DEF ActionReturns

\* What a handler in progress was called with is still an exception but for
\* its code, so that a rethrow has something to throw.
LEMMA HandlerReturnsInv ==
    ASSUME IInv, NEW rc \in ReturnCodes, HandlerReturns(rc)
    PROVE  IInv'
<1>1. /\ Stacked(guards)
      /\ Recorded(guards, exception)
      /\ guards # <<>>
      /\ Last(guards).phase = "handler"
      /\ Len(guards) \in 1 .. Len(guards)
      /\ Last(guards) = guards[Len(guards)]
      /\ Last(guards) \in Frame
  BY ToStacked, FrontLast, Positions DEF IInv, TypeOK, HandlerReturns, InHandler
<1>2. CASE rc # EAGAIN
  BY <1>1, <1>2, ReturnInv DEF HandlerReturns
<1>3. CASE rc = EAGAIN
  <2>1. exception \in [code : ReturnCodes, origin : Modules, details : Messages]
    BY <1>1 DEF Recorded, IInv, TypeOK
  <2>2. /\ Stacked(Front(guards))
        /\ Recorded(Front(guards), exception)
        /\ Len(Front(guards)) = Last(guards).previous
    BY <1>1, PopStacked
  <2>3. Last(guards).previous \in 0 .. MaxDepth
    BY <1>1 DEF Frame
  <2>4. pc = "user" /\ Throw(exception, Last(guards).previous, Front(guards))
    BY <1>3 DEF HandlerReturns
  <2>. QED
    BY <2>1, <2>2, <2>3, <2>4, ThrowInv
<1>. QED
  BY <1>2, <1>3

LEMMA CallHandlerInv ==
    ASSUME IInv, CallHandler
    PROVE  IInv'
<1>. DEFINE top == [guards[Len(guards)] EXCEPT !.phase = "handler",
                                               !.caught = exception,
                                               !.nested = FALSE]
<1>1. /\ Stacked(guards)
      /\ Recorded(guards, exception)
      /\ exception_handler = Len(guards)
      /\ guards # <<>>
      /\ exception \in Exceptions
  BY ToStacked DEF IInv, CallHandler, Landing
<1>2. /\ Len(guards) \in Nat
      /\ Len(guards) \in 1 .. Len(guards)
      /\ guards[Len(guards)] \in Frame
      /\ guards[Len(guards)].previous = Len(guards) - 1
  BY <1>1, FrontLast, Positions DEF Stacked
<1>3. /\ top \in Frame
      /\ top.previous = guards[Len(guards)].previous
      /\ top.caught = exception
  BY <1>1, <1>2 DEF Frame
<1>4. guards' = [guards EXCEPT ![Len(guards)] = top]
  BY DEF CallHandler
<1>. HIDE DEF top
<1>5. /\ guards' \in Seq(Frame)
      /\ guards' # <<>>
      /\ Len(guards') = Len(guards)
      /\ \A k \in 1 .. Len(guards) : k < Len(guards) => guards'[k] = guards[k]
      /\ guards'[Len(guards)] = top
  BY <1>1, <1>3, <1>4, TopChanged DEF Stacked
<1>6. \A k \in 1 .. Len(guards) : k < Len(guards) \/ (k = Len(guards) /\ ~ k < Len(guards))
  BY <1>2, Positions
<1>7. Stacked(guards')
  BY <1>1, <1>2, <1>3, <1>5, <1>6 DEF Stacked
<1>8. Recorded(guards', exception')
  BY <1>1 DEF Recorded, CallHandler, Exceptions
<1>9. TypeOK'
  BY <1>5 DEF CallHandler, IInv, TypeOK
<1>10. HandlerChain' /\ HandlersBelow'
  BY <1>1, <1>5, <1>7, <1>8, FromStacked DEF HandlerChain, HandlersBelow, CallHandler
<1>. QED
  BY <1>9, <1>10 DEF IInv, Landing, AbortJustified, CallHandler

LEMMA ReturnCaughtInv ==
    ASSUME IInv, ReturnCaught
    PROVE  IInv'
<1>1. guards # <<>> /\ exception.code \in ReturnCodes
  BY DEF IInv, Landing, TypeOK, ReturnCaught
<1>. QED
  BY <1>1, ReturnInv DEF ReturnCaught

LEMMA NextInv == IInv /\ [Next]_vars => IInv'
<1>. SUFFICES ASSUME IInv, [Next]_vars  PROVE IInv'
  OBVIOUS
<1>1. CASE UNCHANGED vars
  BY <1>1 DEF vars, IInv, TypeOK, HandlerChain, HandlersBelow, Landing, AbortJustified
<1>2. ASSUME NEW severity \in Severities, tn_report_status(severity)  PROVE IInv'
  BY <1>2, ReportInv
<1>3. CASE tn_fatal_error
  <2>1. TN_FATAL \in Severities
    BY DEF Severities, TN_FATAL, TN_TRACE
  <2>. QED
    BY <1>3, <2>1, ReportInv
<1>4. ASSUME NEW e \in Exceptions, tn_throw_exception(e)  PROVE IInv'
  BY <1>4, ThrowExceptionInv
<1>5. ASSUME NEW level \in Levels, SetVerbosity(level)  PROVE IInv'
  BY <1>5, SetVerbosityInv
<1>6. ASSUME NEW handler \in BOOLEAN, tn_with_exception(handler)  PROVE IInv'
  BY <1>6, WithExceptionInv
<1>7. ASSUME NEW rc \in ReturnCodes, ActionReturns(rc)  PROVE IInv'
  BY <1>7, ActionReturnsInv
<1>8. ASSUME NEW rc \in ReturnCodes, HandlerReturns(rc)  PROVE IInv'
  BY <1>8, HandlerReturnsInv
<1>9. CASE CallHandler
  BY <1>9, CallHandlerInv
<1>10. CASE ReturnCaught
  BY <1>10, ReturnCaughtInv
<1>11. ASSUME NEW e \in Exceptions, ThrowQuoting(e)  PROVE IInv'
  BY <1>11, ThrowQuotingInv
<1>. QED
  BY <1>1, <1>2, <1>3, <1>4, <1>5, <1>6, <1>7, <1>8, <1>9, <1>10, <1>11 DEF Next

-----------------------------------------------------------------------------
(* Theorems for any clients.                                               *)

\* The inductive invariant of status.c under any clients.
THEOREM Invariance == Spec => []IInv
BY InitInv, NextInv, PTL DEF Spec

\* The variables of status.c and of its frames keep their types: in particular
\* a handler is only ever told a complete exception.
THEOREM TypeCorrect == Spec => []TypeOK
<1>1. IInv => TypeOK
  BY DEF IInv
<1>. QED
  BY <1>1, Invariance, PTL

\* exception_handler is always the innermost tn_with_exception() in progress,
\* at any nesting and along every path out of it: no throw jumps into a frame
\* that has returned, none skips one.
THEOREM HandlerNeverDangles == Spec => []HandlerChain
<1>1. IInv => HandlerChain
  BY DEF IInv
<1>. QED
  BY <1>1, Invariance, PTL

\* Only a fatal error or an exception nobody guards against aborts the process.
THEOREM AbortsAreJustified == Spec => []AbortJustified
<1>1. IInv => AbortJustified
  BY DEF IInv
<1>. QED
  BY <1>1, Invariance, PTL

-----------------------------------------------------------------------------
(* The message given to a handler.                                         *)

\* A frame that a return uncovers has made a guarded call: the one returning.
LEMMA ReturnUncovers ==
    ASSUME IInv, guards # <<>>, NEW code, Return(code)
    PROVE  InHandler' => Last(guards').nested
<1>. SUFFICES ASSUME InHandler'  PROVE Last(guards').nested
  OBVIOUS
<1>1. /\ guards \in Seq(Frame)
      /\ Len(guards) \in Nat \ {0}
      /\ guards' = Front(guards)
      /\ guards' \in Seq(Frame)
      /\ Len(guards') = Len(guards) - 1
      /\ \A k \in 1 .. Len(guards) - 1 : guards'[k] = guards[k]
  <2>1. guards \in Seq(Frame) /\ guards' = Front(guards)
    BY DEF IInv, TypeOK, Return
  <2>. QED
    BY <2>1, FrontLast
<1>2. guards' # <<>> /\ Last(guards').phase = "handler"
  BY DEF InHandler
<1>3. /\ Len(guards') \in Nat \ {0}
      /\ Last(guards') = guards'[Len(guards')]
  BY <1>1, <1>2, FrontLast
<1>4. /\ Len(guards') \in 1 .. Len(guards) - 1
      /\ Len(guards') \in 1 .. Len(guards)
      /\ Len(guards') < Len(guards)
  BY <1>1, <1>3
<1>5. Last(guards') = guards[Len(guards')]
  BY <1>1, <1>3, <1>4
<1>6. Stacked(guards)
  BY ToStacked DEF IInv
<1>. QED
  BY <1>2, <1>4, <1>5, <1>6 DEF Stacked

\* After a throw no user code runs.
LEMMA ThrowEnds ==
    ASSUME NEW e, NEW handler, NEW stack, Throw(e, handler, stack)
    PROVE  pc' \in {"assert", "abort", "landed"} /\ (e.code # 0 => pc' # "assert")
BY DEF Throw

LEMMA CallHandlerTells ==
    ASSUME IInv, CallHandler
    PROVE  /\ Last(guards').caught = exception'
           /\ pc' = "user"
<1>. DEFINE top == [guards[Len(guards)] EXCEPT !.phase = "handler",
                                               !.caught = exception,
                                               !.nested = FALSE]
<1>1. exception \in Exceptions /\ guards # <<>> /\ exception.code # 0
  BY StatusAssumption DEF CallHandler, IInv, Landing, Exceptions
<1>2. guards \in Seq(Frame) /\ guards[Len(guards)] \in Frame
  BY <1>1, FrontLast DEF IInv, TypeOK
<1>3. top \in Frame /\ top.caught = exception
  BY <1>1, <1>2 DEF Frame
<1>4. guards' = [guards EXCEPT ![Len(guards)] = top]
  BY DEF CallHandler
<1>. HIDE DEF top
<1>5. Len(guards') = Len(guards) /\ guards'[Len(guards)] = top
  BY <1>1, <1>2, <1>3, <1>4, TopChanged
<1>. QED
  BY <1>1, <1>3, <1>5 DEF Last, CallHandler

LEMMA MessageStep == IInv /\ MessageStable /\ [Next]_vars => MessageStable'
<1>. SUFFICES ASSUME IInv, MessageStable, [Next]_vars  PROVE MessageStable'
  OBVIOUS
<1>1. CASE UNCHANGED vars
  BY <1>1 DEF vars, MessageStable, InHandler
<1>2. CASE \/ \E severity \in Severities : tn_report_status(severity)
           \/ tn_fatal_error
           \/ \E level \in Levels : SetVerbosity(level)
  BY <1>2 DEF MessageStable, InHandler, tn_report_status, tn_fatal_error, SetVerbosity
<1>3. ASSUME NEW e, NEW handler, NEW stack, Throw(e, handler, stack)
      PROVE  MessageStable'
  BY <1>3, ThrowEnds DEF MessageStable
<1>4. ASSUME NEW e \in Exceptions, tn_throw_exception(e) \/ ThrowQuoting(e)
      PROVE  MessageStable'
  BY <1>3, <1>4 DEF tn_throw_exception, ThrowQuoting
<1>5. ASSUME NEW handler \in BOOLEAN, tn_with_exception(handler)  PROVE MessageStable'
  <2>1. Last(guards').phase = "action"
    <3>. DEFINE frame == [previous |-> exception_handler, handler |-> handler,
                          phase |-> "action", caught |-> NULL, nested |-> FALSE]
    <3>1. frame \in Frame /\ Nesting \in Seq(Frame) /\ frame.phase = "action"
      BY NestingStacked DEF Frame, IInv, TypeOK
    <3>2. guards' = Append(Nesting, frame)
      BY <1>5 DEF tn_with_exception
    <3>. HIDE DEF frame
    <3>3. /\ guards' \in Seq(Frame)
          /\ guards' # <<>>
          /\ Len(guards') = Len(Nesting) + 1
          /\ guards'[Len(Nesting) + 1] = frame
      BY <3>1, <3>2, AppendProperties
    <3>4. Last(guards') = frame
      BY <3>3 DEF Last
    <3>. QED
      BY <3>1, <3>4
  <2>. QED
    BY <2>1 DEF MessageStable, InHandler
<1>6. ASSUME guards # <<>>, NEW code, Return(code)  PROVE MessageStable'
  BY <1>6, ReturnUncovers DEF MessageStable
<1>7. ASSUME NEW rc \in ReturnCodes, ActionReturns(rc)  PROVE MessageStable'
  BY <1>6, <1>7 DEF ActionReturns
<1>8. ASSUME NEW rc \in ReturnCodes, HandlerReturns(rc)  PROVE MessageStable'
  BY <1>3, <1>6, <1>8 DEF HandlerReturns, InHandler
<1>9. CASE CallHandler
  BY <1>9, CallHandlerTells DEF MessageStable
<1>10. CASE ReturnCaught
  BY <1>6, <1>10 DEF ReturnCaught, IInv, Landing
<1>. QED
  BY <1>1, <1>2, <1>4, <1>5, <1>7, <1>8, <1>9, <1>10 DEF Next

\* Whatever it does, a handler finds its exception unchanged in the static
\* variables until it makes a guarded call.
THEOREM MessageUndisturbed == Spec => []MessageStable
<1>1. Init => MessageStable
  BY DEF Init, MessageStable, InHandler
<1>. QED
  BY <1>1, MessageStep, Invariance, PTL DEF Spec

-----------------------------------------------------------------------------
(* Disciplined clients: a handler that has made a guarded call does not    *)
(* return EAGAIN.                                                          *)

\* The exception that such a handler declines is the one it was told.
LEMMA DeclinedAsTold ==
    ASSUME NestedRethrow = FALSE, IInv, MessageStable, HandlerReturns(EAGAIN)
    PROVE  /\ guards # <<>>
           /\ exception = Last(guards).caught
           /\ exception \in Exceptions
           /\ Throw(exception, Last(guards).previous, Front(guards))
           /\ Means(exception)
<1>1. /\ exception = Last(guards).caught
      /\ guards # <<>>
      /\ Throw(exception, Last(guards).previous, Front(guards))
      /\ Means(exception)
  BY DEF HandlerReturns, MessageStable, InHandler
<1>2. /\ Last(guards) = guards[Len(guards)]
      /\ Len(guards) \in 1 .. Len(guards)
      /\ Last(guards).phase = "handler"
      /\ Stacked(guards)
  BY <1>1, FrontLast, Positions, ToStacked DEF HandlerReturns, InHandler, IInv, TypeOK
<1>3. exception \in Exceptions
  BY <1>1, <1>2 DEF Stacked
<1>. QED
  BY <1>1, <1>3

LEMMA AssertionsStep ==
    ASSUME NestedRethrow = FALSE
    PROVE  IInv /\ MessageStable /\ AssertionsHold /\ [Next]_vars => AssertionsHold'
<1>. SUFFICES ASSUME IInv, MessageStable, AssertionsHold, [Next]_vars
              PROVE  AssertionsHold'
  OBVIOUS
<1>1. ASSUME NEW e \in Exceptions, tn_throw_exception(e) \/ ThrowQuoting(e)
      PROVE  AssertionsHold'
  <2>1. PICK m \in Messages : Throw([e EXCEPT !.details = m], exception_handler, guards)
    <3>1. Kept[e.details] \in Messages
      BY StatusAssumption DEF Exceptions
    <3>. QED
      BY <1>1, <3>1 DEF tn_throw_exception, ThrowQuoting, Formatted
  <2>2. [e EXCEPT !.details = m].code # 0
    BY StatusAssumption DEF Exceptions
  <2>. QED
    BY <2>1, <2>2, ThrowEnds DEF AssertionsHold
<1>2. ASSUME NEW rc \in ReturnCodes, HandlerReturns(rc)  PROVE AssertionsHold'
  <2>1. CASE rc # EAGAIN
    BY <1>2, <2>1 DEF HandlerReturns, AssertionsHold
  <2>2. CASE rc = EAGAIN
    <3>1. exception.code # 0 /\ Throw(exception, Last(guards).previous, Front(guards))
      BY <1>2, <2>2, DeclinedAsTold, StatusAssumption DEF Exceptions
    <3>. QED
      BY <3>1, ThrowEnds DEF AssertionsHold
  <2>. QED
    BY <2>1, <2>2
<1>3. CASE CallHandler
  BY <1>3, CallHandlerTells DEF AssertionsHold
<1>4. CASE ReturnCaught
  <2>1. exception.code # 0
    BY <1>4, StatusAssumption DEF ReturnCaught, IInv, Landing, Exceptions
  <2>. QED
    BY <1>4, <2>1 DEF ReturnCaught, AssertionsHold
<1>. QED
  BY <1>1, <1>2, <1>3, <1>4
     DEF Next, vars, AssertionsHold, tn_report_status, tn_fatal_error, SetVerbosity,
         tn_with_exception, ActionReturns

\* While disciplined clients throw non-zero statuses, both assertions of
\* status.c hold.
THEOREM DisciplinedClients ==
    ASSUME NestedRethrow = FALSE
    PROVE  Spec => []AssertionsHold
<1>1. Init => AssertionsHold
  BY DEF Init, AssertionsHold
<1>2. IInv /\ MessageStable /\ AssertionsHold /\ [Next]_vars => AssertionsHold'
  BY AssertionsStep
<1>. QED
  BY <1>1, <1>2, MessageUndisturbed, Invariance, PTL DEF Spec
=============================================================================
