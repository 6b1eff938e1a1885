------------------------------- MODULE Status -------------------------------
(***************************************************************************)
(* status.c: reporting of statuses and exceptions made of sigsetjmp() and  *)
(* siglongjmp().                                                           *)
(*                                                                         *)
(* The library's state is four static variables and the C frames of the    *)
(* tn_with_exception() calls in progress.  The k-th frame stands for the   *)
(* address of its sigjmp_buf, so that exception_handler is 0 (NULL) or the *)
(* number of a frame; it dangles if that frame has returned.  A step is a  *)
(* call into the library or a return to it, up to the next instant at      *)
(* which user code runs; a siglongjmp() and what follows it are two steps. *)
(***************************************************************************)
EXTENDS Integers, Sequences, SequencesExt

CONSTANTS Statuses,    \* the non-zero errcode_t values
          EAGAIN,      \* the one by which a handler asks for a rethrow
          Modules,     \* what exceptions give as their origin; a client may give
                       \* the null pointer, which is then one of them
          Messages,    \* formatted messages
          Kept,        \* what exception_details, of 256 bytes, keeps of each
          NULL,        \* no message or origin yet
          Levels,      \* values a client gives tn_verbosity_level
          MaxDepth,    \* bound: guarded calls in progress
          NestedRethrow, \* a handler that has made guarded calls of its own
                         \* may still return EAGAIN
          QuoteMessage   \* one that was given a message may throw with it

\* enum tn_severity
TN_FATAL == 0
TN_EXCEPTION == 1
TN_ERROR == 2
TN_INFO == 5
TN_TRACE == 6
Severities == TN_FATAL .. TN_TRACE

ReturnCodes == Statuses \cup {0}
Exceptions == [code : Statuses, origin : Modules, details : Messages]

ASSUME StatusAssumption ==
    /\ 0 \notin Statuses
    /\ EAGAIN \in Statuses
    /\ Kept \in [Messages -> Messages]
    /\ NULL \notin Modules \cup Messages \cup Exceptions
    /\ Levels \subseteq Severities
    /\ MaxDepth \in Nat
    /\ {NestedRethrow, QuoteMessage} \subseteq BOOLEAN

VARIABLES
    guards,             \* frames of tn_with_exception(), innermost last
    exception_handler,  \* frame a throw jumps to, or 0
    exception,          \* exception_code, exception_origin, exception_details
    tn_verbosity_level,
    report,             \* the last severity given to tn_report_statusv(), and
                        \* whether it reached com_err()
    result,             \* status returned by the last guarded call to end
    pc,                 \* who runs: "user" code, the frame that a siglongjmp()
                        \* has just "landed" in, or nobody: "abort", "assert"
    thrown              \* history: the exception on its way to that frame, as
                        \* its thrower meant it, or NULL

vars == <<guards, exception_handler, exception, tn_verbosity_level, report,
          result, pc, thrown>>

\* A frame: its locals previous_handler and handler (present or not), and what
\* it is executing.  caught and nested are history: what the handler was
\* called with, and whether it has made guarded calls since.
Frame == [previous : 0 .. MaxDepth, handler : BOOLEAN,
          phase : {"action", "handler"},
          caught : Exceptions \cup {NULL}, nested : BOOLEAN]

TypeOK ==
    /\ guards \in Seq(Frame)
    /\ exception_handler \in 0 .. MaxDepth
    /\ exception \in [code : ReturnCodes, origin : Modules \cup {NULL},
                      details : Messages \cup {NULL}]
    /\ tn_verbosity_level \in Severities
    /\ report \in [severity : Severities, printed : BOOLEAN]
    /\ result \in ReturnCodes
    /\ pc \in {"user", "landed", "abort", "assert"}

Init ==
    /\ guards = <<>>
    /\ exception_handler = 0
    /\ exception = [code |-> 0, origin |-> NULL, details |-> NULL]
    /\ tn_verbosity_level = TN_INFO
    /\ report = [severity |-> TN_TRACE, printed |-> FALSE]
    /\ result = 0
    /\ pc = "user"
    /\ thrown = NULL

-----------------------------------------------------------------------------
(* tn_report_statusv() and its callers.                                    *)

\* What reaches com_err(); an exception somebody will handle does not.
Printed(severity, handler) ==
    /\ severity # TN_EXCEPTION \/ handler = 0
    /\ severity <= tn_verbosity_level

Reports(severity, handler) ==
    report' = [severity |-> severity, printed |-> Printed(severity, handler)]

\* Mutant: every message is formatted in exception_details first.
tn_report_status_SharedBuffer(severity) ==
    /\ pc = "user"
    /\ severity \notin {TN_EXCEPTION, TN_FATAL}
    /\ Reports(severity, exception_handler)
    /\ \E m \in Messages : exception' = [exception EXCEPT !.details = m]
    /\ UNCHANGED <<guards, exception_handler, tn_verbosity_level, result, pc, thrown>>

\* With the two other severities this is tn_throw_exception or tn_fatal_error.
tn_report_status(severity) ==
    /\ pc = "user"
    /\ severity \notin {TN_EXCEPTION, TN_FATAL}
    /\ Reports(severity, exception_handler)
    /\ UNCHANGED <<guards, exception_handler, exception, tn_verbosity_level,
                   result, pc, thrown>>

tn_fatal_error ==
    /\ pc = "user"
    /\ Reports(TN_FATAL, exception_handler)
    /\ pc' = "abort"
    /\ UNCHANGED <<guards, exception_handler, exception, tn_verbosity_level,
                   result, thrown>>

\* Mutant: line 67 (exception_origin = module) is missing.
Throw_NoOrigin(e, handler, stack) ==
    /\ Reports(TN_EXCEPTION, handler)
    /\ exception_handler' = handler
    /\ e.code # 0
    /\ pc' = IF handler = 0 THEN "abort" ELSE "landed"
    /\ guards' = SubSeq(stack, 1, handler)
    /\ exception' = IF handler = 0 THEN exception
                    ELSE [exception EXCEPT !.code = e.code, !.details = e.details]
    /\ UNCHANGED <<tn_verbosity_level, result>>

\* Exception e, thrown while exception_handler is handler and stack the frames
\* in progress; the jump drops the frames above the one it lands in.
Throw(e, handler, stack) ==
    /\ Reports(TN_EXCEPTION, handler)
    /\ exception_handler' = handler
    /\ \/ /\ e.code = 0
          /\ pc' = "assert"
          /\ guards' = stack
          /\ UNCHANGED exception
       \/ /\ e.code # 0
          /\ handler = 0
          /\ pc' = "abort"
          /\ guards' = stack
          /\ UNCHANGED exception
       \/ /\ e.code # 0
          /\ handler # 0
          /\ pc' = "landed"
          /\ guards' = SubSeq(stack, 1, handler)
          /\ exception' = e
    /\ UNCHANGED <<tn_verbosity_level, result>>

\* What has just been thrown is e.
Means(e) == thrown' = IF pc' = "landed" THEN e ELSE NULL

\* What vsnprintf() leaves of a new exception in the static variables: its message
\* is cut.  One that is thrown again was cut to the same size before.
Formatted(e) == [e EXCEPT !.details = Kept[@]]

\* User code, an action or a handler or neither, throws.
tn_throw_exception(e) ==
    /\ pc = "user"
    /\ Throw(Formatted(e), exception_handler, guards)
    /\ Means(Formatted(e))

\* ... or a handler, or what it calls, throws with the message it was given among
\* the arguments: vsnprintf() then reads exception_details while it writes there,
\* and what it leaves is undefined.
ThrowQuoting(e) ==
    /\ pc = "user"
    /\ QuoteMessage
    /\ \E k \in DOMAIN guards : guards[k].phase = "handler"
    /\ \E garbled \in Messages :
           Throw([e EXCEPT !.details = garbled], exception_handler, guards)
    /\ Means(Formatted(e))

\* A client assigns the extern variable.
SetVerbosity(level) ==
    /\ pc = "user"
    /\ tn_verbosity_level' = level
    /\ UNCHANGED <<guards, exception_handler, exception, report, result, pc, thrown>>

-----------------------------------------------------------------------------
(* tn_with_exception(), in the pieces that calls of user code divide it.   *)

InHandler == guards # <<>> /\ Last(guards).phase = "handler"

\* The frames below a new one: a handler's remembers the nested call.
Nesting == IF InHandler THEN [guards EXCEPT ![Len(guards)].nested = TRUE]
                        ELSE guards

tn_with_exception(handler) ==
    /\ pc = "user"
    /\ Len(guards) < MaxDepth
    /\ guards' = Append(Nesting,
                    [previous |-> exception_handler, handler |-> handler,
                     phase |-> "action", caught |-> NULL, nested |-> FALSE])
    /\ exception_handler' = Len(guards) + 1
    /\ exception' = [exception EXCEPT !.code = 0]
    /\ UNCHANGED <<tn_verbosity_level, report, result, pc, thrown>>

\* Mutants: line 187 is missing; it resets exception_handler to NULL.
Return_NoRestore(code) ==
    /\ guards' = Front(guards)
    /\ exception' = [exception EXCEPT !.code = code]
    /\ result' = code
    /\ UNCHANGED exception_handler

Return_Unguarded(code) ==
    /\ guards' = Front(guards)
    /\ exception_handler' = 0
    /\ exception' = [exception EXCEPT !.code = code]
    /\ result' = code

\* The innermost frame returns code to its caller.
Return(code) ==
    /\ guards' = Front(guards)
    /\ exception_handler' = Last(guards).previous
    /\ exception' = [exception EXCEPT !.code = code]
    /\ result' = code

ActionReturns(rc) ==
    /\ pc = "user"
    /\ guards # <<>> /\ ~InHandler
    /\ Return(rc)
    /\ UNCHANGED <<tn_verbosity_level, report, pc, thrown>>

\* Mutant: line 183 (exception_code = rc) comes before the test for EAGAIN.
HandlerReturns_CodeFirst(rc) ==
    /\ pc = "user"
    /\ InHandler
    /\ \/ /\ rc # EAGAIN
          /\ Return(rc)
          /\ UNCHANGED <<tn_verbosity_level, report, pc, thrown>>
       \/ /\ rc = EAGAIN
          /\ Throw([exception EXCEPT !.code = rc], Last(guards).previous,
                   Front(guards))
          /\ Means(exception)

\* EAGAIN throws again what the static variables hold, in the context of the
\* enclosing guard.
HandlerReturns(rc) ==
    /\ pc = "user"
    /\ InHandler
    /\ \/ /\ rc # EAGAIN
          /\ Return(rc)
          /\ UNCHANGED <<tn_verbosity_level, report, pc, thrown>>
       \/ /\ rc = EAGAIN
          /\ NestedRethrow \/ ~Last(guards).nested
          /\ Throw(exception, Last(guards).previous, Front(guards))
          /\ Means(exception)

\* Mutant: line 164 (exception_code = 0) comes after sigsetjmp().
CallHandler_ResetLate ==
    /\ pc = "landed"
    /\ Last(guards).handler
    /\ exception' = [exception EXCEPT !.code = 0]
    /\ pc' = "assert"
    /\ thrown' = NULL
    /\ UNCHANGED <<guards, exception_handler, tn_verbosity_level, report, result>>

\* sigsetjmp() returns for the second time.
CallHandler ==
    /\ pc = "landed"
    /\ Last(guards).handler
    /\ guards' = [guards EXCEPT ![Len(guards)] =
                     [@ EXCEPT !.phase = "handler", !.caught = exception,
                               !.nested = FALSE]]
    /\ pc' = IF exception.code # 0 THEN "user" ELSE "assert"
    /\ thrown' = NULL
    /\ UNCHANGED <<exception_handler, exception, tn_verbosity_level, report,
                   result>>

ReturnCaught ==
    /\ pc = "landed"
    /\ ~Last(guards).handler
    /\ Return(exception.code)
    /\ pc' = IF exception.code # 0 THEN "user" ELSE "assert"
    /\ thrown' = NULL
    /\ UNCHANGED <<tn_verbosity_level, report>>

-----------------------------------------------------------------------------

Next ==
    \/ \E severity \in Severities : tn_report_status(severity)
    \/ tn_fatal_error
    \/ \E e \in Exceptions : tn_throw_exception(e) \/ ThrowQuoting(e)
    \/ \E level \in Levels : SetVerbosity(level)
    \/ \E handler \in BOOLEAN : tn_with_exception(handler)
    \/ \E rc \in ReturnCodes : ActionReturns(rc) \/ HandlerReturns(rc)
    \/ CallHandler
    \/ ReturnCaught

Spec == Init /\ [][Next]_vars

-----------------------------------------------------------------------------
(* Properties.                                                             *)

\* exception_handler never dangles and never skips a frame: it is the innermost
\* guarded call in progress, and every frame would restore the one below it.
\* It is a static pointer into the stack saved and restored by hand on four
\* paths (status.c:160-187); a throw through a stale one is undefined behaviour.
HandlerChain ==
    /\ exception_handler = Len(guards)
    /\ \A k \in DOMAIN guards : guards[k].previous = k - 1

\* Neither assertion of status.c (lines 61 and 169) can fail while clients throw
\* non-zero statuses.
AssertionsHold == pc # "assert"

\* Until a handler makes a guarded call of its own, the static variables, and so
\* the message it was given a pointer to (status.c:172), are what it was called
\* with.
MessageStable ==
    pc = "user" /\ InHandler /\ ~Last(guards).nested
        => exception = Last(guards).caught

\* The process is aborted only by a fatal error or by an exception that no
\* guarded call in progress could take, and com_err() was given the reason
\* unless the verbosity excludes it.
AbortJustified ==
    pc = "abort" =>
        /\ \/ report.severity = TN_FATAL
           \/ report.severity = TN_EXCEPTION /\ guards = <<>>
        /\ report.printed <=> report.severity <= tn_verbosity_level

\* status.h:124, "it is executed after the exception is throw with the originating
\* module, status code, and formatted message": those of the throw.
HandlerToldMessage ==
    pc = "landed" /\ Last(guards).handler => exception = thrown

-----------------------------------------------------------------------------
(* Refinement: seen from its callers this is ExceptionGuards.  The pointer *)
(* and the saved pointers have no counterpart there; the static variables  *)
(* count only between a throw and its landing, when they are to hold what  *)
(* was thrown.                                                             *)

CallOf(frame) == [handler |-> frame.handler, running |-> frame.phase,
                  told |-> frame.caught]
CallsOf(stack) == [k \in DOMAIN stack |-> CallOf(stack[k])]

Guards == INSTANCE ExceptionGuards WITH
    calls <- CallsOf(guards),
    inflight <- thrown,
    alive <- pc \notin {"abort", "assert"}

\* Guarded calls behave as structured exceptions: every exception reaches the
\* innermost call exactly as thrown, a declined one goes on unchanged.
StructuredExceptions == Guards!Spec
=============================================================================
