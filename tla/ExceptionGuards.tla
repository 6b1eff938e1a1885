--------------------------- MODULE ExceptionGuards ---------------------------
(***************************************************************************)
(* What nested calls of tn_with_exception() promise their callers, without *)
(* the C globals they communicate through: structured exceptions.          *)
(*                                                                         *)
(* A guarded call runs an action.  An exception raised while the call is   *)
(* the innermost one ends the action (or the handler that replaced it) and *)
(* is delivered to that call and to no other.  The call then either        *)
(* returns the exception's code, or runs its handler, which is told the    *)
(* exception and either picks the status to return or declines, in which   *)
(* case the very exception it was told about goes on to the enclosing      *)
(* call.  With no call left to take it, the process is aborted.            *)
(***************************************************************************)
EXTENDS Integers, Sequences, SequencesExt

CONSTANTS Exceptions,  \* [code, origin, details] records a client may raise
          Statuses,    \* non-zero status codes, the codes of Exceptions among them
          EAGAIN,      \* the status by which a handler declines
          NULL         \* no exception

VARIABLES calls,     \* guarded calls in progress, innermost last
          inflight,  \* exception on its way to the innermost call, or NULL
          result,    \* status returned by the last guarded call to end
          alive      \* the process has not been aborted

vars == <<calls, inflight, result, alive>>

Call == [handler : BOOLEAN, running : {"action", "handler"},
         told : Exceptions \cup {NULL}]

TypeOK ==
    /\ calls \in Seq(Call)
    /\ inflight \in Exceptions \cup {NULL}
    /\ result \in Statuses \cup {0}
    /\ alive \in BOOLEAN

Init ==
    /\ calls = <<>>
    /\ inflight = NULL
    /\ result = 0
    /\ alive = TRUE

\* User code runs, as opposed to an exception being delivered.
Running == alive /\ inflight = NULL

Enter(handler) ==
    /\ Running
    /\ calls' = Append(calls, [handler |-> handler, running |-> "action",
                               told |-> NULL])
    /\ UNCHANGED <<inflight, result, alive>>

\* The action, or the handler that took over from it, returns rc.  A handler
\* cannot return EAGAIN: that is how it declines.
Return(rc) ==
    /\ Running
    /\ calls # <<>>
    /\ Last(calls).running = "handler" => rc # EAGAIN
    /\ calls' = Front(calls)
    /\ result' = rc
    /\ UNCHANGED <<inflight, alive>>

\* e goes to the innermost of stack, or to nobody.
Deliver(e, stack) ==
    /\ calls' = stack
    /\ IF stack = <<>> THEN alive' = FALSE /\ UNCHANGED inflight
                       ELSE inflight' = e /\ UNCHANGED alive
    /\ UNCHANGED result

Raise(e) == Running /\ Deliver(e, calls)

\* The innermost handler declines: the enclosing call gets what it was told.
Decline ==
    /\ Running
    /\ calls # <<>>
    /\ Last(calls).running = "handler"
    /\ Deliver(Last(calls).told, Front(calls))

\* The innermost call takes the exception: it starts its handler...
Handle ==
    /\ inflight # NULL
    /\ Last(calls).handler
    /\ calls' = [calls EXCEPT ![Len(calls)] =
                    [handler |-> TRUE, running |-> "handler", told |-> inflight]]
    /\ inflight' = NULL
    /\ UNCHANGED <<result, alive>>

\* ... or, having none, returns the exception's code.
Surrender ==
    /\ inflight # NULL
    /\ ~Last(calls).handler
    /\ calls' = Front(calls)
    /\ result' = inflight.code
    /\ inflight' = NULL
    /\ UNCHANGED alive

\* A fatal error ends the process whoever guards it.
Die ==
    /\ Running
    /\ alive' = FALSE
    /\ UNCHANGED <<calls, inflight, result>>

Next ==
    \/ \E handler \in BOOLEAN : Enter(handler)
    \/ \E rc \in Statuses \cup {0} : Return(rc)
    \/ \E e \in Exceptions : Raise(e)
    \/ Decline
    \/ Handle
    \/ Surrender
    \/ Die

Spec == Init /\ [][Next]_vars
=============================================================================
