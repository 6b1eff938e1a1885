---------------------------- MODULE TypedChannel ----------------------------
(***************************************************************************)
(* What a pair of encode and decode calls on one stream promises: a        *)
(* channel that delivers whole items, in order, as they were sent.  It may *)
(* fail to deliver (no space, a truncated message, a failing callback) but *)
(* never delivers anything else.                                           *)
(***************************************************************************)
EXTENDS Naturals, Sequences, SequencesExt

CONSTANT Items   \* what may be sent

VARIABLES sent,      \* items put on the channel, the last perhaps in part
          received   \* items delivered

vars == <<sent, received>>

Init == sent = <<>> /\ received = <<>>

Send ==
    /\ Len(sent') = Len(sent) + 1
    /\ Front(sent') = sent
    /\ Last(sent') \in Items
    /\ UNCHANGED received

Receive ==
    /\ Len(received) < Len(sent)
    /\ received' = Append(received, sent[Len(received) + 1])
    /\ UNCHANGED sent

Next == Send \/ Receive

Spec == Init /\ [][Next]_vars
=============================================================================
