------------------------------ MODULE EventFeed ------------------------------
(***************************************************************************)
(* What the outbox promises to the services that write into it: an event   *)
(* leaves if its transaction commits and only then, after every event that *)
(* was committed before it was written, and is not forgotten before it has *)
(* left.  Sending an event again changes nothing here.  OutboxRelay.tla is *)
(* shown to implement this module.                                         *)
(***************************************************************************)
CONSTANT Events

VARIABLES
    stage,  \* [Events -> {"absent", "written", "withdrawn", "recorded", "sent", "forgotten"}]
    cause   \* [Events -> events committed before this one was written]

fvars == <<stage, cause>>

FeedInit ==
    /\ stage = [e \in Events |-> "absent"]
    /\ cause = [e \in Events |-> {}]

Move(e, from, to) == stage[e] = from /\ stage' = [stage EXCEPT ![e] = to]

Write(e) ==
    /\ Move(e, "absent", "written")
    /\ cause' = [cause EXCEPT ![e] =
                    {d \in Events : stage[d] \in {"recorded", "sent", "forgotten"}}]

\* The transaction ends one way or the other.
End(e) ==
    /\ Move(e, "written", "recorded") \/ Move(e, "written", "withdrawn")
    /\ UNCHANGED cause

Send(e) ==
    /\ \A d \in cause[e] : stage[d] \in {"sent", "forgotten"}
    /\ Move(e, "recorded", "sent")
    /\ UNCHANGED cause

\* The row is marked: nobody has to send it any more.
Forget(e) ==
    /\ Move(e, "sent", "forgotten")
    /\ UNCHANGED cause

FeedNext == \E e \in Events : Write(e) \/ End(e) \/ Send(e) \/ Forget(e)

FeedSpec == FeedInit /\ [][FeedNext]_fvars
=============================================================================
