-------------------------- MODULE MCQueueThrottle --------------------------
(* A small instance of QueueThrottle for TLC: the traffic jobs over the     *)
(* usage queues.                                                            *)
EXTENDS QueueThrottle, TLC

TrafficPauses ==
    ("reset" :> <<{"updateUsersUsage", "pushFromRedis"}>>) @@ ("cleanup" :> <<{"updateUsersUsage"}>>)

Two == [q \in Queues |-> 2]
=============================================================================
