------------------------------ MODULE Dispatch ------------------------------
(***************************************************************************)
(* How a queued job reaches a worker: the request commits the job with its *)
(* message, publishes the message after the commit, and records the job as *)
(* failed, in a transaction of its own, when publication raises.  Nothing  *)
(* makes commit and publication one step, so a process that stops between  *)
(* them forgets the message; the broker may lose it or deliver it again.   *)
(* The three kinds of jobs have a dispatcher of this shape each.           *)
(***************************************************************************)
VARIABLES
  outbox,    \* committed messages the web process has yet to publish
  unsent,    \* messages whose publication raised, failure not yet recorded
  broker     \* messages Redis holds

queues == <<outbox, unsent, broker>>

QueuesEmpty == outbox = {} /\ unsent = {} /\ broker = {}

\* The message of a job that commits in this step.
Enqueue(m) == outbox' = outbox \union {m} /\ UNCHANGED <<unsent, broker>>

Send(m) ==
  /\ m \in outbox
  /\ outbox' = outbox \ {m}
  /\ broker' = broker \union {m}
  /\ UNCHANGED unsent

\* send_task raised; the broker may hold the message all the same.
SendRaises(m) ==
  /\ m \in outbox
  /\ outbox' = outbox \ {m}
  /\ unsent' = unsent \union {m}
  /\ broker' \in {broker, broker \union {m}}

\* The dispatcher records the failure in this step.
TakeUnsent(m) ==
  /\ m \in unsent
  /\ unsent' = unsent \ {m}
  /\ UNCHANGED <<outbox, broker>>

\* The web process stops before publishing, or cannot record the failure.
Forget(m) ==
  /\ m \in outbox \union unsent
  /\ outbox' = outbox \ {m}
  /\ unsent' = unsent \ {m}
  /\ UNCHANGED broker

\* A worker takes the message; the broker may deliver it once more.
Deliver(m) ==
  /\ m \in broker
  /\ broker' \in {broker, broker \ {m}}
  /\ UNCHANGED <<outbox, unsent>>

\* The message is acknowledged without effect, or lost.
Drop(m) ==
  /\ m \in broker
  /\ broker' = broker \ {m}
  /\ UNCHANGED <<outbox, unsent>>
=============================================================================
