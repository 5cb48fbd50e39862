----------------------------- MODULE RecordStream ----------------------------
(***************************************************************************)
(* What an OCF encoder promises, without blocks, buffers or bytes: records *)
(* are accepted one by one, and the accepted ones reach the output they    *)
(* were accepted for all together and in order, or an error says that they *)
(* may not have.  After an error nothing more is accepted for that output. *)
(***************************************************************************)
EXTENDS Naturals, Sequences

CONSTANTS MaxOutputs, MaxRecords

VARIABLES
  out,      \* the current output
  durable,  \* records delivered, per output
  pending,  \* records accepted and not yet delivered
  mode,     \* down: no encoder; open, failed or closed
  next      \* the next record to be accepted

vars == << out, durable, pending, mode, next >>

Outputs == 1 .. MaxOutputs

Init ==
  /\ out = 1 /\ durable = [o \in Outputs |-> << >>]
  /\ pending = << >> /\ mode = "down" /\ next = 1

\* The records a delivering call handles: those pending, and its own if any.
Batch(n) == IF n = 0 THEN pending ELSE Append(pending, next)

Accept ==
  /\ mode = "open" /\ next <= MaxRecords
  /\ pending' = Append(pending, next) /\ next' = next + 1
  /\ UNCHANGED << out, durable, mode >>

\* Everything accepted is delivered; the call may fail all the same.
Deliver(n) ==
  /\ mode = "open" /\ next + n <= MaxRecords + 1
  /\ durable' = [durable EXCEPT ![out] = @ \o Batch(n)]
  /\ pending' = << >> /\ next' = next + n
  /\ mode' \in {"open", "closed", "failed", "down"}
  /\ UNCHANGED out

\* An error: nothing of what was pending is delivered, now or later.
Lose(n) ==
  /\ mode = "open" /\ next + n <= MaxRecords + 1
  /\ pending' = << >> /\ next' = next + n
  /\ mode' \in {"failed", "down"}
  /\ UNCHANGED << out, durable >>

\* The process stops.
Stop ==
  /\ mode' = "down" /\ pending' = << >>
  /\ UNCHANGED << out, durable, next >>

\* A new output, or a new encoder on the same one, with nothing left over.
Attach ==
  /\ mode # "open"
  /\ out' \in {out, out + 1} \cap Outputs
  /\ pending' = << >>
  /\ mode' \in {"open", "closed", "failed", "down"}
  /\ UNCHANGED << durable, next >>

\* An open encoder delivers what is pending and moves to the next output.
Move ==
  /\ mode = "open"
  /\ out' = out + 1 /\ out' \in Outputs
  /\ durable' = [durable EXCEPT ![out] = @ \o pending]
  /\ pending' = << >>
  /\ mode' \in {"open", "failed", "down"}
  /\ UNCHANGED next

Next ==
  \/ Accept \/ Stop \/ Attach \/ Move
  \/ \E n \in 0 .. 1 : Deliver(n) \/ Lose(n)

Spec == Init /\ [][Next]_vars
==============================================================================
