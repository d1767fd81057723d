--------------------------- MODULE AtomicRegister ---------------------------
(***************************************************************************)
(* What the double buffers of ZenbeddedClientBase promise to their users:  *)
(* an atomic single-writer register that holds one whole payload.          *)
(*                                                                         *)
(* The n-th payload ever written is represented by its number n; payload 0 *)
(* is the template that init() leaves in the buffer.  A read returns, in   *)
(* every byte, the payload that was the latest one at a single instant     *)
(* between the call and the return.  A reader may look at the register     *)
(* several times before it commits itself; only the last look counts.      *)
(***************************************************************************)
EXTENDS Naturals

CONSTANTS Readers,   \* threads that read the register
          Bytes,     \* positions of the bytes of a payload
          MaxWrites, \* bound on the number of writes of a behaviour
          NoPayload  \* a reader has nothing while its read is under way

VARIABLES latest,    \* number of the latest payload
          phase,     \* phase[r]: "idle", "reading" or "sampled"
          sampled,   \* sampled[r]: the payload r saw at its last look
          returned   \* returned[r]: what the last completed read gave r

vars == <<latest, phase, sampled, returned>>

Payload(n) == [b \in Bytes |-> n]

Init == /\ latest = 0
        /\ phase = [r \in Readers |-> "idle"]
        /\ sampled = [r \in Readers |-> 0]
        /\ returned = [r \in Readers |-> Payload(0)]

Write == /\ latest < MaxWrites
         /\ latest' = latest + 1
         /\ UNCHANGED <<phase, sampled, returned>>

Invoke(r) == /\ phase[r] = "idle"
             /\ phase' = [phase EXCEPT ![r] = "reading"]
             /\ returned' = [returned EXCEPT ![r] = NoPayload]
             /\ UNCHANGED <<latest, sampled>>

Sample(r) == /\ phase[r] = "reading"
             /\ phase' = [phase EXCEPT ![r] = "sampled"]
             /\ sampled' = [sampled EXCEPT ![r] = latest]
             /\ UNCHANGED <<latest, returned>>

Discard(r) == /\ phase[r] = "sampled"
              /\ phase' = [phase EXCEPT ![r] = "reading"]
              /\ UNCHANGED <<latest, sampled, returned>>

Return(r) == /\ phase[r] = "sampled"
             /\ phase' = [phase EXCEPT ![r] = "idle"]
             /\ returned' = [returned EXCEPT ![r] = Payload(sampled[r])]
             /\ UNCHANGED <<latest, sampled>>

Next == \/ Write
        \/ \E r \in Readers : Invoke(r) \/ Sample(r) \/ Discard(r) \/ Return(r)

Spec == Init /\ [][Next]_vars
=============================================================================
