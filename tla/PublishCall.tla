---------------------------- MODULE PublishCall ----------------------------
(***************************************************************************)
(* zenbedded_transport_publish() of Tier 1, step by step.  The handle has  *)
(* one attachment, with a sequence number and a time stamp, that every     *)
(* call changes without a lock and gives to zenoh-pico as a pointer.  The  *)
(* control thread calls it through zenoh_publish_state(), which is public: *)
(* the application may be inside the same function.                        *)
(*                                                                         *)
(* A stamp has 64 bits and is stored and copied word by word; a stamp that *)
(* was read from the clock at time n has n in each word.  Sequence numbers *)
(* stay below 2^32, so only their lower word ever changes.                 *)
(*                                                                         *)
(* External: the put of zenoh-pico copies the attachment under a lock of   *)
(* its own, which a call that changes the attachment does not take; when   *)
(* the network is congested it drops the message.                          *)
(***************************************************************************)
EXTENDS Integers, Sequences

CONSTANTS Callers,  \* threads that publish on the handle
          Words,    \* words of a time stamp
          MaxCalls, \* bound: calls in a behaviour
          MaxClock  \* bound: times that the clock may show

ASSUME PublishAssumption == MaxCalls \in Nat /\ MaxClock \in Nat /\ "seq" \notin Words

VARIABLES
  sequence_number, timestamp_ns, \* pub->attachment
  pc,       \* position of each caller
  tv,       \* the time each caller has read
  loaded,   \* the sequence number each caller has loaded
  todo,     \* what a caller has still to store, or the put to copy
  copy,     \* what the put of each caller has copied
  (* history variables *)
  begun,    \* calls begun
  before,   \* the sequence number when each call began
  alone,    \* no other call has been under way during this one
  overlaps, \* calls that have begun while another was under way
  sent      \* the attachments on the wire, with the history of their calls

attachment == <<sequence_number, timestamp_ns>>
vars == <<attachment, pc, tv, loaded, todo, copy, begun, before, alone,
          overlaps, sent>>

Fields == Words \cup {"seq"}

Init ==
  /\ sequence_number = 0 /\ timestamp_ns = [w \in Words |-> 0]
  /\ pc = [t \in Callers |-> "idle"]
  /\ tv = [t \in Callers |-> 0] /\ loaded = [t \in Callers |-> 0]
  /\ todo = [t \in Callers |-> {}]
  /\ copy = [t \in Callers |-> [f \in Fields |-> 0]]
  /\ begun = 0 /\ before = [t \in Callers |-> 0]
  /\ alone = [t \in Callers |-> TRUE] /\ overlaps = 0
  /\ sent = <<>>

GoTo(t, from, to) == pc[t] = from /\ pc' = [pc EXCEPT ![t] = to]

(* clock_gettime(): CLOCK_REALTIME can be set, to an earlier time too, as  *)
(* sync_time_from_ntp() does, so any time may follow any other.            *)
Begin(t, now) ==
  LET others == {u \in Callers : pc[u] # "idle"} IN
  /\ begun < MaxCalls
  /\ GoTo(t, "idle", "load")
  /\ tv' = [tv EXCEPT ![t] = now]
  /\ begun' = begun + 1
  /\ before' = [before EXCEPT ![t] = sequence_number]
  /\ alone' = [u \in Callers |-> IF u = t THEN others = {}
                                 ELSE alone[u] /\ u \notin others]
  /\ overlaps' = IF others = {} THEN overlaps ELSE overlaps + 1
  /\ UNCHANGED <<attachment, loaded, todo, copy, sent>>

(* sequence_number++ *)
Load(t) ==
  /\ GoTo(t, "load", "store")
  /\ loaded' = [loaded EXCEPT ![t] = sequence_number]
  /\ UNCHANGED <<attachment, tv, todo, copy, begun, before, alone, overlaps, sent>>

Store(t) ==
  /\ GoTo(t, "store", "stamp")
  /\ sequence_number' = loaded[t] + 1
  /\ todo' = [todo EXCEPT ![t] = Words]
  /\ UNCHANGED <<timestamp_ns, tv, loaded, copy, begun, before, alone, overlaps, sent>>

(* timestamp_ns = ... *)
Stamp(t, w) ==
  /\ pc[t] = "stamp" /\ w \in todo[t]
  /\ timestamp_ns' = [timestamp_ns EXCEPT ![w] = tv[t]]
  /\ todo' = [todo EXCEPT ![t] = @ \ {w}]
  /\ UNCHANGED <<sequence_number, pc, tv, loaded, copy, begun, before, alone,
                 overlaps, sent>>

(* Mutant of BeginPut: puts before the stamp is complete. *)
BeginPutEarly(t) ==
  /\ \A u \in Callers : pc[u] # "put"
  /\ GoTo(t, "stamp", "put")
  /\ todo' = [todo EXCEPT ![t] = Fields]
  /\ UNCHANGED <<attachment, tv, loaded, copy, begun, before, alone, overlaps, sent>>

(* z_publisher_put() takes its lock, copies the attachment and sends it. *)
BeginPut(t) ==
  /\ todo[t] = {} /\ \A u \in Callers : pc[u] # "put"
  /\ GoTo(t, "stamp", "put")
  /\ todo' = [todo EXCEPT ![t] = Fields]
  /\ UNCHANGED <<attachment, tv, loaded, copy, begun, before, alone, overlaps, sent>>

Copy(t, f) ==
  /\ pc[t] = "put" /\ f \in todo[t]
  /\ copy' = [copy EXCEPT ![t][f] = IF f = "seq" THEN sequence_number
                                                 ELSE timestamp_ns[f]]
  /\ todo' = [todo EXCEPT ![t] = @ \ {f}]
  /\ UNCHANGED <<attachment, pc, tv, loaded, begun, before, alone, overlaps, sent>>

(* It returns Z_OK. *)
EndPut(t) ==
  /\ todo[t] = {} /\ GoTo(t, "put", "idle")
  /\ sent' = Append(sent, [attachment |-> copy[t], before |-> before[t],
                           tv |-> tv[t], alone |-> alone[t], overlaps |-> overlaps])
  /\ UNCHANGED <<attachment, tv, loaded, todo, copy, begun, before, alone, overlaps>>

(* Mutant of FailPut: an error starts the numbering again. *)
FailPutResets(t) ==
  /\ todo[t] = {} /\ GoTo(t, "stamp", "idle")
  /\ sequence_number' = 0
  /\ UNCHANGED <<timestamp_ns, tv, loaded, todo, copy, begun, before, alone,
                 overlaps, sent>>

(* It returns an error: nothing is sent, and the number stays advanced. *)
FailPut(t) ==
  /\ todo[t] = {} /\ GoTo(t, "stamp", "idle")
  /\ UNCHANGED <<attachment, tv, loaded, todo, copy, begun, before, alone,
                 overlaps, sent>>

Call(t) == \/ (\E now \in 1 .. MaxClock : Begin(t, now)) \/ Load(t) \/ Store(t)
           \/ (\E w \in Words : Stamp(t, w))
           \/ BeginPut(t) \/ (\E f \in Fields : Copy(t, f)) \/ EndPut(t) \/ FailPut(t)

Next == \E t \in Callers : Call(t)

Spec == Init /\ [][Next]_vars

-----------------------------------------------------------------------------
(* A call that no other call overlaps sends its own time, whole, and the   *)
(* number after the one it found, whatever earlier calls have done to the  *)
(* attachment: a lost increment or a mixed stamp does not outlive the      *)
(* overlap that caused it (zenoh_transport.c:328-331).                     *)
AloneIsExact ==
  \A i \in DOMAIN sent :
    LET a == sent[i].attachment IN
    sent[i].alone => /\ a["seq"] = sent[i].before + 1
                     /\ \A w \in Words : a[w] = sent[i].tv

(* The numbers of the calls between two overlaps grow on the wire, however *)
(* far an overlap before them has set the number back and however often    *)
(* the put fails: a failure leaves a gap, never a repetition.  Within an   *)
(* overlap numbers may repeat and go back.  The times may always go back,  *)
(* with the clock.                                                         *)
OrderedBetweenOverlaps ==
  \A i, j \in DOMAIN sent :
    /\ i < j /\ sent[i].alone /\ sent[j].alone
    /\ sent[i].overlaps = sent[j].overlaps
    => sent[i].attachment["seq"] < sent[j].attachment["seq"]

=============================================================================
