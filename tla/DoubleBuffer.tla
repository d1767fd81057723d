---------------------------- MODULE DoubleBuffer ----------------------------
(***************************************************************************)
(* The lock-free double buffer of ZenbeddedClientBase                      *)
(* (zenbedded_rcl/src/zenbedded_client.cpp).  The client holds two of      *)
(* them:                                                                   *)
(*   state   written by write_state() in the application thread, read by   *)
(*           zenoh_publish_state() in the control thread (and by any other *)
(*           thread that calls this public method);                        *)
(*   command written by the Zenoh read task in on_transport_cmd_cb(), read *)
(*           by read_command() in the application thread.  Only this one   *)
(*           counts what it accepts: Counting is TRUE for it.              *)
(*                                                                         *)
(* There is one writer.  Every access to shared memory is a step, and the  *)
(* two memcpy()s go byte by byte in any order, so a reader can meet every  *)
(* mixture of payloads that the unsynchronised copies can leave.  The      *)
(* order of the steps is program order: the atomics of Zephyr are          *)
(* sequentially consistent and the copies are kept between them by the     *)
(* fences and by the loads that precede them.                              *)
(*                                                                         *)
(* The payload of the n-th write has the number n in each of its bytes.    *)
(***************************************************************************)
EXTENDS Naturals

CONSTANTS Readers,    \* threads that read the buffer
          Bytes,      \* positions of the bytes of a payload
          VersionMod, \* number of values of a version counter: 2^32
          Counting,   \* does the writer count its writes (command buffer)?
          MaxWrites,  \* bound: writes in a behaviour
          MaxLap      \* bound: version increments one attempt can overlap

(***************************************************************************)
(* The version counters wrap.  An attempt that is preempted while exactly  *)
(* 2^32 writes go through its slot cannot notice them; the algorithm       *)
(* relies on no attempt being that slow, which is LapAssumption.           *)
(***************************************************************************)
ASSUME BoundsAssumption == MaxWrites \in Nat /\ VersionMod \in Nat \ {0}
ASSUME CountingAssumption == Counting \in BOOLEAN
ASSUME LapAssumption == MaxLap \in Nat /\ MaxLap < VersionMod

VARIABLES
  active,    \* *_buffer_active_idx_
  version,   \* *_buffer_version_[2]
  buffer,    \* *_buffer_[2][...]
  accepted,  \* cmd_accepted_count_
  wpc, widx, wrem,  \* writer: position, write_idx, bytes still to be copied
  rpc,       \* rpc[r]: position of reader r
  ridx,      \* ridx[r]: read_idx
  rver,      \* rver[r]: ver_before
  rrem,      \* rrem[r]: bytes still to be copied
  data,      \* data[r]: the destination of r's memcpy()
  seen,      \* seen[r]: accepted_command_count() just before r's read
  (* history variables, of which the code knows nothing *)
  committed, \* number of writes made visible
  begun,     \* begun[r]: committed when r's current read began
  from,      \* from[r]: committed when r's current attempt began
  lap,       \* lap[r]: increments of r's slot since r loaded its version
  sample     \* sample[r]: committed when r last found its index unchanged

shared == <<active, version, buffer, accepted, committed>>
writer == <<wpc, widx, wrem>>
reader == <<rpc, ridx, rver, rrem, data, seen, begun, from, sample>>
vars   == <<shared, writer, reader, lap>>

Slots == {0, 1}
Other(i) == 1 - i
(* Mutant of Inc: a counter that does not wrap. *)
IncNoWrap(v) == v + 1

Inc(v) == IF v = VersionMod - 1 THEN 0 ELSE v + 1

(* reset_buffers() and the codec templates of init(): payload 0 everywhere. *)
Init == /\ active = 0
        /\ version = [i \in Slots |-> 0]
        /\ buffer = [i \in Slots |-> [b \in Bytes |-> 0]]
        /\ accepted = 0
        /\ committed = 0
        /\ wpc = "idle" /\ widx = 0 /\ wrem = {}
        /\ rpc = [r \in Readers |-> "idle"]
        /\ ridx = [r \in Readers |-> 0]
        /\ rver = [r \in Readers |-> 0]
        /\ rrem = [r \in Readers |-> {}]
        /\ data = [r \in Readers |-> [b \in Bytes |-> 0]]
        /\ seen = [r \in Readers |-> 0]
        /\ begun = [r \in Readers |-> 0]
        /\ from = [r \in Readers |-> 0]
        /\ lap = [r \in Readers |-> 0]
        /\ sample = [r \in Readers |-> 0]

-----------------------------------------------------------------------------
(* The writer: prepare_state_write_slot(), the codec and                   *)
(* commit_state_write_slot(), or write_command_to_buffer().                *)

(* Mutant of PrepareSlot: counts a command when it arrives. *)
PrepareSlotCounting ==
  /\ wpc = "idle" /\ committed < MaxWrites
  /\ widx' = Other(active)
  /\ wrem' = Bytes
  /\ wpc' = "fill"
  /\ accepted' = accepted + 1
  /\ UNCHANGED <<active, version, buffer, committed, reader, lap>>

PrepareSlot ==
  /\ wpc = "idle" /\ committed < MaxWrites
  /\ widx' = Other(active)
  /\ wrem' = Bytes
  /\ wpc' = "fill"
  /\ UNCHANGED <<shared, reader, lap>>

WriteByte(b) ==
  /\ wpc = "fill" /\ b \in wrem
  /\ buffer' = [buffer EXCEPT ![widx][b] = committed + 1]
  /\ wrem' = wrem \ {b}
  /\ UNCHANGED <<active, version, accepted, committed, wpc, widx, reader, lap>>

(* The readers that are between their two looks at the version. *)
InAttempt(r) == rpc[r] \in {"copy", "version2"}

(* Mutant of IncVersion: bumps the version of the slot being read. *)
IncWrongVersion ==
  /\ wpc = "fill" /\ wrem = {}
  /\ version' = [version EXCEPT ![Other(widx)] = Inc(@)]
  /\ wpc' = "flip"
  /\ UNCHANGED <<active, buffer, accepted, committed, widx, wrem, reader, lap>>

IncVersion ==
  /\ wpc = "fill" /\ wrem = {}
  /\ \A r \in Readers : InAttempt(r) /\ ridx[r] = widx => lap[r] < MaxLap
  /\ version' = [version EXCEPT ![widx] = Inc(@)]
  /\ lap' = [r \in Readers |->
               IF InAttempt(r) /\ ridx[r] = widx THEN lap[r] + 1 ELSE lap[r]]
  /\ wpc' = "flip"
  /\ UNCHANGED <<active, buffer, accepted, committed, widx, wrem, reader>>

(* Mutant of FlipActive: leaves the old slot active. *)
FlipForgotten ==
  /\ wpc = "flip"
  /\ active' = Other(widx)
  /\ committed' = committed + 1
  /\ wpc' = IF Counting THEN "count" ELSE "idle"
  /\ UNCHANGED <<version, buffer, accepted, widx, wrem, reader, lap>>

FlipActive ==
  /\ wpc = "flip"
  /\ active' = widx
  /\ committed' = committed + 1
  /\ wpc' = IF Counting THEN "count" ELSE "idle"
  /\ UNCHANGED <<version, buffer, accepted, widx, wrem, reader, lap>>

CountAccepted ==
  /\ wpc = "count"
  /\ accepted' = accepted + 1
  /\ wpc' = "idle"
  /\ UNCHANGED <<active, version, buffer, committed, widx, wrem, reader, lap>>

Writer == \/ PrepareSlot \/ IncVersion \/ FlipActive \/ CountAccepted
          \/ \E b \in Bytes : WriteByte(b)

-----------------------------------------------------------------------------
(* A reader: the loops of zenoh_publish_state() and                        *)
(* read_latest_command_raw() around read_state_from_buffer() and           *)
(* read_command_from_buffer().  The user of the command buffer has taken   *)
(* accepted_command_count() just before.                                   *)

BeginRead(r) ==
  /\ rpc[r] = "idle"
  /\ rpc' = [rpc EXCEPT ![r] = "index"]
  /\ seen' = [seen EXCEPT ![r] = accepted]
  /\ begun' = [begun EXCEPT ![r] = committed]
  /\ UNCHANGED <<shared, writer, ridx, rver, rrem, data, from, sample, lap>>

(* Mutant of LoadIndex: the index is not loaded again for a new attempt. *)
LoadIndexHoisted(r) ==
  /\ rpc[r] = "index"
  /\ rpc' = [rpc EXCEPT ![r] = "version"]
  /\ from' = [from EXCEPT ![r] = committed]
  /\ UNCHANGED <<shared, writer, ridx, rver, rrem, data, seen, begun, sample, lap>>

LoadIndex(r) ==
  /\ rpc[r] = "index"
  /\ rpc' = [rpc EXCEPT ![r] = "version"]
  /\ ridx' = [ridx EXCEPT ![r] = active]
  /\ from' = [from EXCEPT ![r] = committed]
  /\ UNCHANGED <<shared, writer, rver, rrem, data, seen, begun, sample, lap>>

LoadVersion(r) ==
  /\ rpc[r] = "version"
  /\ rpc' = [rpc EXCEPT ![r] = "copy"]
  /\ rver' = [rver EXCEPT ![r] = version[ridx[r]]]
  /\ rrem' = [rrem EXCEPT ![r] = Bytes]
  /\ lap' = [lap EXCEPT ![r] = 0]
  /\ UNCHANGED <<shared, writer, ridx, data, seen, begun, from, sample>>

CopyByte(r, b) ==
  /\ rpc[r] = "copy" /\ b \in rrem[r]
  /\ data' = [data EXCEPT ![r][b] = buffer[ridx[r]][b]]
  /\ rrem' = [rrem EXCEPT ![r] = @ \ {b}]
  /\ UNCHANGED <<shared, writer, rpc, ridx, rver, seen, begun, from, sample, lap>>

(* Mutant of RecheckIndex: trusts the version alone. *)
RecheckIndexSkipped(r) ==
  /\ rpc[r] = "copy" /\ rrem[r] = {}
  /\ rpc' = [rpc EXCEPT ![r] = "version2"]
  /\ sample' = [sample EXCEPT ![r] = committed]
  /\ UNCHANGED <<shared, writer, ridx, rver, rrem, data, seen, begun, from, lap>>

RecheckIndex(r) ==
  /\ rpc[r] = "copy" /\ rrem[r] = {}
  /\ IF active = ridx[r]
       THEN /\ rpc' = [rpc EXCEPT ![r] = "version2"]
            /\ sample' = [sample EXCEPT ![r] = committed]
       ELSE /\ rpc' = [rpc EXCEPT ![r] = "index"]
            /\ UNCHANGED sample
  /\ UNCHANGED <<shared, writer, ridx, rver, rrem, data, seen, begun, from, lap>>

(* Mutant of RecheckVersion: trusts the index alone. *)
RecheckVersionSkipped(r) ==
  /\ rpc[r] = "version2"
  /\ rpc' = [rpc EXCEPT ![r] = "idle"]
  /\ UNCHANGED <<shared, writer, ridx, rver, rrem, data, seen, begun, from,
                 sample, lap>>

RecheckVersion(r) ==
  /\ rpc[r] = "version2"
  /\ rpc' = [rpc EXCEPT
               ![r] = IF version[ridx[r]] = rver[r] THEN "idle" ELSE "index"]
  /\ UNCHANGED <<shared, writer, ridx, rver, rrem, data, seen, begun, from,
                 sample, lap>>

Attempt(r) == \/ LoadIndex(r) \/ LoadVersion(r) \/ RecheckIndex(r)
              \/ RecheckVersion(r)
              \/ \E b \in Bytes : CopyByte(r, b)

Next == Writer \/ \E r \in Readers : BeginRead(r) \/ Attempt(r)

Spec == Init /\ [][Next]_vars

(***************************************************************************)
(* A reader that has begun keeps running: Zephyr schedules the control     *)
(* thread and the application thread in finite time.  Nothing is assumed   *)
(* of the writer, which may stop for ever in the middle of a write.        *)
(***************************************************************************)
FairSpec == Spec /\ \A r \in Readers : WF_vars(Attempt(r))
-----------------------------------------------------------------------------
(* Properties. *)

(* Every variable keeps the type the code gives it. *)
TypeOK ==
  /\ active \in Slots
  /\ version \in [Slots -> 0 .. VersionMod - 1]
  /\ buffer \in [Slots -> [Bytes -> Nat]]
  /\ accepted \in Nat /\ committed \in Nat
  /\ wpc \in {"idle", "fill", "flip", "count"}
  /\ widx \in Slots /\ wrem \in SUBSET Bytes
  /\ rpc \in [Readers -> {"idle", "index", "version", "copy", "version2"}]
  /\ ridx \in [Readers -> Slots]
  /\ rver \in [Readers -> 0 .. VersionMod - 1]
  /\ rrem \in [Readers -> SUBSET Bytes]
  /\ data \in [Readers -> [Bytes -> Nat]]
  /\ seen \in [Readers -> Nat] /\ begun \in [Readers -> Nat]
  /\ from \in [Readers -> Nat] /\ sample \in [Readers -> Nat]
  /\ lap \in [Readers -> 0 .. MaxLap]

(* No torn read: what zenoh_publish_state() publishes and read_command()    *)
(* decodes is, in all its bytes, one payload that one write stored.         *)
NoTornRead ==
  \A r \in Readers : rpc[r] = "idle" => \A b, c \in Bytes : data[r][b] = data[r][c]

(* A read never returns something older than what was visible when it      *)
(* began: no reader, however often it is overtaken, goes back behind        *)
(* another reader that has already returned.                                *)
FreshRead ==
  \A r \in Readers : rpc[r] = "idle" => \A b \in Bytes : data[r][b] >= begun[r]

(* accepted_command_count() announces a command only after it can be read: *)
(* a user who sees the count k and then calls read_command() gets the k-th *)
(* command or a later one.                                                 *)
CountedIsReadable ==
  Counting => \A r \in Readers :
                rpc[r] = "idle" => \A b \in Bytes : data[r][b] >= seen[r]

(* Lock-freedom: an attempt fails only if a write became visible while it   *)
(* was under way.  A writer that is stuck in the middle of a write costs    *)
(* the readers nothing.                                                     *)
RetryHasCause ==
  [][\A r \in Readers :
       (rpc[r] \in {"copy", "version2"} /\ rpc'[r] = "index") => committed > from[r]]_vars

(* With finitely many writes every read returns, although nothing forces   *)
(* the writer to finish the write it has begun.                            *)
ReadReturns == \A r \in Readers : rpc[r] = "index" ~> rpc[r] = "idle"

-----------------------------------------------------------------------------
(***************************************************************************)
(* The buffer implements an atomic register.  A write takes effect when it *)
(* flips the active index.  A read takes effect when it finds the index    *)
(* unchanged after the copy, provided that the version turns out unchanged *)
(* too; otherwise that look is discarded.                                  *)
(***************************************************************************)
Phase(pos) == CASE pos = "idle" -> "idle"
                [] pos = "version2" -> "sampled"
                [] OTHER -> "reading"

NoPayload == "none"

AR == INSTANCE AtomicRegister WITH
        latest   <- committed,
        phase    <- [r \in Readers |-> Phase(rpc[r])],
        sampled  <- sample,
        returned <- [r \in Readers |->
                       IF rpc[r] = "idle" THEN data[r] ELSE NoPayload]

(* The buffer is an atomic register of whole payloads. *)
ImplementsRegister == AR!Spec
=============================================================================
