------------------------- MODULE PublishCallProofs -------------------------
(***************************************************************************)
(* What a publisher of Tier 1 puts on the wire, for every number of        *)
(* callers, calls, times and words of a stamp.                             *)
(***************************************************************************)
EXTENDS PublishCall, TLAPS

Attachment == [attachment : [Fields -> Nat], before : Nat, tv : Nat, alone : BOOLEAN,
               overlaps : Nat]

TypeOK ==
  /\ sequence_number \in Nat /\ timestamp_ns \in [Words -> Nat]
  /\ pc \in [Callers -> {"idle", "load", "store", "stamp", "put"}]
  /\ tv \in [Callers -> Nat] /\ loaded \in [Callers -> Nat]
  /\ todo \in [Callers -> SUBSET Fields]
  /\ copy \in [Callers -> [Fields -> Nat]]
  /\ begun \in Nat /\ before \in [Callers -> Nat]
  /\ alone \in [Callers -> BOOLEAN] /\ overlaps \in Nat
  /\ sent \in Seq(Attachment)

Active(t) == pc[t] # "idle"

(* A call is marked as alone only while it is the only one under way. *)
AloneIsAlone ==
  \A t, u \in Callers : Active(t) /\ Active(u) /\ alone[t] => t = u

(* How far a call that is alone has come: what it found, what it has       *)
(* stored and what its put has copied.                                     *)
AloneCall(t) ==
  Active(t) /\ alone[t] =>
    /\ pc[t] \in {"load", "store"} => sequence_number = before[t]
    /\ pc[t] = "store" => loaded[t] = before[t]
    /\ pc[t] \in {"stamp", "put"} => sequence_number = before[t] + 1
    /\ pc[t] = "stamp" => \A w \in Words \ todo[t] : timestamp_ns[w] = tv[t]
    /\ pc[t] = "put" =>
         /\ \A w \in Words : timestamp_ns[w] = tv[t]
         /\ "seq" \notin todo[t] => copy[t]["seq"] = before[t] + 1
         /\ \A w \in Words \ todo[t] : copy[t][w] = tv[t]

(* Since a call that was alone has ended and no overlap has begun, every   *)
(* call under way is alone too, and the number on the wire is not above    *)
(* the attachment's and what the call under way has found.                 *)
WireIsOlder ==
  \A i \in DOMAIN sent :
    /\ sent[i].overlaps <= overlaps
    /\ sent[i].alone /\ sent[i].overlaps = overlaps =>
         /\ sent[i].attachment["seq"] <= sequence_number
         /\ \A t \in Callers :
              Active(t) => alone[t] /\ sent[i].attachment["seq"] <= before[t]

IInv == /\ TypeOK /\ AloneIsAlone /\ \A t \in Callers : AloneCall(t)
        /\ AloneIsExact /\ WireIsOlder /\ OrderedBetweenOverlaps
-----------------------------------------------------------------------------
USE PublishAssumption DEF PublishAssumption

LEMMA InitIInv == Init => IInv
<1> SUFFICES ASSUME Init PROVE IInv
  OBVIOUS
<1>1. DOMAIN sent = {} /\ sent \in Seq(Attachment)
  BY DEF Init
<1>2. TypeOK
  BY <1>1 DEF Init, TypeOK
<1>3. AloneIsAlone /\ \A t \in Callers : AloneCall(t)
  BY DEF Init, AloneIsAlone, AloneCall, Active
<1>4. AloneIsExact /\ WireIsOlder /\ OrderedBetweenOverlaps
  BY <1>1 DEF Init, AloneIsExact, WireIsOlder, OrderedBetweenOverlaps, Active
<1> QED
  BY <1>2, <1>3, <1>4 DEF IInv

LEMMA SentType ==
  ASSUME TypeOK, NEW i \in DOMAIN sent
  PROVE  sent[i].attachment["seq"] \in Nat /\ sent[i].overlaps \in Nat
<1>1. sent[i] \in Attachment
  BY DEF TypeOK
<1>2. sent[i].attachment \in [Fields -> Nat] /\ sent[i].overlaps \in Nat
  BY <1>1 DEF Attachment
<1> QED
  BY <1>2 DEF Fields

LEMMA TypePreserved == TypeOK /\ [Next]_vars => TypeOK'
<1> SUFFICES ASSUME TypeOK, [Next]_vars PROVE TypeOK'
  OBVIOUS
<1> USE DEF TypeOK, attachment, GoTo
<1>1. ASSUME NEW t \in Callers, NEW now \in 1 .. MaxClock, Begin(t, now) PROVE TypeOK'
  <2>1. alone' \in [Callers -> BOOLEAN]
    BY <1>1 DEF Begin
  <2>2. overlaps' \in Nat
    BY <1>1 DEF Begin
  <2>3. begun' \in Nat /\ before' \in [Callers -> Nat] /\ tv' \in [Callers -> Nat]
    BY <1>1 DEF Begin
  <2>4. pc' \in [Callers -> {"idle", "load", "store", "stamp", "put"}]
    BY <1>1 DEF Begin
  <2> QED
    BY <1>1, <2>1, <2>2, <2>3, <2>4 DEF Begin
<1>2. ASSUME NEW t \in Callers, Load(t) PROVE TypeOK'
  BY <1>2 DEF Load
<1>3. ASSUME NEW t \in Callers, Store(t) PROVE TypeOK'
  <2>1. Words \in SUBSET Fields /\ loaded[t] + 1 \in Nat
    BY DEF Fields
  <2> QED
    BY <1>3, <2>1 DEF Store
<1>4. ASSUME NEW t \in Callers, NEW w \in Words, Stamp(t, w) PROVE TypeOK'
  BY <1>4 DEF Stamp
<1>5. ASSUME NEW t \in Callers, BeginPut(t) PROVE TypeOK'
  BY <1>5 DEF BeginPut
<1>6. ASSUME NEW t \in Callers, NEW f \in Fields, Copy(t, f) PROVE TypeOK'
  <2>1. (IF f = "seq" THEN sequence_number ELSE timestamp_ns[f]) \in Nat
    BY DEF Fields
  <2> QED
    BY <1>6, <2>1 DEF Copy
<1>7. ASSUME NEW t \in Callers, EndPut(t) PROVE TypeOK'
  BY <1>7 DEF EndPut, Attachment
<1>8. ASSUME NEW t \in Callers, FailPut(t) PROVE TypeOK'
  BY <1>8 DEF FailPut
<1>9. CASE UNCHANGED vars
  BY <1>9 DEF vars
<1> QED
  BY <1>1, <1>2, <1>3, <1>4, <1>5, <1>6, <1>7, <1>8, <1>9 DEF Next, Call

LEMMA NextIInv == IInv /\ [Next]_vars => IInv'
<1> SUFFICES ASSUME IInv, [Next]_vars PROVE IInv'
  OBVIOUS
<1>0. TypeOK /\ TypeOK'
  BY TypePreserved DEF IInv
<1> DEFINE Rest == /\ AloneIsAlone /\ (\A t \in Callers : AloneCall(t))
                   /\ AloneIsExact /\ WireIsOlder /\ OrderedBetweenOverlaps
<1>a. Rest
  BY DEF IInv
<1> SUFFICES Rest'
  BY <1>0 DEF IInv
<1> USE <1>0, <1>a DEF TypeOK, attachment, GoTo, Active
<1> HIDE DEF Rest
<1>1. ASSUME NEW t \in Callers, NEW now \in 1 .. MaxClock, Begin(t, now) PROVE Rest'
  <2> USE <1>1 DEF Begin, Rest
  <2>1. AloneIsAlone'
    BY DEF AloneIsAlone
  <2>2. ASSUME NEW u \in Callers PROVE AloneCall(u)'
    BY DEF AloneCall
  <2>3. AloneIsExact'
    BY DEF AloneIsExact
  <2>4. WireIsOlder'
    <3>1. CASE \E u \in Callers : Active(u)
      <4>1. overlaps' = overlaps + 1
        BY <3>1
      <4>2. \A i \in DOMAIN sent : sent[i].overlaps \in Nat /\ sent[i].overlaps <= overlaps
        BY SentType DEF WireIsOlder
      <4>3. \A n \in Nat : n <= overlaps => n <= overlaps + 1 /\ n # overlaps + 1
        BY <1>0 DEF TypeOK
      <4>4. \A i \in DOMAIN sent :
              sent[i].overlaps <= overlaps' /\ sent[i].overlaps # overlaps'
        BY ONLY <4>1, <4>2, <4>3, Zenon
      <4> QED
        BY <4>4 DEF WireIsOlder
    <3>2. CASE \A u \in Callers : ~Active(u)
      <4>1. overlaps' = overlaps /\ alone'[t] /\ before'[t] = sequence_number
        BY <3>2
      <4>2. \A u \in Callers : Active(u)' => u = t
        BY <3>2
      <4> QED
        BY <4>1, <4>2 DEF WireIsOlder
    <3> QED
      BY <3>1, <3>2
  <2>5. OrderedBetweenOverlaps'
    BY DEF OrderedBetweenOverlaps
  <2> QED
    BY <2>1, <2>2, <2>3, <2>4, <2>5
<1>2. ASSUME NEW t \in Callers, Load(t) PROVE Rest'
  BY <1>2 DEF Load, Rest, AloneIsAlone, AloneCall, AloneIsExact, WireIsOlder,
              OrderedBetweenOverlaps
<1>3. ASSUME NEW t \in Callers, Store(t) PROVE Rest'
  <2> USE <1>3 DEF Store, Rest
  <2>1. AloneIsAlone'
    BY DEF AloneIsAlone
  <2>2. ASSUME NEW u \in Callers PROVE AloneCall(u)'
    BY DEF AloneCall, AloneIsAlone
  <2>3. AloneIsExact'
    BY DEF AloneIsExact
  <2>4. WireIsOlder'
    <3> SUFFICES ASSUME NEW i \in DOMAIN sent, sent[i].alone, sent[i].overlaps = overlaps
                 PROVE  sent[i].attachment["seq"] <= sequence_number'
      BY DEF WireIsOlder
    <3>1. alone[t] /\ sent[i].attachment["seq"] <= before[t]
      BY DEF WireIsOlder
    <3>2. sequence_number' = before[t] + 1
      BY <3>1 DEF AloneCall
    <3> QED
      BY <3>1, <3>2, SentType
  <2>5. OrderedBetweenOverlaps'
    BY DEF OrderedBetweenOverlaps
  <2> QED
    BY <2>1, <2>2, <2>3, <2>4, <2>5
<1>4. ASSUME NEW t \in Callers, NEW w \in Words, Stamp(t, w) PROVE Rest'
  <2> USE <1>4 DEF Stamp, Rest
  <2>1. AloneIsAlone'
    BY DEF AloneIsAlone
  <2>2. ASSUME NEW u \in Callers PROVE AloneCall(u)'
    BY DEF AloneCall, AloneIsAlone
  <2>3. AloneIsExact' /\ WireIsOlder' /\ OrderedBetweenOverlaps'
    BY DEF AloneIsExact, WireIsOlder, OrderedBetweenOverlaps
  <2> QED
    BY <2>1, <2>2, <2>3
<1>5. ASSUME NEW t \in Callers, BeginPut(t) PROVE Rest'
  <2> USE <1>5 DEF BeginPut, Rest
  <2>1. AloneIsAlone'
    BY DEF AloneIsAlone
  <2>2. ASSUME NEW u \in Callers PROVE AloneCall(u)'
    BY DEF AloneCall, Fields
  <2>3. AloneIsExact' /\ WireIsOlder' /\ OrderedBetweenOverlaps'
    BY DEF AloneIsExact, WireIsOlder, OrderedBetweenOverlaps
  <2> QED
    BY <2>1, <2>2, <2>3
<1>6. ASSUME NEW t \in Callers, NEW f \in Fields, Copy(t, f) PROVE Rest'
  <2> USE <1>6 DEF Copy, Rest
  <2>1. AloneIsAlone'
    BY DEF AloneIsAlone
  <2>2. ASSUME NEW u \in Callers PROVE AloneCall(u)'
    BY DEF AloneCall, Fields
  <2>3. AloneIsExact' /\ WireIsOlder' /\ OrderedBetweenOverlaps'
    BY DEF AloneIsExact, WireIsOlder, OrderedBetweenOverlaps
  <2> QED
    BY <2>1, <2>2, <2>3
<1>7. ASSUME NEW t \in Callers, EndPut(t) PROVE Rest'
  <2> USE <1>7 DEF EndPut, Rest
  <2> DEFINE new == [attachment |-> copy[t], before |-> before[t],
                     tv |-> tv[t], alone |-> alone[t], overlaps |-> overlaps]
  <2>0. /\ DOMAIN sent' = 1 .. Len(sent) + 1 /\ DOMAIN sent = 1 .. Len(sent)
        /\ sent'[Len(sent) + 1] = new
        /\ \A i \in DOMAIN sent : sent'[i] = sent[i]
    BY DEF Attachment
  <2>1. AloneIsAlone'
    BY DEF AloneIsAlone
  <2>2. ASSUME NEW u \in Callers PROVE AloneCall(u)'
    BY DEF AloneCall
  <2>c. alone[t] => copy[t]["seq"] = before[t] + 1 /\ \A w \in Words : copy[t][w] = tv[t]
    BY DEF AloneCall
  <2>3. AloneIsExact'
    BY <2>0, <2>c DEF AloneIsExact
  <2>4. WireIsOlder'
    <3> SUFFICES ASSUME NEW i \in DOMAIN sent'
                 PROVE  /\ sent'[i].overlaps <= overlaps
                        /\ sent'[i].alone /\ sent'[i].overlaps = overlaps =>
                             /\ sent'[i].attachment["seq"] <= sequence_number
                             /\ \A u \in Callers : Active(u)' =>
                                  alone[u] /\ sent'[i].attachment["seq"] <= before[u]
      BY DEF WireIsOlder
    <3>1. CASE i \in DOMAIN sent
      <4>1. sent'[i] = sent[i]
        BY <2>0, <3>1
      <4>2. \A u \in Callers : Active(u)' => Active(u)
        OBVIOUS
      <4> QED
        BY <3>1, <4>1, <4>2 DEF WireIsOlder
    <3>2. CASE i = Len(sent) + 1
      <4>1. sent'[i] = new
        BY <2>0, <3>2
      <4>2. alone[t] => \A u \in Callers : ~Active(u)'
        BY DEF AloneIsAlone
      <4>3. alone[t] => copy[t]["seq"] = sequence_number
        BY <2>c DEF AloneCall
      <4> QED
        BY <4>1, <4>2, <4>3
    <3> QED
      BY <2>0, <3>1, <3>2
  <2>5. OrderedBetweenOverlaps'
    <3> SUFFICES ASSUME NEW i \in DOMAIN sent', NEW j \in DOMAIN sent', i < j,
                        sent'[i].alone, sent'[j].alone, sent'[i].overlaps = sent'[j].overlaps
                 PROVE  sent'[i].attachment["seq"] < sent'[j].attachment["seq"]
      BY DEF OrderedBetweenOverlaps
    <3>1. i \in DOMAIN sent /\ sent'[i] = sent[i]
      BY <2>0
    <3>2. CASE j \in DOMAIN sent
      <4>1. sent'[j] = sent[j]
        BY <2>0, <3>2
      <4> QED
        BY <3>1, <3>2, <4>1 DEF OrderedBetweenOverlaps
    <3>3. CASE j = Len(sent) + 1
      <4>1. sent'[j].attachment["seq"] = before[t] + 1
        BY <2>0, <2>c, <3>3
      <4>2. sent[i].attachment["seq"] <= before[t]
        BY <2>0, <3>1, <3>3 DEF WireIsOlder
      <4>3. sent[i].attachment["seq"] \in Nat
        BY <3>1, SentType
      <4> QED
        BY <3>1, <4>1, <4>2, <4>3
    <3> QED
      BY <2>0, <3>2, <3>3
  <2> QED
    BY <2>1, <2>2, <2>3, <2>4, <2>5
<1>8. ASSUME NEW t \in Callers, FailPut(t) PROVE Rest'
  BY <1>8 DEF FailPut, Rest, AloneIsAlone, AloneCall, AloneIsExact, WireIsOlder,
              OrderedBetweenOverlaps
<1>9. CASE UNCHANGED vars
  BY <1>9 DEF vars, Rest, AloneIsAlone, AloneCall, AloneIsExact, WireIsOlder,
               OrderedBetweenOverlaps
<1> QED
  BY <1>1, <1>2, <1>3, <1>4, <1>5, <1>6, <1>7, <1>8, <1>9 DEF Next, Call

(* In every behaviour of zenbedded_transport_publish() the attachment and  *)
(* the calls under way are related as IInv says.                           *)
THEOREM Inductive == Spec => []IInv
BY InitIInv, NextIInv, PTL DEF Spec

(* A call of zenbedded_transport_publish() that no other overlaps sends    *)
(* its own whole stamp and the number after the one it found, however many *)
(* callers have mixed the attachment before.                               *)
THEOREM AloneCallIsExact == Spec => []AloneIsExact
<1>1. IInv => AloneIsExact
  BY DEF IInv
<1> QED
  BY <1>1, Inductive, PTL

(* Between two overlaps the numbers on the wire grow, for every number of  *)
(* callers and calls, whatever the clock is set to, however often the put  *)
(* fails and however far an earlier overlap has set the number back.       *)
THEOREM WireIsOrdered == Spec => []OrderedBetweenOverlaps
<1>1. IInv => OrderedBetweenOverlaps
  BY DEF IInv
<1> QED
  BY <1>1, Inductive, PTL
=============================================================================
