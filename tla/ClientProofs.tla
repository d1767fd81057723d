---------------------------- MODULE ClientProofs ----------------------------
(***************************************************************************)
(* The life cycle of the client, for both tiers, every size of the pools,  *)
(* every frequency and every size of a payload: the flags tell the truth,  *)
(* the thread object is reused only when it is free, and destroy() leaves  *)
(* nothing behind.                                                         *)
(***************************************************************************)
EXTENDS Client, WellFoundedInduction, TLAPS

(* Outside the join of stop_thread() the two flags say whether a thread    *)
(* lives; a thread only lives on an initialized client, and with a         *)
(* frequency to divide by.                                                 *)
ThreadInv ==
  /\ app = "join" => started /\ ~running /\ tpc \in Live \cup {"exited"}
  /\ app # "join" => /\ started <=> tpc \in Live
                     /\ running <=> tpc \in Live
                     /\ tpc # "exiting"
  /\ tpc \in Live => initialized /\ controlFreq # 0

(* What the checks that a call has passed still guarantee further down. *)
CallInv ==
  /\ app \in {"transport_init", "declare_pub", "declare_sub"} =>
       ~initialized /\ stateSize <= MaxState /\ cmdSize <= MaxCmd
  /\ app \in {"declare_pub", "declare_sub"} => isInitialized
  /\ app = "declare_sub" => pub # NULL /\ pubPool[pub].in_use
  /\ app = "create" => initialized /\ freqArg # 0 /\ ~started
  /\ app = "teardown" => initialized /\ ~started
  /\ app \in {"put", "send"} => initialized
  /\ app \in {"stop", "join"} =>
       /\ then = "create" => initialized /\ freqArg # 0
       /\ then = "teardown" => initialized

(* Handles and tokens belong to an open session; the subscriber to an      *)
(* initialized client.                                                     *)
PoolInv ==
  /\ isInitialized <=> sessionOpen
  /\ nodeToken => isInitialized
  /\ \A i \in PubSlots : /\ pubPool[i].token => pubPool[i].in_use
                         /\ pubPool[i].in_use => isInitialized
  /\ \A i \in SubSlots : /\ subPool[i].token => subPool[i].in_use
                         /\ subPool[i].in_use => initialized

IInv == TypeOK /\ ThreadInv /\ CallInv /\ PoolInv /\ InitializedIsComplete
-----------------------------------------------------------------------------
USE TierAssumption, PoolAssumption, ClientAssumption
    DEF TierAssumption, PoolAssumption, ClientAssumption, NULL

(* The slots of a pool are positive numbers, so one that is taken is never *)
(* NULL, and a slot that FirstFree finds is free.                          *)

LEMMA SlotsArePositive == NULL \notin PubSlots /\ NULL \notin SubSlots
BY DEF PubSlots, SubSlots

LEMMA SmallestExists ==
  ASSUME NEW S \in SUBSET Nat, S # {}
  PROVE  \E i \in S : \A j \in S : i <= j
<1>1. PICK i \in S : \A j \in S : ~(<<j, i>> \in OpToRel(<, Nat))
  BY NatLessThanWellFounded, WFMin
<1>2. \A j \in S : ~(j < i)
  BY <1>1 DEF OpToRel
<1> QED
  BY <1>2

LEMMA FirstFreeIsFree ==
  ASSUME NEW N \in Nat, NEW pool \in [1 .. N -> [in_use : BOOLEAN, token : BOOLEAN]],
         FirstFree(pool) # NULL
  PROVE  FirstFree(pool) \in 1 .. N /\ ~pool[FirstFree(pool)].in_use
<1> DEFINE free == {i \in DOMAIN pool : ~pool[i].in_use}
<1>1. free # {} /\ free \in SUBSET Nat
  BY DEF FirstFree
<1>2. \E i \in free : \A j \in free : i <= j
  BY <1>1, SmallestExists
<1>3. FirstFree(pool) \in free
  BY <1>1, <1>2 DEF FirstFree
<1> QED
  BY <1>3

LEMMA InitIInv == Init => IInv
<1> SUFFICES ASSUME Init PROVE IInv
  OBVIOUS
<1> USE DEF Init, TransportInitState
<1>1. TransportTypeOK
  BY DEF TransportTypeOK, FreeSlot
<1>2. TypeOK
  <2>1. /\ initialized \in BOOLEAN /\ running \in BOOLEAN /\ started \in BOOLEAN
    OBVIOUS
  <2>2. 0 \in 0 .. MaxAccepted
    OBVIOUS
  <2> QED
    BY <1>1, <2>1, <2>2 DEF TypeOK, Dead, Live
<1>3. ThreadInv /\ CallInv
  BY DEF ThreadInv, CallInv, Live
<1>4. PoolInv
  BY DEF PoolInv, FreeSlot
<1>5. InitializedIsComplete
  BY DEF InitializedIsComplete
<1> QED
  BY <1>2, <1>3, <1>4, <1>5 DEF IInv

(* What the operations of the transport leave behind. *)

LEMMA TransportInitStep ==
  ASSUME IInv, NEW r \in {0, -1}, TransportInit(r)
  PROVE  /\ TransportTypeOK' /\ UNCHANGED <<pubPool, subPool>>
         /\ r = 0 => isInitialized'
         /\ isInitialized => UNCHANGED transport
         /\ isInitialized' <=> sessionOpen'
         /\ nodeToken' => isInitialized'
<1>1. isInitialized \in BOOLEAN /\ sessionOpen \in BOOLEAN /\ (isInitialized <=> sessionOpen)
  BY DEF IInv, TypeOK, TransportTypeOK, PoolInv
<1>2. TransportTypeOK'
  BY DEF IInv, TypeOK, TransportTypeOK, TransportInit, TokenOutcomes, transport
<1>3. /\ UNCHANGED <<pubPool, subPool>> /\ (r = 0 => isInitialized')
      /\ isInitialized => UNCHANGED transport
  BY DEF TransportInit, transport
<1>4. (isInitialized' <=> sessionOpen') /\ (nodeToken' => isInitialized')
  BY DEF IInv, PoolInv, TransportInit, transport
<1> QED
  BY <1>2, <1>3, <1>4

LEMMA DeclarePublisherStep ==
  ASSUME IInv, NEW h \in PubSlots \cup {NULL}, DeclarePublisher(h)
  PROVE  /\ TransportTypeOK'
         /\ UNCHANGED <<isInitialized, sessionOpen, tasks, nodeToken, subPool>>
         /\ h # NULL => isInitialized /\ ~pubPool[h].in_use /\ pubPool'[h].in_use
         /\ \A i \in PubSlots : i # h => pubPool'[i] = pubPool[i]
<1>0. TransportTypeOK /\ MaxPublishers \in Nat
  BY DEF IInv, TypeOK
<1>1. CASE UNCHANGED transport /\ h = NULL
  BY <1>0, <1>1, SlotsArePositive DEF transport, TransportTypeOK
<1>2. CASE h # NULL
  <2>1. /\ h = FirstFree(pubPool) /\ isInitialized
        /\ UNCHANGED <<isInitialized, sessionOpen, tasks, nodeToken, subPool>>
    BY <1>2 DEF DeclarePublisher
  <2>2. PICK tok \in BOOLEAN :
          pubPool' = [pubPool EXCEPT ![h] = [in_use |-> TRUE, token |-> tok]]
    BY <1>2 DEF DeclarePublisher, TokenOutcomes
  <2>3. h \in PubSlots /\ ~pubPool[h].in_use
    BY <1>0, <1>2, <2>1, FirstFreeIsFree DEF TransportTypeOK, PubSlots
  <2>4. pubPool' \in [PubSlots -> [in_use : BOOLEAN, token : BOOLEAN]]
    BY <1>0, <2>2, <2>3 DEF TransportTypeOK
  <2> QED
    BY <1>0, <2>1, <2>2, <2>3, <2>4 DEF TransportTypeOK
<1> QED
  BY <1>1, <1>2 DEF DeclarePublisher

LEMMA DeclareSubscriberStep ==
  ASSUME IInv, NEW h \in SubSlots \cup {NULL}, DeclareSubscriber(h)
  PROVE  /\ TransportTypeOK'
         /\ UNCHANGED <<isInitialized, sessionOpen, tasks, nodeToken, pubPool>>
         /\ h # NULL => isInitialized /\ ~subPool[h].in_use /\ subPool'[h].in_use
         /\ \A i \in SubSlots : i # h => subPool'[i] = subPool[i]
<1>0. TransportTypeOK /\ MaxSubscribers \in Nat
  BY DEF IInv, TypeOK
<1>1. CASE UNCHANGED transport /\ h = NULL
  BY <1>0, <1>1, SlotsArePositive DEF transport, TransportTypeOK
<1>2. CASE h # NULL
  <2>1. /\ h = FirstFree(subPool) /\ isInitialized
        /\ UNCHANGED <<isInitialized, sessionOpen, tasks, nodeToken, pubPool>>
    BY <1>2 DEF DeclareSubscriber
  <2>2. PICK tok \in BOOLEAN :
          subPool' = [subPool EXCEPT ![h] = [in_use |-> TRUE, token |-> tok]]
    BY <1>2 DEF DeclareSubscriber, TokenOutcomes
  <2>3. h \in SubSlots /\ ~subPool[h].in_use
    BY <1>0, <1>2, <2>1, FirstFreeIsFree DEF TransportTypeOK, SubSlots
  <2>4. subPool' \in [SubSlots -> [in_use : BOOLEAN, token : BOOLEAN]]
    BY <1>0, <2>2, <2>3 DEF TransportTypeOK
  <2> QED
    BY <1>0, <2>1, <2>2, <2>3, <2>4 DEF TransportTypeOK
<1> QED
  BY <1>1, <1>2 DEF DeclareSubscriber

LEMMA TransportDestroyStep ==
  ASSUME IInv, TransportDestroy
  PROVE  /\ TransportTypeOK'
         /\ ~isInitialized' /\ ~sessionOpen' /\ ~nodeToken'
         /\ \A i \in PubSlots : ~pubPool'[i].in_use /\ ~pubPool'[i].token
         /\ \A i \in SubSlots : ~subPool'[i].in_use /\ ~subPool'[i].token
<1>0. TransportTypeOK /\ PoolInv /\ InitializedIsComplete
  BY DEF IInv, TypeOK
<1>1. CASE ~isInitialized
  <2>1. UNCHANGED transport /\ ~initialized
    BY <1>0, <1>1 DEF TransportDestroy, InitializedIsComplete
  <2>2. /\ ~sessionOpen /\ ~nodeToken
        /\ \A i \in PubSlots : ~pubPool[i].in_use /\ ~pubPool[i].token
        /\ \A i \in SubSlots : ~subPool[i].in_use /\ ~subPool[i].token
    BY <1>0, <1>1, <2>1 DEF PoolInv
  <2> QED
    BY <1>0, <1>1, <2>1, <2>2 DEF transport, TransportTypeOK
<1>2. CASE isInitialized
  <2>1. /\ isInitialized' = FALSE /\ sessionOpen' = FALSE /\ nodeToken' = FALSE /\ tasks' = {}
        /\ pubPool' = [i \in PubSlots |->
                         IF pubPool[i].in_use
                           THEN [pubPool[i] EXCEPT !.in_use = FALSE, !.token = FALSE]
                           ELSE pubPool[i]]
        /\ subPool' = [i \in SubSlots |->
                         IF subPool[i].in_use THEN FreeSlot ELSE subPool[i]]
    BY <1>2 DEF TransportDestroy
  <2>2. \A i \in PubSlots : /\ pubPool'[i] \in [in_use : BOOLEAN, token : BOOLEAN]
                            /\ ~pubPool'[i].in_use /\ ~pubPool'[i].token
    BY <1>0, <2>1 DEF TransportTypeOK, PoolInv
  <2>3. \A i \in SubSlots : /\ subPool'[i] \in [in_use : BOOLEAN, token : BOOLEAN]
                            /\ ~subPool'[i].in_use /\ ~subPool'[i].token
    BY <1>0, <2>1 DEF TransportTypeOK, PoolInv, FreeSlot
  <2>4. TransportTypeOK'
    BY <2>1, <2>2, <2>3 DEF TransportTypeOK
  <2> QED
    BY <2>1, <2>2, <2>3, <2>4
<1> QED
  BY <1>0, <1>1, <1>2 DEF TransportTypeOK

LEMMA NextIInv == IInv /\ [Next]_vars => IInv'
<1> SUFFICES ASSUME IInv, [Next]_vars PROVE IInv'
  OBVIOUS
<1>0. TypeOK /\ ThreadInv /\ CallInv /\ PoolInv /\ InitializedIsComplete
  BY DEF IInv
<1> USE <1>0 DEF client, caller
<1>u. ASSUME UNCHANGED transport PROVE TransportTypeOK'
  BY <1>u DEF TypeOK, TransportTypeOK, transport
<1>1. ASSUME NEW f \in Freqs, NEW st \in StateSizes, NEW cmd \in CmdSizes,
             InitCall(f, st, cmd)
      PROVE  IInv'
  <2> USE <1>1 DEF InitCall, Returns
  <2>1. UNCHANGED transport
    OBVIOUS
  <2>2. TypeOK'
    BY <1>u, <2>1 DEF TypeOK, Dead, Live
  <2>3. ThreadInv'
    BY DEF ThreadInv, Dead, Live
  <2>4. CallInv'
    BY <2>1 DEF CallInv, transport
  <2>5. PoolInv' /\ InitializedIsComplete'
    BY <2>1 DEF PoolInv, InitializedIsComplete, transport
  <2> QED
    BY <2>2, <2>3, <2>4, <2>5 DEF IInv
<1>2. ASSUME NEW f \in Freqs, StartCall(f) PROVE IInv'
  <2> USE <1>2 DEF StartCall
  <2>1. UNCHANGED transport
    OBVIOUS
  <2>2. TypeOK'
    BY <1>u, <2>1 DEF TypeOK, Dead, Live
  <2>3. ThreadInv'
    BY DEF ThreadInv, Dead, Live
  <2>4. CallInv'
    BY <2>1 DEF CallInv, transport
  <2>5. PoolInv' /\ InitializedIsComplete'
    BY <2>1 DEF PoolInv, InitializedIsComplete, transport
  <2> QED
    BY <2>2, <2>3, <2>4, <2>5 DEF IInv
<1>3. CASE StopCall
  <2> USE <1>3 DEF StopCall
  <2>1. UNCHANGED transport
    OBVIOUS
  <2>2. TypeOK'
    BY <1>u, <2>1 DEF TypeOK, Dead, Live
  <2>3. ThreadInv'
    BY DEF ThreadInv, Dead, Live
  <2>4. CallInv'
    BY <2>1 DEF CallInv, transport
  <2>5. PoolInv' /\ InitializedIsComplete'
    BY <2>1 DEF PoolInv, InitializedIsComplete, transport
  <2> QED
    BY <2>2, <2>3, <2>4, <2>5 DEF IInv
<1>4. CASE DestroyCall
  <2> USE <1>4 DEF DestroyCall, Returns
  <2>1. UNCHANGED transport
    OBVIOUS
  <2>2. TypeOK'
    BY <1>u, <2>1 DEF TypeOK, Dead, Live
  <2>3. ThreadInv'
    BY DEF ThreadInv, Dead, Live
  <2>4. CallInv'
    BY <2>1 DEF CallInv, transport
  <2>5. PoolInv' /\ InitializedIsComplete'
    BY <2>1 DEF PoolInv, InitializedIsComplete, transport
  <2> QED
    BY <2>2, <2>3, <2>4, <2>5 DEF IInv
<1>5. CASE PublishCall
  <2> USE <1>5 DEF PublishCall, Returns
  <2>1. UNCHANGED transport
    OBVIOUS
  <2>2. TypeOK'
    BY <1>u, <2>1 DEF TypeOK, Dead, Live
  <2>3. ThreadInv'
    BY DEF ThreadInv, Dead, Live
  <2>4. CallInv'
    BY <2>1 DEF CallInv, transport
  <2>5. PoolInv' /\ InitializedIsComplete'
    BY <2>1 DEF PoolInv, InitializedIsComplete, transport
  <2> QED
    BY <2>2, <2>3, <2>4, <2>5 DEF IInv
<1>6. CASE InitTransport
  <2>1. PICK r \in {0, -1} :
          /\ TransportInit(r)
          /\ IF r = 0 THEN app' = "declare_pub" /\ UNCHANGED ret ELSE Returns("EIO")
    BY <1>6 DEF InitTransport
  <2>2. /\ TransportTypeOK' /\ UNCHANGED <<pubPool, subPool>>
        /\ (r = 0 => isInitialized') /\ (isInitialized => isInitialized')
        /\ (isInitialized' <=> sessionOpen') /\ (nodeToken' => isInitialized')
    BY <2>1, TransportInitStep DEF transport
  <2> USE <1>6 DEF InitTransport, Returns
  <2>3. TypeOK'
    BY <2>1, <2>2 DEF TypeOK
  <2>4. ThreadInv' /\ CallInv'
    BY <2>1, <2>2 DEF ThreadInv, CallInv
  <2>5. PoolInv'
    BY <2>2 DEF PoolInv
  <2>6. InitializedIsComplete'
    BY <2>2 DEF InitializedIsComplete, PoolInv, CallInv
  <2> QED
    BY <2>3, <2>4, <2>5, <2>6 DEF IInv
<1>7. CASE InitPublisher
  <2>1. PICK h \in PubSlots \cup {NULL} :
          /\ DeclarePublisher(h) /\ pub' = h
          /\ IF h # NULL THEN app' = "declare_sub" /\ UNCHANGED ret ELSE Returns("EIO")
    BY <1>7 DEF InitPublisher
  <2>2. /\ TransportTypeOK'
        /\ UNCHANGED <<isInitialized, sessionOpen, tasks, nodeToken, subPool>>
        /\ h # NULL => isInitialized /\ pubPool'[h].in_use
        /\ \A j \in PubSlots : j # h => pubPool'[j] = pubPool[j]
    BY <2>1, DeclarePublisherStep
  <2> USE <1>7 DEF InitPublisher, Returns
  <2>3. TypeOK'
    BY <2>1, <2>2 DEF TypeOK
  <2>4. ThreadInv' /\ CallInv'
    BY <2>1, <2>2 DEF ThreadInv, CallInv
  <2>5. PoolInv'
    BY <2>2, SlotsArePositive DEF PoolInv
  <2>6. InitializedIsComplete'
    BY <2>2 DEF InitializedIsComplete, CallInv
  <2> QED
    BY <2>3, <2>4, <2>5, <2>6 DEF IInv
<1>8. CASE InitSubscriber
  <2>1. PICK h \in SubSlots \cup {NULL} :
          /\ DeclareSubscriber(h) /\ sub' = h
          /\ IF h # NULL
               THEN /\ initialized' = TRUE /\ controlFreq' = freqArg
                    /\ app' = "start" /\ UNCHANGED ret
               ELSE Returns("EIO") /\ UNCHANGED <<initialized, controlFreq>>
    BY <1>8 DEF InitSubscriber
  <2>2. /\ TransportTypeOK'
        /\ UNCHANGED <<isInitialized, sessionOpen, tasks, nodeToken, pubPool>>
        /\ h # NULL => isInitialized /\ subPool'[h].in_use
        /\ \A j \in SubSlots : j # h => subPool'[j] = subPool[j]
    BY <2>1, DeclareSubscriberStep
  <2> USE <1>8 DEF InitSubscriber, Returns
  <2>a. initialized' \in BOOLEAN
    BY <2>1 DEF TypeOK
  <2>3. TypeOK'
    BY <2>1, <2>2, <2>a DEF TypeOK
  <2>4. ThreadInv' /\ CallInv'
    BY <2>1, <2>2 DEF ThreadInv, CallInv, Live
  <2>5. PoolInv'
    BY <2>1, <2>2, SlotsArePositive DEF PoolInv
  <2>6. InitializedIsComplete'
    BY <2>1, <2>2 DEF InitializedIsComplete, PoolInv, CallInv
  <2> QED
    BY <2>3, <2>4, <2>5, <2>6 DEF IInv
<1>9. CASE StartThread
  <2> USE <1>9 DEF StartThread, Returns
  <2>1. UNCHANGED transport
    OBVIOUS
  <2>2. TypeOK'
    BY <1>u, <2>1 DEF TypeOK, Dead, Live
  <2>3. ThreadInv'
    BY DEF ThreadInv, Dead, Live
  <2>4. CallInv'
    BY <2>1 DEF CallInv, transport
  <2>5. PoolInv' /\ InitializedIsComplete'
    BY <2>1 DEF PoolInv, InitializedIsComplete, transport
  <2> QED
    BY <2>2, <2>3, <2>4, <2>5 DEF IInv
<1>10. CASE CreateThread
  <2> USE <1>10 DEF CreateThread, Returns
  <2>1. UNCHANGED transport
    OBVIOUS
  <2>2. TypeOK'
    BY <1>u, <2>1 DEF TypeOK, Dead, Live
  <2>3. ThreadInv'
    BY DEF ThreadInv, Dead, Live, CallInv
  <2>4. CallInv'
    BY <2>1 DEF CallInv, transport
  <2>5. PoolInv' /\ InitializedIsComplete'
    BY <2>1 DEF PoolInv, InitializedIsComplete, transport
  <2> QED
    BY <2>2, <2>3, <2>4, <2>5 DEF IInv
<1>11. CASE StopSignal
  <2> USE <1>11 DEF StopSignal
  <2>1. UNCHANGED transport
    OBVIOUS
  <2>2. TypeOK'
    <3>1. running' \in BOOLEAN
      BY DEF TypeOK
    <3>2. app' \in {"idle", "create", "teardown", "join"}
      BY DEF TypeOK
    <3> QED
      BY <1>u, <2>1, <3>1, <3>2 DEF TypeOK
  <2>3. ThreadInv'
    BY DEF ThreadInv, Dead, Live, TypeOK
  <2>4. CallInv'
    BY <2>1 DEF CallInv, transport, TypeOK
  <2>5. PoolInv' /\ InitializedIsComplete'
    BY <2>1 DEF PoolInv, InitializedIsComplete, transport, TypeOK
  <2> QED
    BY <2>2, <2>3, <2>4, <2>5 DEF IInv
<1>12. CASE JoinThread
  <2> USE <1>12 DEF JoinThread, Joined
  <2>1. UNCHANGED transport
    OBVIOUS
  <2>2. TypeOK'
    <3>1. app' \in {"idle", "create", "teardown"} /\ started' \in BOOLEAN
      BY DEF TypeOK
    <3> QED
      BY <1>u, <2>1, <3>1 DEF TypeOK, Dead, Live
  <2>3. ThreadInv'
    BY DEF ThreadInv, Dead, Live, TypeOK
  <2>4. CallInv'
    BY <2>1 DEF CallInv, transport, TypeOK
  <2>5. PoolInv' /\ InitializedIsComplete'
    BY <2>1 DEF PoolInv, InitializedIsComplete, transport, TypeOK
  <2> QED
    BY <2>2, <2>3, <2>4, <2>5 DEF IInv
<1>13. CASE AbortThread
  <2> USE <1>13 DEF AbortThread, Joined
  <2>1. UNCHANGED transport
    OBVIOUS
  <2>2. TypeOK'
    BY <1>u, <2>1 DEF TypeOK, Dead, Live
  <2>3. ThreadInv'
    BY DEF ThreadInv, Dead, Live, TypeOK
  <2>4. CallInv'
    BY <2>1 DEF CallInv, transport, TypeOK
  <2>5. PoolInv' /\ InitializedIsComplete'
    BY <2>1 DEF PoolInv, InitializedIsComplete, transport, TypeOK
  <2> QED
    BY <2>2, <2>3, <2>4, <2>5 DEF IInv
<1>14. CASE Teardown
  <2> USE <1>14 DEF Teardown, Returns
  <2>1. /\ TransportTypeOK' /\ ~isInitialized' /\ ~sessionOpen' /\ ~nodeToken'
        /\ \A j \in PubSlots : ~pubPool'[j].in_use /\ ~pubPool'[j].token
        /\ \A j \in SubSlots : ~subPool'[j].in_use /\ ~subPool'[j].token
    BY TransportDestroyStep
  <2>2. TypeOK'
    BY <2>1 DEF TypeOK
  <2>3. ThreadInv'
    BY DEF ThreadInv, CallInv, Dead, Live
  <2>4. CallInv' /\ PoolInv'
    BY <2>1 DEF CallInv, PoolInv
  <2>5. InitializedIsComplete'
    BY DEF InitializedIsComplete, ThreadInv, CallInv, Live
  <2> QED
    BY <2>2, <2>3, <2>4, <2>5 DEF IInv
<1>15. CASE ThreadBoot
  <2> USE <1>15 DEF ThreadBoot, ThreadStep
  <2>1. UNCHANGED transport
    OBVIOUS
  <2>2. TypeOK'
    BY <1>u, <2>1 DEF TypeOK, Dead, Live
  <2>3. ThreadInv'
    BY DEF ThreadInv, Dead, Live
  <2>4. CallInv'
    BY <2>1 DEF CallInv, transport
  <2>5. PoolInv' /\ InitializedIsComplete'
    BY <2>1 DEF PoolInv, InitializedIsComplete, transport
  <2> QED
    BY <2>2, <2>3, <2>4, <2>5 DEF IInv
<1>16. CASE ThreadLoop
  <2> USE <1>16 DEF ThreadLoop, ThreadStep
  <2>1. UNCHANGED transport
    OBVIOUS
  <2>2. TypeOK'
    BY <1>u, <2>1 DEF TypeOK, Dead, Live
  <2>3. ThreadInv'
    BY DEF ThreadInv, Dead, Live
  <2>4. CallInv'
    BY <2>1 DEF CallInv, transport
  <2>5. PoolInv' /\ InitializedIsComplete'
    BY <2>1 DEF PoolInv, InitializedIsComplete, transport
  <2> QED
    BY <2>2, <2>3, <2>4, <2>5 DEF IInv
<1>17. CASE ThreadPublish
  <2> USE <1>17 DEF ThreadPublish, ThreadStep
  <2>1. UNCHANGED transport
    OBVIOUS
  <2>2. TypeOK'
    BY <1>u, <2>1 DEF TypeOK, Dead, Live
  <2>3. ThreadInv'
    BY DEF ThreadInv, Dead, Live
  <2>4. CallInv'
    BY <2>1 DEF CallInv, transport
  <2>5. PoolInv' /\ InitializedIsComplete'
    BY <2>1 DEF PoolInv, InitializedIsComplete, transport
  <2> QED
    BY <2>2, <2>3, <2>4, <2>5 DEF IInv
<1>18. CASE ThreadLock
  <2> USE <1>18 DEF ThreadLock, ThreadStep
  <2>1. UNCHANGED transport
    OBVIOUS
  <2>2. TypeOK'
    BY <1>u, <2>1 DEF TypeOK, Dead, Live
  <2>3. ThreadInv'
    BY DEF ThreadInv, Dead, Live
  <2>4. CallInv'
    BY <2>1 DEF CallInv, transport
  <2>5. PoolInv' /\ InitializedIsComplete'
    BY <2>1 DEF PoolInv, InitializedIsComplete, transport
  <2> QED
    BY <2>2, <2>3, <2>4, <2>5 DEF IInv
<1>19. CASE ThreadSend
  <2> USE <1>19 DEF ThreadSend, ThreadStep, Publish
  <2>1. UNCHANGED transport
    OBVIOUS
  <2>2. TypeOK'
    BY <1>u, <2>1 DEF TypeOK, Dead, Live
  <2>3. ThreadInv'
    BY DEF ThreadInv, Dead, Live
  <2>4. CallInv'
    BY <2>1 DEF CallInv, transport
  <2>5. PoolInv' /\ InitializedIsComplete'
    BY <2>1 DEF PoolInv, InitializedIsComplete, transport
  <2> QED
    BY <2>2, <2>3, <2>4, <2>5 DEF IInv
<1>20. CASE AppLock
  <2> USE <1>20 DEF AppLock
  <2>1. UNCHANGED transport
    OBVIOUS
  <2>2. TypeOK'
    BY <1>u, <2>1 DEF TypeOK, Dead, Live
  <2>3. ThreadInv'
    BY DEF ThreadInv, Dead, Live
  <2>4. CallInv'
    BY <2>1 DEF CallInv, transport
  <2>5. PoolInv' /\ InitializedIsComplete'
    BY <2>1 DEF PoolInv, InitializedIsComplete, transport
  <2> QED
    BY <2>2, <2>3, <2>4, <2>5 DEF IInv
<1>21. CASE AppSend
  <2> USE <1>21 DEF AppSend, Publish, Returns
  <2>1. UNCHANGED transport
    OBVIOUS
  <2>2. TypeOK'
    BY <1>u, <2>1 DEF TypeOK, Dead, Live
  <2>3. ThreadInv'
    BY DEF ThreadInv, Dead, Live
  <2>4. CallInv'
    BY <2>1 DEF CallInv, transport
  <2>5. PoolInv' /\ InitializedIsComplete'
    BY <2>1 DEF PoolInv, InitializedIsComplete, transport
  <2> QED
    BY <2>2, <2>3, <2>4, <2>5 DEF IInv
<1>22. CASE ThreadWake
  <2> USE <1>22 DEF ThreadWake, ThreadStep
  <2>1. UNCHANGED transport
    OBVIOUS
  <2>2. TypeOK'
    BY <1>u, <2>1 DEF TypeOK, Dead, Live
  <2>3. ThreadInv'
    BY DEF ThreadInv, Dead, Live
  <2>4. CallInv'
    BY <2>1 DEF CallInv, transport
  <2>5. PoolInv' /\ InitializedIsComplete'
    BY <2>1 DEF PoolInv, InitializedIsComplete, transport
  <2> QED
    BY <2>2, <2>3, <2>4, <2>5 DEF IInv
<1>23. CASE ThreadExit
  <2> USE <1>23 DEF ThreadExit, ThreadStep
  <2>1. UNCHANGED transport
    OBVIOUS
  <2>2. TypeOK'
    <3>1. running' \in BOOLEAN
      OBVIOUS
    <3> QED
      BY <1>u, <2>1, <3>1 DEF TypeOK, Dead, Live
  <2>3. ThreadInv'
    BY DEF ThreadInv, Dead, Live
  <2>4. CallInv'
    BY <2>1 DEF CallInv, transport
  <2>5. PoolInv' /\ InitializedIsComplete'
    BY <2>1 DEF PoolInv, InitializedIsComplete, transport
  <2> QED
    BY <2>2, <2>3, <2>4, <2>5 DEF IInv
<1>24. ASSUME NEW slot \in SubSlots, NEW size \in PayloadSizes, ReceiveCommand(slot, size) PROVE IInv'
  <2> USE <1>24 DEF ReceiveCommand
  <2>1. UNCHANGED transport
    OBVIOUS
  <2>2. TypeOK'
    <3>1. accepted' \in 0 .. MaxAccepted
      BY DEF TypeOK
    <3> QED
      BY <1>u, <2>1, <3>1 DEF TypeOK
  <2>3. ThreadInv'
    BY DEF ThreadInv, Dead, Live
  <2>4. CallInv'
    BY <2>1 DEF CallInv, transport
  <2>5. PoolInv' /\ InitializedIsComplete'
    BY <2>1 DEF PoolInv, InitializedIsComplete, transport
  <2> QED
    BY <2>2, <2>3, <2>4, <2>5 DEF IInv
<1>25. CASE Hang \/ UNCHANGED vars
  <2> USE <1>25 DEF Hang, vars
  <2>1. UNCHANGED transport
    OBVIOUS
  <2>2. TypeOK'
    BY <1>u, <2>1 DEF TypeOK, Dead, Live
  <2>3. ThreadInv'
    BY DEF ThreadInv, Dead, Live
  <2>4. CallInv'
    BY <2>1 DEF CallInv, transport
  <2>5. PoolInv' /\ InitializedIsComplete'
    BY <2>1 DEF PoolInv, InitializedIsComplete, transport
  <2> QED
    BY <2>2, <2>3, <2>4, <2>5 DEF IInv
<1> QED
  BY <1>1, <1>2, <1>3, <1>4, <1>5, <1>6, <1>7, <1>8, <1>9, <1>10, <1>11, <1>12,
     <1>13, <1>14, <1>15, <1>16, <1>17, <1>18, <1>19, <1>20, <1>21, <1>22, <1>23,
     <1>24, <1>25
     DEF Next, Call, Proceed, AppPut, Thread, Receive

(* In every behaviour of the client, the transport and the control thread, *)
(* flags, handles and positions are related as IInv says.                  *)
THEOREM Inductive == Spec => []IInv
BY InitIInv, NextIInv, PTL DEF Spec

(* Every variable of the client and of the transport keeps its type; a     *)
(* handle is NULL or a slot of its pool.                                   *)
THEOREM TypeCorrect == Spec => []TypeOK
<1>1. IInv => TypeOK
  BY DEF IInv
<1> QED
  BY <1>1, Inductive, PTL

(* Between two calls control_thread_running_ and control_thread_started_   *)
(* are true exactly when a thread lives.                                   *)
THEOREM FlagsAreTruthful == Spec => []RunningIsTruthful
<1>1. IInv => RunningIsTruthful
  BY DEF IInv, ThreadInv, RunningIsTruthful
<1> QED
  BY <1>1, Inductive, PTL

(* control_thread_fn() never divides by a control_freq_ of zero. *)
THEOREM NeverDividesByZero == Spec => []NoZeroDivision
<1>1. IInv => NoZeroDivision
  BY DEF IInv, ThreadInv, NoZeroDivision, Live
<1> QED
  BY <1>1, Inductive, PTL

(* A client that is not initialized has no subscriber whose callback could *)
(* run into reset_buffers(), for every size of the pool and every sequence *)
(* of calls that fail.                                                     *)
THEOREM ResetIsSafe == Spec => []NoCallbackIntoReset
<1>1. IInv => NoCallbackIntoReset
  BY DEF IInv, PoolInv, NoCallbackIntoReset
<1> QED
  BY <1>1, Inductive, PTL

(* An initialized client has a session, a publisher, a subscriber and      *)
(* payloads that fit its buffers, and only such a client publishes.        *)
THEOREM Complete == Spec => []InitializedIsComplete
<1>1. IInv => InitializedIsComplete
  BY DEF IInv
<1> QED
  BY <1>1, Inductive, PTL

(* k_thread_create() finds the thread object and the stack free: a second  *)
(* start_thread() has joined or aborted the first thread.                  *)
THEOREM ThreadObjectFree == Spec => ThreadObjectIsFree
<1> DEFINE A == (app = "create" /\ app' # "create") => tpc \in Dead
<1>1. IInv /\ [Next]_vars => [A]_vars
  BY DEF IInv, TypeOK, ThreadInv, CallInv
<1> QED
  BY <1>1, Inductive, PTL DEF Spec, ThreadObjectIsFree

(* destroy() of an initialized client leaves no handle, no token and no    *)
(* session behind, not even those of earlier failed init()s.               *)
THEOREM DestroyLeavesNothing == Spec => DestroyFreesAll
<1> DEFINE A == (initialized /\ ~initialized') =>
                  /\ ~isInitialized' /\ ~sessionOpen' /\ ~nodeToken'
                  /\ \A i \in PubSlots : ~pubPool'[i].in_use /\ ~pubPool'[i].token
                  /\ \A i \in SubSlots : ~subPool'[i].in_use /\ ~subPool'[i].token
<1>1. IInv /\ [Next]_vars => [A]_vars
  <2> SUFFICES ASSUME IInv, Next, initialized, ~initialized' PROVE A
    OBVIOUS
  <2>1. Teardown
    BY DEF Next, Call, InitCall, StartCall, StopCall, DestroyCall, PublishCall, Proceed,
           InitTransport, InitPublisher, InitSubscriber, StartThread, CreateThread,
           StopSignal, JoinThread, AbortThread, Joined, Thread, ThreadBoot, ThreadLoop,
           ThreadPublish, ThreadLock, ThreadSend, ThreadWake, ThreadExit, AppPut,
           AppLock, AppSend, Receive, ReceiveCommand, Hang, client, vars
  <2> QED
    BY <2>1, TransportDestroyStep DEF Teardown
<1> QED
  BY <1>1, Inductive, PTL DEF Spec, DestroyFreesAll

(* zenbedded_transport_declare_publisher() and _subscriber() never give a  *)
(* slot away twice: as long as the transport is up, a handle that is       *)
(* declared stays as it is, those of failed init()s too.                   *)
HandlesAreKept ==
  [][isInitialized' =>
       /\ \A i \in PubSlots : pubPool[i].in_use => pubPool'[i] = pubPool[i]
       /\ \A i \in SubSlots : subPool[i].in_use => subPool'[i] = subPool[i]]_vars

(* The declaring loops take a slot that is free, for every size of the     *)
(* pools and however many handles earlier init()s have left behind.        *)
THEOREM SlotsGivenOnce == Spec => HandlesAreKept
<1> DEFINE A == isInitialized' =>
                  /\ \A i \in PubSlots : pubPool[i].in_use => pubPool'[i] = pubPool[i]
                  /\ \A i \in SubSlots : subPool[i].in_use => subPool'[i] = subPool[i]
<1>1. IInv /\ [Next]_vars => [A]_vars
  <2> SUFFICES ASSUME IInv, Next PROVE A
    OBVIOUS
  <2>1. CASE InitTransport
    BY <2>1, TransportInitStep DEF InitTransport
  <2>2. CASE InitPublisher
    <3>1. PICK h \in PubSlots \cup {NULL} : DeclarePublisher(h)
      BY <2>2 DEF InitPublisher
    <3>2. /\ subPool' = subPool /\ (h # NULL => ~pubPool[h].in_use)
          /\ \A i \in PubSlots : i # h => pubPool'[i] = pubPool[i]
      BY <3>1, DeclarePublisherStep
    <3> QED
      BY <3>2, SlotsArePositive
  <2>3. CASE InitSubscriber
    <3>1. PICK h \in SubSlots \cup {NULL} : DeclareSubscriber(h)
      BY <2>3 DEF InitSubscriber
    <3>2. /\ pubPool' = pubPool /\ (h # NULL => ~subPool[h].in_use)
          /\ \A i \in SubSlots : i # h => subPool'[i] = subPool[i]
      BY <3>1, DeclareSubscriberStep
    <3> QED
      BY <3>2, SlotsArePositive
  <2>4. CASE Teardown
    BY <2>4, TransportDestroyStep DEF Teardown
  <2>5. CASE UNCHANGED transport
    BY <2>5 DEF transport
  <2> QED
    BY <2>1, <2>2, <2>3, <2>4, <2>5
       DEF Next, Call, InitCall, StartCall, StopCall, DestroyCall, PublishCall, Publish,
           Proceed, StartThread, CreateThread, StopSignal, JoinThread, AbortThread,
           Joined, Thread, ThreadBoot, ThreadLoop, ThreadPublish, ThreadLock, ThreadSend,
           ThreadWake, ThreadExit, AppPut, AppLock, AppSend, Receive, ReceiveCommand,
           Hang, vars
<1> QED
  BY <1>1, Inductive, PTL DEF Spec, HandlesAreKept
=============================================================================
