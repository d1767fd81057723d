----------------------------- MODULE Transport -----------------------------
(***************************************************************************)
(* The Zenoh transport of zenbedded_transport/src/zenoh_transport.c: one   *)
(* static session and two static pools of handles, shared by every caller  *)
(* on the device.  The operations are actions whose last parameter is what *)
(* the C function returns; a client conjoins them with its own state.      *)
(*                                                                         *)
(* zenoh-pico is external.  Each of its calls that can fail does so at     *)
(* any time; the results that the code ignores (the read and lease tasks,  *)
(* the liveliness tokens) leave the matching variable either way.          *)
(***************************************************************************)
EXTENDS Integers, FiniteSets

CONSTANTS Tier,           \* 1: ROS 2 messages, 2: packed structs
          MaxPublishers,  \* MAX_PUBLISHERS, 10 in the code
          MaxSubscribers  \* MAX_SUBSCRIBERS, 10 in the code

ASSUME TierAssumption == Tier \in {1, 2}
ASSUME PoolAssumption == /\ MaxPublishers \in Nat \ {0}
                         /\ MaxSubscribers \in Nat \ {0}

VARIABLES isInitialized, \* is_initialized
          sessionOpen,   \* z_session is open
          tasks,         \* the background tasks of zenoh-pico that run
          nodeToken,     \* node_lv_token is declared (Tier 1)
          pubPool,       \* pub_pool
          subPool        \* sub_pool

transport == <<isInitialized, sessionOpen, tasks, nodeToken, pubPool, subPool>>

PubSlots == 1 .. MaxPublishers
SubSlots == 1 .. MaxSubscribers
NULL == 0

FreeSlot == [in_use |-> FALSE, token |-> FALSE]

TransportTypeOK ==
  /\ isInitialized \in BOOLEAN /\ sessionOpen \in BOOLEAN
  /\ tasks \in SUBSET {"read", "lease"}
  /\ nodeToken \in BOOLEAN
  /\ pubPool \in [PubSlots -> [in_use : BOOLEAN, token : BOOLEAN]]
  /\ subPool \in [SubSlots -> [in_use : BOOLEAN, token : BOOLEAN]]

TransportInitState ==
  /\ isInitialized = FALSE /\ sessionOpen = FALSE
  /\ tasks = {} /\ nodeToken = FALSE
  /\ pubPool = [i \in PubSlots |-> FreeSlot]
  /\ subPool = [i \in SubSlots |-> FreeSlot]

(* The outcomes of z_liveliness_declare_token(), which only Tier 1 calls. *)
TokenOutcomes == IF Tier = 1 THEN BOOLEAN ELSE {FALSE}

(* The largest payload internal_sub_handler() passes on: sizeof(rx_buf) or *)
(* T2_MAX_BUFFER_BOUND.                                                    *)
RxBound == IF Tier = 1 THEN 1024 ELSE 64

(* The slot the declaring loops take, NULL when the pool is exhausted. *)
FirstFree(pool) ==
  LET free == {i \in DOMAIN pool : ~pool[i].in_use}
  IN  IF free = {} THEN NULL ELSE CHOOSE i \in free : \A j \in free : i <= j

(* zenbedded_transport_init(): 0 or -1 *)
TransportInit(ret) ==
  \/ /\ isInitialized
     /\ ret = 0
     /\ UNCHANGED transport
  \/ /\ ~isInitialized          \* z_open() fails
     /\ ret = -1
     /\ UNCHANGED transport
  \/ /\ ~isInitialized
     /\ ret = 0
     /\ isInitialized' = TRUE /\ sessionOpen' = TRUE
     /\ tasks' \in SUBSET {"read", "lease"}
     /\ nodeToken' \in TokenOutcomes
     /\ UNCHANGED <<pubPool, subPool>>

(* Mutant of TransportDestroy: the subscribers are left declared. *)
TransportDestroyKeepsSubscribers ==
  IF ~isInitialized THEN UNCHANGED transport
  ELSE /\ pubPool' = [i \in PubSlots |-> [pubPool[i] EXCEPT !.in_use = FALSE,
                                                            !.token = FALSE]]
       /\ nodeToken' = FALSE /\ tasks' = {} /\ sessionOpen' = FALSE
       /\ isInitialized' = FALSE
       /\ UNCHANGED subPool

(* zenbedded_transport_destroy() *)
TransportDestroy ==
  IF ~isInitialized THEN UNCHANGED transport
  ELSE /\ pubPool' = [i \in PubSlots |->
                        IF pubPool[i].in_use
                          THEN [pubPool[i] EXCEPT !.in_use = FALSE, !.token = FALSE]
                          ELSE pubPool[i]]
       /\ subPool' = [i \in SubSlots |->
                        IF subPool[i].in_use THEN FreeSlot ELSE subPool[i]]
       /\ nodeToken' = FALSE
       /\ tasks' = {}
       /\ sessionOpen' = FALSE
       /\ isInitialized' = FALSE

(* zenbedded_transport_declare_publisher(): a slot or NULL *)
DeclarePublisher(handle) ==
  LET slot == FirstFree(pubPool) IN
  \/ /\ ~isInitialized \/ slot = NULL
     /\ handle = NULL
     /\ UNCHANGED transport
  \/ /\ isInitialized /\ slot # NULL    \* z_declare_publisher() fails
     /\ handle = NULL
     /\ UNCHANGED transport
  \/ /\ isInitialized /\ slot # NULL
     /\ handle = slot
     /\ \E tok \in TokenOutcomes :
          pubPool' = [pubPool EXCEPT
                        ![slot] = [in_use |-> TRUE, token |-> tok]]
     /\ UNCHANGED <<isInitialized, sessionOpen, tasks, nodeToken, subPool>>

(* zenbedded_transport_declare_subscriber(): a slot or NULL *)
DeclareSubscriber(handle) ==
  LET slot == FirstFree(subPool) IN
  \/ /\ ~isInitialized \/ slot = NULL
     /\ handle = NULL
     /\ UNCHANGED transport
  \/ /\ isInitialized /\ slot # NULL    \* z_declare_subscriber() fails
     /\ handle = NULL
     /\ UNCHANGED transport
  \/ /\ isInitialized /\ slot # NULL
     /\ handle = slot
     /\ \E tok \in TokenOutcomes :
          subPool' = [subPool EXCEPT ![slot] = [in_use |-> TRUE, token |-> tok]]
     /\ UNCHANGED <<isInitialized, sessionOpen, tasks, nodeToken, pubPool>>

(* zenbedded_transport_publish(): 0 or -1.  What it does to the attachment *)
(* of Tier 1 is in PublishCall.                                            *)
Publish(handle, ret) ==
  /\ ret \in IF handle = NULL \/ ~pubPool[handle].in_use THEN {-1} ELSE {0, -1}
  /\ UNCHANGED transport

(* internal_sub_handler() hands a payload of len bytes to the user callback *)
(* of a declared subscriber; zero and oversized payloads end here.          *)
Delivers(len) == len # 0 /\ len <= RxBound
=============================================================================
