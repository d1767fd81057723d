------------------------------- MODULE Client -------------------------------
(***************************************************************************)
(* The life cycle of a ZenbeddedClient (zenbedded_rcl/src/                 *)
(* zenbedded_client.cpp and zenbedded_client.hpp) on top of Transport.     *)
(*                                                                         *)
(* Three threads take steps:                                               *)
(*   the application, which calls init(), destroy(), start_thread(),       *)
(*     stop_thread() and zenoh_publish_state() in any order, one call at a *)
(*     time, and gets every error the calls can return;                    *)
(*   the control thread that start_thread() creates and stop_thread()      *)
(*     joins or, after 200 ms, aborts wherever it happens to be;           *)
(*   the read task of zenoh-pico, which runs on_transport_cmd_cb().        *)
(* The contents of the double buffers are the subject of DoubleBuffer;     *)
(* here a buffer is read and written in one step.                          *)
(*                                                                         *)
(* External: the put of zenoh-pico sends under a mutex of the session,     *)
(* which undeclaring and every other put take too.  The send may hang in   *)
(* the network with the mutex held.  k_thread_abort() does not release it. *)
(***************************************************************************)
EXTENDS Transport

CONSTANTS Freqs,        \* control frequencies callers ask for
          StateSizes,   \* payload sizes of the state codec
          CmdSizes,     \* payload sizes of the command codec
          MaxState,     \* CONFIG_ZENBEDDED_MAX_STATE_BUFFER_SIZE
          MaxCmd,       \* CONFIG_ZENBEDDED_MAX_CMD_BUFFER_SIZE
          PayloadSizes, \* sizes of the payloads peers send
          MaxAccepted   \* bound: commands accepted between two resets

ASSUME ClientAssumption ==
  /\ Freqs \subseteq Nat /\ StateSizes \subseteq Nat /\ CmdSizes \subseteq Nat
  /\ PayloadSizes \subseteq Nat
  /\ MaxState \in Nat /\ MaxCmd \in Nat /\ MaxAccepted \in Nat

VARIABLES
  initialized,  \* initialized_
  pub, sub,     \* pub_, sub_
  stateSize,    \* state_payload_size_
  cmdSize,      \* cmd_payload_size_
  controlFreq,  \* control_freq_
  running,      \* control_thread_running_
  started,      \* control_thread_started_
  accepted,     \* cmd_accepted_count_
  app,          \* position of the application inside the call under way
  then,         \* where stop_thread() returns to
  freqArg,      \* the control_freq argument of the call under way
  call, ret,    \* the last call and what it returned
  tpc,          \* position of the control thread
  mutex         \* external: who holds the mutex of the session

client == <<initialized, pub, sub, stateSize, cmdSize, controlFreq, running,
            started, accepted>>
caller == <<app, then, freqArg, call, ret>>
vars   == <<transport, client, caller, tpc, mutex>>

(* Positions of the control thread. *)
Dead == {"none", "exited", "aborted"}
Live == {"created", "loop", "publish", "put", "send", "sleep",
         "exiting"}

Returns(r) == app' = "idle" /\ ret' = r

Init ==
  /\ TransportInitState
  /\ initialized = FALSE /\ pub = NULL /\ sub = NULL
  /\ stateSize = 0 /\ cmdSize = 0 /\ controlFreq = 0
  /\ running = FALSE /\ started = FALSE /\ accepted = 0
  /\ app = "idle" /\ then = "idle" /\ freqArg = 0 /\ call = "none" /\ ret = "OK"
  /\ tpc = "none" /\ mutex = "nobody"

-----------------------------------------------------------------------------
(* init() and init_base() *)

(* The call up to the size checks.  The frequency and the sizes that the   *)
(* codecs compute come from the caller.                                    *)
InitCall(freq, st, cmd) ==
  /\ app = "idle" /\ call' = "init"
  /\ IF initialized
       THEN /\ Returns("OK")
            /\ UNCHANGED <<stateSize, cmdSize, accepted, freqArg>>
       ELSE /\ accepted' = 0     \* reset_buffers()
            /\ stateSize' = st
            /\ cmdSize' = IF st > MaxState THEN cmdSize ELSE cmd
            /\ freqArg' = freq
            /\ IF st > MaxState \/ cmd > MaxCmd
                 THEN Returns("ENOMEM")
                 ELSE app' = "transport_init" /\ UNCHANGED ret
  /\ UNCHANGED <<transport, initialized, pub, sub, controlFreq, running, started,
                 then, tpc, mutex>>

InitTransport ==
  /\ app = "transport_init"
  /\ \E r \in {0, -1} :
       /\ TransportInit(r)
       /\ IF r = 0 THEN app' = "declare_pub" /\ UNCHANGED ret ELSE Returns("EIO")
  /\ UNCHANGED <<client, then, freqArg, call, tpc, mutex>>

InitPublisher ==
  /\ app = "declare_pub"
  /\ \E h \in PubSlots \cup {NULL} :
       /\ DeclarePublisher(h)
       /\ pub' = h
       /\ IF h # NULL THEN app' = "declare_sub" /\ UNCHANGED ret ELSE Returns("EIO")
  /\ UNCHANGED <<initialized, sub, stateSize, cmdSize, controlFreq, running,
                 started, accepted, then, freqArg, call, tpc, mutex>>

InitSubscriber ==
  /\ app = "declare_sub"
  /\ \E h \in SubSlots \cup {NULL} :
       /\ DeclareSubscriber(h)
       /\ sub' = h
       /\ IF h # NULL
            THEN /\ initialized' = TRUE
                 /\ controlFreq' = freqArg
                 /\ app' = "start"
                 /\ UNCHANGED ret
            ELSE Returns("EIO") /\ UNCHANGED <<initialized, controlFreq>>
  /\ UNCHANGED <<pub, stateSize, cmdSize, running, started, accepted, then,
                 freqArg, call, tpc, mutex>>

-----------------------------------------------------------------------------
(* start_thread() *)

StartCall(freq) ==
  /\ app = "idle"
  /\ call' = "start_thread" /\ freqArg' = freq /\ app' = "start"
  /\ UNCHANGED <<transport, client, then, ret, tpc, mutex>>

(* Mutant of StartThread: a second start does not stop the first thread. *)
StartThreadTwice ==
  /\ app = "start"
  /\ CASE ~initialized -> Returns("ENODEV") /\ UNCHANGED then
       [] initialized /\ freqArg = 0 -> Returns("EINVAL") /\ UNCHANGED then
       [] OTHER -> app' = "create" /\ UNCHANGED <<then, ret>>
  /\ UNCHANGED <<transport, client, freqArg, call, tpc, mutex>>

StartThread ==
  /\ app = "start"
  /\ CASE ~initialized -> Returns("ENODEV") /\ UNCHANGED then
       [] initialized /\ freqArg = 0 -> Returns("EINVAL") /\ UNCHANGED then
       [] initialized /\ freqArg # 0 /\ started ->
            app' = "stop" /\ then' = "create" /\ UNCHANGED ret
       [] OTHER -> app' = "create" /\ UNCHANGED <<then, ret>>
  /\ UNCHANGED <<transport, client, freqArg, call, tpc, mutex>>

CreateThread ==
  /\ app = "create"
  /\ controlFreq' = freqArg
  /\ running' = TRUE
  /\ started' = TRUE
  /\ tpc' = "created"
  /\ Returns("OK")
  /\ UNCHANGED <<transport, initialized, pub, sub, stateSize, cmdSize, accepted,
                 then, freqArg, call, mutex>>

-----------------------------------------------------------------------------
(* stop_thread() *)

StopCall ==
  /\ app = "idle"
  /\ call' = "stop_thread" /\ app' = "stop" /\ then' = "idle"
  /\ UNCHANGED <<transport, client, freqArg, ret, tpc, mutex>>

(* Mutant of StopSignal: the frequency is cleared before the join. *)
StopSignalClearsFreq ==
  /\ app = "stop"
  /\ IF ~started
       THEN app' = then /\ UNCHANGED <<running, controlFreq>>
       ELSE running' = FALSE /\ controlFreq' = 0 /\ app' = "join"
  /\ UNCHANGED <<transport, initialized, pub, sub, stateSize, cmdSize, started,
                 accepted, then, freqArg, call, ret, tpc, mutex>>

StopSignal ==
  /\ app = "stop"
  /\ IF ~started
       THEN app' = then /\ UNCHANGED running
       ELSE running' = FALSE /\ app' = "join"
  /\ UNCHANGED <<transport, initialized, pub, sub, stateSize, cmdSize, controlFreq,
                 started, accepted, then, freqArg, call, ret, tpc, mutex>>

Joined ==
  /\ started' = FALSE
  /\ controlFreq' = 0
  /\ app' = then
  /\ UNCHANGED <<transport, initialized, pub, sub, stateSize, cmdSize, running,
                 accepted, then, freqArg, call, ret>>

(* The control thread has ended within the 200 ms. *)
JoinThread ==
  /\ app = "join" /\ tpc \in Dead
  /\ Joined
  /\ UNCHANGED <<tpc, mutex>>

(* Mutant of AbortThread: k_thread_join() waits for ever. *)
JoinForever == app = "join" /\ app # "join" /\ UNCHANGED vars

(* Mutant of AbortThread: a thread that is late is left alone. *)
AbandonThread ==
  /\ app = "join" /\ tpc \in Live
  /\ Joined
  /\ UNCHANGED <<tpc, mutex>>

(* The 200 ms are over: k_thread_abort(), wherever the thread is. *)
AbortThread ==
  /\ app = "join" /\ tpc \in Live
  /\ Joined
  /\ tpc' = "aborted"
  /\ mutex' = IF tpc = "send" THEN "dead" ELSE mutex

-----------------------------------------------------------------------------
(* destroy() *)

(* Mutant of DestroyCall: the transport goes before the thread. *)
DestroyCallTransportFirst ==
  /\ app = "idle" /\ call' = "destroy"
  /\ IF ~initialized
       THEN Returns("void") /\ UNCHANGED <<then, transport>>
       ELSE app' = "stop" /\ then' = "teardown" /\ UNCHANGED ret /\ TransportDestroy
  /\ UNCHANGED <<client, freqArg, tpc, mutex>>

DestroyCall ==
  /\ app = "idle" /\ call' = "destroy"
  /\ IF ~initialized
       THEN Returns("void") /\ UNCHANGED then
       ELSE app' = "stop" /\ then' = "teardown" /\ UNCHANGED ret
  /\ UNCHANGED <<transport, client, freqArg, tpc, mutex>>

(* zenbedded_transport_destroy() waits for the mutex. *)
Teardown ==
  /\ app = "teardown" /\ mutex = "nobody"
  /\ TransportDestroy
  /\ pub' = NULL /\ sub' = NULL
  /\ initialized' = FALSE
  /\ Returns("void")
  /\ UNCHANGED <<stateSize, cmdSize, controlFreq, running, started, accepted,
                 then, freqArg, call, tpc, mutex>>

-----------------------------------------------------------------------------
(* zenoh_publish_state(), from the application *)

PublishCall ==
  /\ app = "idle" /\ call' = "publish"
  /\ IF ~initialized THEN Returns("ENODEV") ELSE app' = "put" /\ UNCHANGED ret
  /\ UNCHANGED <<transport, client, then, freqArg, tpc, mutex>>

AppLock ==
  /\ app = "put" /\ mutex = "nobody"
  /\ app' = "send" /\ mutex' = "app"
  /\ UNCHANGED <<transport, client, then, freqArg, call, ret, tpc>>

AppSend ==
  /\ app = "send"
  /\ \E r \in {0, -1} :
       Publish(pub, r) /\ Returns(IF r = 0 THEN "OK" ELSE "EIO")
  /\ mutex' = "nobody"
  /\ UNCHANGED <<client, then, freqArg, call, tpc>>

-----------------------------------------------------------------------------
(* control_thread_fn() *)

ThreadStep(from, to) == tpc = from /\ tpc' = to /\ UNCHANGED caller

(* The first instructions divide 1000 by control_freq_. *)
ThreadBoot == ThreadStep("created", "loop") /\ UNCHANGED <<transport, client, mutex>>

ThreadLoop ==
  /\ ThreadStep("loop", IF running THEN "publish" ELSE "exiting")
  /\ UNCHANGED <<transport, client, mutex>>

(* zenoh_publish_state(): give up, or read the buffer and go on to the put *)
ThreadPublish ==
  /\ ThreadStep("publish", IF initialized THEN "put" ELSE "sleep")
  /\ UNCHANGED <<transport, client, mutex>>

ThreadLock ==
  /\ ThreadStep("put", "send")
  /\ mutex = "nobody" /\ mutex' = "thread"
  /\ UNCHANGED <<transport, client>>

ThreadSend ==
  /\ ThreadStep("send", "sleep")
  /\ \E r \in {0, -1} : Publish(pub, r)
  /\ mutex' = "nobody"
  /\ UNCHANGED client

(* Mutant of ThreadWake: one publication, then out. *)
ThreadOneShot ==
  ThreadStep("sleep", "exiting") /\ UNCHANGED <<transport, client, mutex>>

ThreadWake == ThreadStep("sleep", "loop") /\ UNCHANGED <<transport, client, mutex>>

ThreadExit ==
  /\ ThreadStep("exiting", "exited")
  /\ running' = FALSE
  /\ UNCHANGED <<transport, initialized, pub, sub, stateSize, cmdSize, controlFreq,
                 started, accepted, mutex>>

Thread == \/ ThreadBoot \/ ThreadLoop \/ ThreadPublish \/ ThreadLock \/ ThreadSend
          \/ ThreadWake \/ ThreadExit

-----------------------------------------------------------------------------
(* The read task: internal_sub_handler() and on_transport_cmd_cb() *)

ReceiveCommand(slot, size) ==
  /\ "read" \in tasks /\ subPool[slot].in_use
  /\ accepted < MaxAccepted
  /\ accepted' = IF Delivers(size) /\ size = cmdSize THEN accepted + 1 ELSE accepted
  /\ UNCHANGED <<transport, initialized, pub, sub, stateSize, cmdSize, controlFreq,
                 running, started, caller, tpc, mutex>>

-----------------------------------------------------------------------------
Call == \/ \E f \in Freqs, st \in StateSizes, cmd \in CmdSizes : InitCall(f, st, cmd)
        \/ \E f \in Freqs : StartCall(f)
        \/ StopCall \/ DestroyCall \/ PublishCall

(* The steps of a call under way that wait for no other put. *)
Proceed == \/ InitTransport \/ InitPublisher \/ InitSubscriber
           \/ StartThread \/ CreateThread
           \/ StopSignal \/ JoinThread \/ AbortThread
           \/ Teardown

AppPut == AppLock \/ AppSend

Receive == \E slot \in SubSlots, size \in PayloadSizes : ReceiveCommand(slot, size)

(* The application waits for a mutex that nobody releases: the only way in *)
(* which the system may stop.                                              *)
Hang == mutex = "dead" /\ app \in {"teardown", "put"} /\ UNCHANGED vars

Next == Call \/ Proceed \/ AppPut \/ Thread \/ Receive \/ Hang

Spec == Init /\ [][Next]_vars

(***************************************************************************)
(* A call that is under way goes on: k_thread_join() gives up after 200 ms *)
(* at the latest.  The control thread goes on too, since it sleeps for a   *)
(* bounded time.  A put that waits for the mutex gets it if it is released *)
(* again and again, since unlocking hands a mutex to a thread that waits   *)
(* for it; but a send may hang in the network for ever, whichever thread   *)
(* has begun it.  Nobody has to make a call or to send a payload.          *)
(***************************************************************************)
FairSpec == /\ Spec
            /\ WF_vars(Proceed)
            /\ SF_vars(AppLock)
            /\ WF_vars(ThreadBoot \/ ThreadLoop \/ ThreadPublish \/ ThreadWake
                         \/ ThreadExit)

-----------------------------------------------------------------------------
(* Properties. *)

(* Every variable keeps the type the code gives it. *)
TypeOK ==
  /\ TransportTypeOK
  /\ initialized \in BOOLEAN /\ running \in BOOLEAN /\ started \in BOOLEAN
  /\ pub \in PubSlots \cup {NULL} /\ sub \in SubSlots \cup {NULL}
  /\ stateSize \in StateSizes \cup {0} /\ cmdSize \in CmdSizes \cup {0}
  /\ controlFreq \in Freqs \cup {0} /\ freqArg \in Freqs \cup {0}
  /\ accepted \in 0 .. MaxAccepted
  /\ app \in {"idle", "transport_init", "declare_pub", "declare_sub", "start",
              "create", "stop", "join", "teardown", "put", "send"}
  /\ then \in {"idle", "create", "teardown"}
  /\ tpc \in Dead \cup Live
  /\ mutex \in {"nobody", "app", "thread", "dead"}

(* Between two calls is_control_thread_running() and                       *)
(* control_thread_started_ say what is true of the thread: no thread       *)
(* outlives stop_thread(), and no old thread clears the flag of a new one  *)
(* with its last atomic_set().                                             *)
RunningIsTruthful ==
  app = "idle" => (running <=> tpc \in Live) /\ (started <=> tpc \in Live)

(* A control thread that has been created but has not run yet will find a  *)
(* control_freq_ it can divide by, even if it is stopped meanwhile.        *)
NoZeroDivision == tpc = "created" => controlFreq # 0

(* k_thread_create() is never called on the object and the stack of a      *)
(* thread that still lives.                                                *)
ThreadObjectIsFree ==
  [][(app = "create" /\ app' # "create") => tpc \in Dead]_vars

(* reset_buffers() never races with on_transport_cmd_cb(): a client that   *)
(* is not initialized has no declared subscriber, whatever calls failed    *)
(* before.  The single-writer assumption of DoubleBuffer rests on this.    *)
NoCallbackIntoReset ==
  app = "idle" /\ ~initialized => \A i \in SubSlots : ~subPool[i].in_use

(* is_initialized() means that session, publisher and subscriber exist and *)
(* that the payloads fit the slots that the memcpy()s fill; a thread is in *)
(* zenbedded_transport_publish() of such a client only, even if destroy()  *)
(* was called after the control thread's check of initialized_.            *)
InitializedIsComplete ==
  /\ initialized => /\ isInitialized /\ sessionOpen
                    /\ pub # NULL /\ pubPool[pub].in_use
                    /\ sub # NULL /\ subPool[sub].in_use
                    /\ stateSize <= MaxState /\ cmdSize <= MaxCmd
  /\ tpc \in {"put", "send"} \/ app \in {"put", "send"} => initialized /\ sessionOpen

(* destroy() of an initialized client leaves no handle, no liveliness      *)
(* token and no session behind, not even those of earlier failed init()s.  *)
DestroyFreesAll ==
  [][(initialized /\ ~initialized') =>
       /\ ~isInitialized' /\ ~sessionOpen' /\ ~nodeToken'
       /\ \A i \in PubSlots : ~pubPool'[i].in_use /\ ~pubPool'[i].token
       /\ \A i \in SubSlots : ~subPool'[i].in_use /\ ~subPool'[i].token]_vars

(* The calls that may never return, and why.  init(), start_thread() and   *)
(* stop_thread() always return, even if the control thread hangs in a      *)
(* send: it is aborted.  zenoh_publish_state() waits for ever only if its  *)
(* own send hangs, or the one the control thread is in, which holds the    *)
(* mutex.  And once stop_thread() has aborted a thread that held the mutex *)
(* (zenbedded_client.cpp:212), destroy() and zenoh_publish_state() wait    *)
(* for it for ever, the client still initialized and the session open.     *)
CallReturns ==
  app # "idle" ~>
    \/ app = "idle"
    \/ [](app = "send")
    \/ [](app = "put" /\ tpc = "send")
    \/ [](app \in {"teardown", "put"} /\ mutex = "dead" /\ initialized /\ sessionOpen)

(* A started control thread publishes again unless a call intervenes. *)
KeepsPublishing ==
  (app = "idle" /\ tpc = "sleep") ~> (tpc = "put" \/ app # "idle")

-----------------------------------------------------------------------------
(* What the documentation says and the code does not do. *)

(* zenbedded_client.hpp on destroy(): "Deinitialize the client and         *)
(* underlying transport."                                                  *)
DestroyDeinitializes == (app = "idle" /\ call = "destroy") => ~isInitialized

(* zenbedded_client.hpp on init_base(): "Initializes base buffers,         *)
(* transport layer, and background thread."                                *)
InitStartsThread == (app = "idle" /\ call = "init" /\ ret = "OK") => started
=============================================================================
