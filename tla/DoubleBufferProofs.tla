------------------------- MODULE DoubleBufferProofs -------------------------
(***************************************************************************)
(* The double buffer never gives a torn or an outdated payload and         *)
(* implements an atomic register, for every number of readers, bytes,      *)
(* writes and counter values.                                              *)
(***************************************************************************)
EXTENDS DoubleBuffer, TLAPS

(* What the writer keeps true: the active slot holds the latest payload    *)
(* and the writer is never in that slot.                                   *)
WriterInv ==
  /\ wpc \in {"fill", "flip"} => widx = Other(active)
  /\ wpc \in {"fill", "flip"} => committed < MaxWrites
  /\ wpc = "flip" => wrem = {}
  /\ \A b \in Bytes : buffer[active][b] = committed
  /\ wpc \in {"fill", "flip"} =>
       \A b \in Bytes \ wrem : buffer[widx][b] = committed + 1
  /\ accepted <= committed
  /\ wpc = "count" => accepted < committed

(* The version of r's slot is the one it loaded plus the laps since. *)
VersionTracksLap(r) ==
  version[ridx[r]] = IF rver[r] + lap[r] < VersionMod
                       THEN rver[r] + lap[r]
                       ELSE rver[r] + lap[r] - VersionMod

(* Unless the writer is filling r's slot, what r has copied from an        *)
(* unlapped slot is still in it.                                           *)
CopyIsCurrent(r) ==
  lap[r] = 0 /\ ~(wpc = "fill" /\ widx = ridx[r]) =>
    \A b \in Bytes \ rrem[r] : data[r][b] = buffer[ridx[r]][b]

ReaderInv(r) ==
  /\ seen[r] <= begun[r] /\ begun[r] <= committed
  /\ rpc[r] \in {"version", "copy", "version2"} =>
       /\ begun[r] <= from[r] /\ from[r] <= committed
       /\ committed = from[r] => active = ridx[r]
  /\ InAttempt(r) =>
       /\ VersionTracksLap(r)
       /\ committed = from[r] => lap[r] = 0
  /\ rpc[r] = "copy" => CopyIsCurrent(r)
  /\ rpc[r] = "version2" =>
       /\ begun[r] <= sample[r]
       /\ lap[r] = 0 => \A b \in Bytes : data[r][b] = sample[r]
  /\ rpc[r] = "idle" =>
       /\ begun[r] <= sample[r]
       /\ \A b \in Bytes : data[r][b] = sample[r]

IInv == TypeOK /\ WriterInv /\ \A r \in Readers : ReaderInv(r)
-----------------------------------------------------------------------------
USE BoundsAssumption, CountingAssumption, LapAssumption
    DEF BoundsAssumption, CountingAssumption, LapAssumption

LEMMA InitIInv == Init => IInv
BY DEF Init, IInv, TypeOK, WriterInv, ReaderInv, InAttempt, VersionTracksLap,
       CopyIsCurrent, Slots, Other

LEMMA TypePreserved == TypeOK /\ [Next]_vars => TypeOK'
<1> SUFFICES ASSUME TypeOK, [Next]_vars PROVE TypeOK'
  OBVIOUS
<1> USE DEF TypeOK, Slots
<1>1. CASE PrepareSlot
  BY <1>1 DEF PrepareSlot, shared, reader, Other
<1>2. ASSUME NEW b \in Bytes, WriteByte(b) PROVE TypeOK'
  BY <1>2 DEF WriteByte, reader
<1>3. CASE IncVersion
  <2>1. version' \in [Slots -> 0 .. VersionMod - 1]
    <3>0. ASSUME NEW v \in 0 .. VersionMod - 1 PROVE Inc(v) \in 0 .. VersionMod - 1
      BY DEF Inc
    <3>1. Inc(version[widx]) \in 0 .. VersionMod - 1
      BY <3>0
    <3> QED
      BY <1>3, <3>1 DEF IncVersion
  <2>2. lap' \in [Readers -> 0 .. MaxLap]
    BY <1>3 DEF IncVersion
  <2> QED
    BY <1>3, <2>1, <2>2 DEF IncVersion, reader
<1>4. CASE FlipActive
  BY <1>4 DEF FlipActive, reader
<1>5. CASE CountAccepted
  BY <1>5 DEF CountAccepted, reader
<1>6. ASSUME NEW r \in Readers, BeginRead(r) PROVE TypeOK'
  BY <1>6 DEF BeginRead, shared, writer
<1>7. ASSUME NEW r \in Readers, LoadIndex(r) PROVE TypeOK'
  BY <1>7 DEF LoadIndex, shared, writer
<1>8. ASSUME NEW r \in Readers, LoadVersion(r) PROVE TypeOK'
  BY <1>8 DEF LoadVersion, shared, writer
<1>9. ASSUME NEW r \in Readers, NEW b \in Bytes, CopyByte(r, b) PROVE TypeOK'
  BY <1>9 DEF CopyByte, shared, writer
<1>10. ASSUME NEW r \in Readers, RecheckIndex(r) PROVE TypeOK'
  <2>1. rpc' \in [Readers -> {"idle", "index", "version", "copy", "version2"}]
    BY <1>10 DEF RecheckIndex
  <2>2. sample' \in [Readers -> Nat]
    BY <1>10 DEF RecheckIndex
  <2>3. UNCHANGED <<shared, writer, ridx, rver, rrem, data, seen, begun, from, lap>>
    BY <1>10 DEF RecheckIndex
  <2> QED
    BY <2>1, <2>2, <2>3 DEF shared, writer
<1>11. ASSUME NEW r \in Readers, RecheckVersion(r) PROVE TypeOK'
  BY <1>11 DEF RecheckVersion, shared, writer
<1>12. CASE UNCHANGED vars
  BY <1>12 DEF vars, shared, writer, reader
<1> HIDE DEF TypeOK, Slots
<1> QED
  BY <1>1, <1>2, <1>3, <1>4, <1>5, <1>6, <1>7, <1>8, <1>9, <1>10, <1>11, <1>12
     DEF Next, Writer, Attempt
LEMMA WriterPreserved == TypeOK /\ WriterInv /\ [Next]_vars => WriterInv'
<1> SUFFICES ASSUME TypeOK, WriterInv, [Next]_vars PROVE WriterInv'
  OBVIOUS
<1> USE DEF TypeOK, WriterInv, Slots, Other
<1>1. CASE PrepareSlot
  BY <1>1 DEF PrepareSlot, shared
<1>2. ASSUME NEW b \in Bytes, WriteByte(b) PROVE WriterInv'
  <2>1. \A c \in Bytes : buffer'[active'][c] = committed'
    BY <1>2 DEF WriteByte
  <2>2. \A c \in Bytes \ wrem' : buffer'[widx'][c] = committed' + 1
    BY <1>2 DEF WriteByte
  <2> QED
    BY <1>2, <2>1, <2>2 DEF WriteByte
<1>3. CASE IncVersion
  BY <1>3 DEF IncVersion
<1>4. CASE FlipActive
  BY <1>4 DEF FlipActive
<1>5. CASE CountAccepted
  BY <1>5 DEF CountAccepted
<1>6. CASE UNCHANGED <<shared, writer>>
  BY <1>6 DEF shared, writer
<1> HIDE DEF TypeOK, WriterInv, Slots, Other
<1> QED
  BY <1>1, <1>2, <1>3, <1>4, <1>5, <1>6
     DEF Next, Writer, Attempt, BeginRead, LoadIndex, LoadVersion, CopyByte,
         RecheckIndex, RecheckVersion, vars

(* A step of the writer keeps every reader's invariant. *)
LEMMA ReaderSurvivesWriter ==
  ASSUME IInv, Writer, TypeOK', WriterInv', NEW r \in Readers
  PROVE  ReaderInv(r)'
<1> USE DEF IInv, TypeOK, WriterInv, Slots, Other
<1>0. ReaderInv(r)
  OBVIOUS
<1>1. CASE PrepareSlot
  BY <1>0, <1>1 DEF PrepareSlot, shared, reader, ReaderInv, InAttempt,
                    VersionTracksLap, CopyIsCurrent
<1>2. ASSUME NEW b \in Bytes, WriteByte(b) PROVE ReaderInv(r)'
  <2>1. CopyIsCurrent(r) => CopyIsCurrent(r)'
    BY <1>2 DEF WriteByte, reader, CopyIsCurrent
  <2> QED
    BY <1>0, <1>2, <2>1 DEF WriteByte, reader, ReaderInv, InAttempt,
                            VersionTracksLap
<1>3. CASE IncVersion
  <2>1. CASE InAttempt(r) /\ ridx[r] = widx
    <3>1. lap'[r] = lap[r] + 1 /\ lap[r] < MaxLap
      BY <1>3, <2>1 DEF IncVersion
    <3>2. VersionTracksLap(r)'
      BY <1>0, <1>3, <2>1, <3>1 DEF IncVersion, reader, ReaderInv,
                                    VersionTracksLap, Inc
    <3>3. committed # from[r]
      BY <1>0, <1>3, <2>1 DEF IncVersion, ReaderInv, InAttempt
    <3> QED
      BY <1>0, <1>3, <2>1, <3>1, <3>2, <3>3
         DEF IncVersion, reader, ReaderInv, InAttempt, CopyIsCurrent
  <2>2. CASE ~(InAttempt(r) /\ ridx[r] = widx)
    <3>1. lap'[r] = lap[r]
      BY <1>3, <2>2 DEF IncVersion
    <3>2. InAttempt(r) => version'[ridx[r]] = version[ridx[r]]
      BY <1>3, <2>2 DEF IncVersion
    <3> QED
      BY <1>0, <1>3, <2>2, <3>1, <3>2
         DEF IncVersion, reader, ReaderInv, InAttempt, VersionTracksLap,
             CopyIsCurrent
  <2> QED
    BY <2>1, <2>2
<1>4. CASE FlipActive
  BY <1>0, <1>4 DEF FlipActive, reader, ReaderInv, InAttempt,
                    VersionTracksLap, CopyIsCurrent
<1>5. CASE CountAccepted
  BY <1>0, <1>5 DEF CountAccepted, reader, ReaderInv, InAttempt,
                    VersionTracksLap, CopyIsCurrent
<1> HIDE DEF IInv, TypeOK, WriterInv, Slots, Other
<1> QED
  BY <1>1, <1>2, <1>3, <1>4, <1>5 DEF Writer

(* A reader with no lap has seen its version unchanged, and only then. *)
LEMMA UnchangedVersionIsNoLap ==
  ASSUME TypeOK, NEW r \in Readers, VersionTracksLap(r)
  PROVE  version[ridx[r]] = rver[r] <=> lap[r] = 0
<1>1. rver[r] \in 0 .. VersionMod - 1 /\ lap[r] \in 0 .. MaxLap
  BY DEF TypeOK
<1> QED
  BY <1>1 DEF VersionTracksLap

(* A step of a reader keeps its own invariant. *)
LEMMA ReaderSurvivesItself ==
  ASSUME IInv, NEW r \in Readers, BeginRead(r) \/ Attempt(r), TypeOK'
  PROVE  ReaderInv(r)'
<1> USE DEF IInv, TypeOK, Slots
<1>0. ReaderInv(r) /\ WriterInv
  OBVIOUS
<1>1. CASE BeginRead(r)
  BY <1>0, <1>1 DEF BeginRead, shared, writer, ReaderInv, WriterInv, InAttempt
<1>2. CASE LoadIndex(r)
  BY <1>0, <1>2 DEF LoadIndex, shared, writer, ReaderInv, InAttempt
<1>3. CASE LoadVersion(r)
  BY <1>0, <1>3 DEF LoadVersion, shared, writer, ReaderInv, InAttempt,
                    VersionTracksLap, CopyIsCurrent
<1>4. ASSUME NEW b \in Bytes, CopyByte(r, b) PROVE ReaderInv(r)'
  <2>1. CopyIsCurrent(r) => CopyIsCurrent(r)'
    BY <1>4 DEF CopyByte, shared, writer, CopyIsCurrent
  <2> QED
    BY <1>0, <1>4, <2>1 DEF CopyByte, shared, writer, ReaderInv, InAttempt,
                            VersionTracksLap
<1>5. CASE RecheckIndex(r)
  <2>1. CASE active = ridx[r]
    <3>1. lap[r] = 0 => \A b \in Bytes : data[r][b] = committed
      BY <1>0, <1>5, <2>1 DEF RecheckIndex, ReaderInv, WriterInv, CopyIsCurrent,
                              Other
    <3> QED
      BY <1>0, <1>5, <2>1, <3>1 DEF RecheckIndex, shared, writer, ReaderInv,
                                    InAttempt, VersionTracksLap
  <2>2. CASE active # ridx[r]
    BY <1>0, <1>5, <2>2 DEF RecheckIndex, shared, writer, ReaderInv, InAttempt
  <2> QED
    BY <2>1, <2>2
<1>6. CASE RecheckVersion(r)
  <2>1. version[ridx[r]] = rver[r] <=> lap[r] = 0
    BY <1>0, <1>6, UnchangedVersionIsNoLap DEF RecheckVersion, ReaderInv, InAttempt
  <2> QED
    BY <1>0, <1>6, <2>1 DEF RecheckVersion, shared, writer, ReaderInv, InAttempt
<1> QED
  BY <1>1, <1>2, <1>3, <1>4, <1>5, <1>6 DEF Attempt

(* A step of one reader keeps the invariant of another. *)
LEMMA ReaderSurvivesOthers ==
  ASSUME IInv, NEW r \in Readers, BeginRead(r) \/ Attempt(r),
         NEW q \in Readers, q # r
  PROVE  ReaderInv(q)'
<1> USE DEF IInv, TypeOK
<1>0. ReaderInv(q)
  OBVIOUS
<1> USE <1>0 DEF shared, writer, ReaderInv, InAttempt, VersionTracksLap,
                 CopyIsCurrent
<1>1. CASE BeginRead(r)
  BY <1>1 DEF BeginRead
<1>2. CASE LoadIndex(r)
  BY <1>2 DEF LoadIndex
<1>3. CASE LoadVersion(r)
  BY <1>3 DEF LoadVersion
<1>4. ASSUME NEW b \in Bytes, CopyByte(r, b) PROVE ReaderInv(q)'
  BY <1>4 DEF CopyByte
<1>5. CASE RecheckIndex(r)
  BY <1>5 DEF RecheckIndex
<1>6. CASE RecheckVersion(r)
  BY <1>6 DEF RecheckVersion
<1> QED
  BY <1>1, <1>2, <1>3, <1>4, <1>5, <1>6 DEF Attempt

LEMMA NextIInv == IInv /\ [Next]_vars => IInv'
<1> SUFFICES ASSUME IInv, [Next]_vars PROVE IInv'
  OBVIOUS
<1>1. TypeOK'
  BY TypePreserved DEF IInv
<1>2. WriterInv'
  BY WriterPreserved DEF IInv
<1>3. ASSUME NEW q \in Readers PROVE ReaderInv(q)'
  <2>1. CASE Writer
    BY <1>1, <1>2, <2>1, ReaderSurvivesWriter
  <2>2. ASSUME NEW r \in Readers, BeginRead(r) \/ Attempt(r) PROVE ReaderInv(q)'
    BY <1>1, <2>2, ReaderSurvivesItself, ReaderSurvivesOthers
  <2>3. CASE UNCHANGED vars
    BY <2>3 DEF vars, shared, writer, reader, IInv, ReaderInv, InAttempt,
                VersionTracksLap, CopyIsCurrent
  <2> QED
    BY <2>1, <2>2, <2>3 DEF Next
<1> QED
  BY <1>1, <1>2, <1>3 DEF IInv

-----------------------------------------------------------------------------
(* The inductive invariant holds of every behaviour. *)
THEOREM Inductive == Spec => []IInv
BY InitIInv, NextIInv, PTL DEF Spec
(* Every variable of the double buffer keeps its type; in particular the   *)
(* version counters stay in their width.                                   *)
THEOREM TypeCorrect == Spec => []TypeOK
BY Inductive, PTL DEF IInv

(* No torn read: read_state_from_buffer() and read_command_from_buffer()   *)
(* accept a copy only if all its bytes come from one write.                *)
THEOREM NeverTorn == Spec => []NoTornRead
<1>1. IInv => NoTornRead
  BY DEF IInv, ReaderInv, NoTornRead
<1> QED
  BY <1>1, Inductive, PTL

(* A read returns nothing older than what was visible when it began. *)
THEOREM AlwaysFresh == Spec => []FreshRead
<1>1. IInv => FreshRead
  BY DEF IInv, TypeOK, ReaderInv, FreshRead
<1> QED
  BY <1>1, Inductive, PTL

(* After accepted_command_count() has announced k commands, read_command() *)
(* returns the k-th or a later one.                                        *)
THEOREM CountIsHonest == Spec => []CountedIsReadable
<1>1. IInv => CountedIsReadable
  BY DEF IInv, TypeOK, ReaderInv, CountedIsReadable
<1> QED
  BY <1>1, Inductive, PTL

(* The retry loops of zenoh_publish_state() and read_latest_command_raw()  *)
(* turn only because a write became visible during the failed attempt.     *)
THEOREM LockFree == Spec => RetryHasCause
<1> DEFINE A == \A r \in Readers :
                  (rpc[r] \in {"copy", "version2"} /\ rpc'[r] = "index")
                    => committed > from[r]
<1>1. IInv /\ [Next]_vars => [A]_vars
  <2> SUFFICES ASSUME IInv, Next, NEW r \in Readers,
                      rpc[r] \in {"copy", "version2"}, rpc'[r] = "index"
               PROVE  committed > from[r]
    OBVIOUS
  <2> USE DEF IInv, TypeOK
  <2>0. ReaderInv(r) /\ from[r] <= committed
    BY DEF ReaderInv
  <2>1. RecheckIndex(r) \/ RecheckVersion(r)
    <3>1. PICK q \in Readers : BeginRead(q) \/ Attempt(q)
      BY DEF Next, Writer, PrepareSlot, WriteByte, IncVersion, FlipActive,
             CountAccepted, reader
    <3>2. q = r
      BY <3>1 DEF Attempt, BeginRead, LoadIndex, LoadVersion, CopyByte,
                  RecheckIndex, RecheckVersion
    <3> QED
      BY <3>1, <3>2 DEF Attempt, BeginRead, LoadIndex, LoadVersion, CopyByte
  <2>2. ASSUME RecheckIndex(r) PROVE committed # from[r]
    <3>1. active # ridx[r] /\ rpc[r] = "copy"
      BY <2>2 DEF RecheckIndex
    <3> QED
      BY <2>0, <3>1 DEF ReaderInv
  <2>3. ASSUME RecheckVersion(r) PROVE committed # from[r]
    <3>1. version[ridx[r]] # rver[r] /\ VersionTracksLap(r)
      BY <2>0, <2>3 DEF RecheckVersion, ReaderInv, InAttempt
    <3>2. lap[r] # 0
      BY <3>1, UnchangedVersionIsNoLap
    <3> QED
      BY <2>0, <2>3, <3>2 DEF RecheckVersion, ReaderInv, InAttempt
  <2>4. committed # from[r]
    BY <2>1, <2>2, <2>3
  <2>5. committed \in Nat /\ from[r] \in Nat /\ from[r] <= committed
    BY <2>0
  <2> HIDE DEF IInv, TypeOK
  <2> QED
    BY <2>4, <2>5
<1> QED
  BY <1>1, Inductive, PTL DEF Spec, RetryHasCause

-----------------------------------------------------------------------------
(* What the abstract register sees of the readers. *)
LEMMA PhaseValues ==
  /\ Phase("idle") = "idle" /\ Phase("version2") = "sampled"
  /\ Phase("index") = "reading" /\ Phase("version") = "reading"
  /\ Phase("copy") = "reading"
BY DEF Phase

LEMMA InitRefines == Init => AR!Init
BY PhaseValues DEF Init, AR!Init, AR!Payload

LEMMA WriterRefines ==
  ASSUME IInv, Writer
  PROVE  AR!Write \/ UNCHANGED AR!vars
<1>1. CASE FlipActive
  BY <1>1 DEF IInv, WriterInv, FlipActive, reader, AR!Write
<1>2. CASE ~FlipActive
  BY <1>2 DEF Writer, PrepareSlot, WriteByte, IncVersion, CountAccepted, shared,
              reader, AR!vars
<1> QED
  BY <1>1, <1>2

LEMMA ReaderRefines ==
  ASSUME IInv, NEW r \in Readers, BeginRead(r) \/ Attempt(r)
  PROVE  \/ AR!Invoke(r) \/ AR!Sample(r) \/ AR!Discard(r) \/ AR!Return(r)
         \/ UNCHANGED AR!vars
<1> USE PhaseValues DEF IInv, TypeOK, shared
<1>1. CASE BeginRead(r)
  <2>1. AR!Invoke(r)
    BY <1>1 DEF BeginRead, AR!Invoke
  <2> QED
    BY <2>1
<1>2. CASE LoadIndex(r)
  BY <1>2 DEF LoadIndex, AR!vars
<1>3. CASE LoadVersion(r)
  BY <1>3 DEF LoadVersion, AR!vars
<1>4. ASSUME NEW b \in Bytes, CopyByte(r, b) PROVE UNCHANGED AR!vars
  BY <1>4 DEF CopyByte, AR!vars
<1>5. CASE RecheckIndex(r)
  <2>1. CASE active = ridx[r]
    <3>1. AR!Sample(r)
      BY <1>5, <2>1 DEF RecheckIndex, AR!Sample
    <3> QED
      BY <3>1
  <2>2. CASE active # ridx[r]
    BY <1>5, <2>2 DEF RecheckIndex, AR!vars
  <2> QED
    BY <2>1, <2>2
<1>6. CASE RecheckVersion(r)
  <2>1. CASE version[ridx[r]] = rver[r]
    <3>1. data[r] = AR!Payload(sample[r])
      BY <1>6, <2>1, UnchangedVersionIsNoLap
         DEF RecheckVersion, ReaderInv, InAttempt, AR!Payload
    <3>2. AR!Return(r)
      BY <1>6, <2>1, <3>1 DEF RecheckVersion, AR!Return
    <3> QED
      BY <3>2
  <2>2. CASE version[ridx[r]] # rver[r]
    <3>1. AR!Discard(r)
      BY <1>6, <2>2 DEF RecheckVersion, AR!Discard
    <3> QED
      BY <3>1
  <2> QED
    BY <2>1, <2>2
<1> QED
  BY <1>1, <1>2, <1>3, <1>4, <1>5, <1>6 DEF Attempt
(* The double buffer of zenbedded_client.cpp is an atomic register of whole *)
(* payloads: its users cannot tell it from a single indivisible cell.       *)
THEOREM Refinement == Spec => ImplementsRegister
<1>1. IInv /\ [Next]_vars => [AR!Next]_(AR!vars)
  <2> SUFFICES ASSUME IInv, [Next]_vars PROVE AR!Next \/ UNCHANGED AR!vars
    OBVIOUS
  <2>1. CASE Writer
    BY <2>1, WriterRefines DEF AR!Next
  <2>2. ASSUME NEW r \in Readers, BeginRead(r) \/ Attempt(r)
        PROVE  AR!Next \/ UNCHANGED AR!vars
    BY <2>2, ReaderRefines DEF AR!Next
  <2>3. CASE UNCHANGED vars
    BY <2>3 DEF vars, shared, reader, AR!vars
  <2> QED
    BY <2>1, <2>2, <2>3 DEF Next
<1> QED
  BY <1>1, InitRefines, Inductive, PTL DEF Spec, ImplementsRegister, AR!Spec
=============================================================================
