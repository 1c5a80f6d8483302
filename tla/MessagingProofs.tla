--------------------------- MODULE MessagingProofs ---------------------------
(***************************************************************************)
(* The invariants of Messaging, for any events, batches, handlers and      *)
(* number of faults.  Every action of a handler is shown to do two         *)
(* independent things: it moves the handler along its batch (Moved), and   *)
(* it changes what is known of one event (Sound), the one it has claimed.  *)
(***************************************************************************)
EXTENDS Messaging, SequenceTheorems, TLAPS

(* What the invariant says of one event. *)
SoundAt(e) ==
  /\ composed[e] \in {0, 1} /\ delivered[e] \in {0, 1}
  /\ e \in outbound => status[e] \notin {None, "IGNORED"}
  /\ status[e] = "REPLIED" =>
       e \in inbound \intersect outbound /\ composed[e] = 1 /\ delivered[e] = 1
  /\ status[e] = "REPLY_FAILED" => e \in inbound \ outbound /\ composed[e] = 1
  /\ status[e] \in {None, "IGNORED"} =>
       e \notin inbound /\ composed[e] = 0 /\ delivered[e] = 0

Sound == OneHandler /\ HandlersSound /\ \A e \in Events : SoundAt(e)

DatabaseTyped ==
  /\ status \in [Events -> Statuses]
  /\ inbound \subseteq Events
  /\ outbound \subseteq Events
  /\ composed \in [Events -> Nat]
  /\ delivered \in [Events -> Nat]

HandlersTyped ==
  /\ pc \in [Handlers -> Treatment \union {"free", "claim"}]
  /\ batch \in [Handlers -> Seq(Events)]
  /\ left \in [Handlers -> Seq(Events)]
  /\ \A h \in Handlers : pc[h] # "free" => left[h] # <<>> /\ batch[h] \in Batches
  /\ acked \subseteq Batches

(* Where the handlers are in their batches. *)
Along == HandlersTyped /\ BatchSound /\ AcknowledgedIsRecorded

(* The parts that a handler leaves as they are. *)
ProcessSound ==
  /\ running \in BOOLEAN /\ ready \in BOOLEAN /\ indexed \in BOOLEAN
  /\ faults \in 0..MaxFaults
  /\ ready => running /\ indexed

(* The same invariant, its parts regrouped. *)
LEMMA Parts ==
  IInv <=> ProcessSound /\ DatabaseTyped /\ Along /\ Gated /\ Sound
<1>1. TypeOK <=> /\ running \in BOOLEAN /\ ready \in BOOLEAN /\ indexed \in BOOLEAN
                 /\ faults \in 0..MaxFaults
                 /\ DatabaseTyped /\ HandlersTyped
  BY DEF TypeOK, DatabaseTyped, HandlersTyped
<1>2. DatabaseTyped =>
        ((CountersSound /\ OutboundSound /\ StatusTruthful)
           <=> \A e \in Events : SoundAt(e))
  BY DEF DatabaseTyped, CountersSound, OutboundSound, StatusTruthful, SoundAt
<1> QED
  BY <1>1, <1>2 DEF IInv, Sound, ProcessSound, Along

(* A handler at work holds an event, the first of those that are left. *)
LEMMA EventTyped ==
  ASSUME HandlersTyped, NEW h \in Handlers, pc[h] # "free"
  PROVE  /\ Event(h) \in Events
         /\ Event(h) = left[h][1]
         /\ Len(left[h]) \in Nat \ {0}
  BY DEF HandlersTyped, Event

(* What is known of one event may change, and the handler that claimed it  *)
(* may move on, without anything else being said of the others.            *)
LEMMA OneEventAtATime ==
  ASSUME Sound, DatabaseTyped, HandlersTyped,
         NEW h \in Handlers, NEW e \in Events,
         pc[h] \in Treatment => Event(h) = e,
         pc[h] \in Treatment \/ status[e] = None,
         \A k \in Handlers \ {h} : pc'[k] = pc[k] /\ left'[k] = left[k],
         \A x \in Events \ {e} :
           /\ status'[x] = status[x]
           /\ composed'[x] = composed[x] /\ delivered'[x] = delivered[x]
           /\ (x \in inbound' <=> x \in inbound)
           /\ (x \in outbound' <=> x \in outbound),
         \/ pc'[h] \notin Treatment
         \/ Event(h)' = e /\ DoneAt(e, pc[h])',
         SoundAt(e)'
  PROVE  Sound'
<1>1. \A k \in Handlers \ {h} :
        pc[k] \in Treatment => Event(k) # e /\ Event(k) \in Events
  <2> SUFFICES ASSUME NEW k \in Handlers \ {h}, pc[k] \in Treatment
               PROVE  Event(k) # e /\ Event(k) \in Events
    OBVIOUS
  <2>1. Event(k) \in Events
    BY EventTyped DEF Treatment
  <2>2. CASE pc[h] \in Treatment
    BY <2>1, <2>2 DEF Sound, OneHandler
  <2>3. CASE status[e] = None
    BY <2>1, <2>3, MessagingAssumption DEF Sound, HandlersSound, DoneAt
  <2> QED
    BY <2>1, <2>2, <2>3
<1>2. \A k \in Handlers \ {h} : Event(k)' = Event(k)
  BY DEF Event
<1>3. OneHandler'
  BY <1>1, <1>2 DEF Sound, OneHandler
<1>4. HandlersSound'
  <2> SUFFICES ASSUME NEW k \in Handlers, pc'[k] \in Treatment
               PROVE  DoneAt(Event(k), pc[k])'
    BY DEF HandlersSound
  <2>1. CASE k = h
    BY <2>1
  <2>2. CASE k # h
    <3>1. DoneAt(Event(k), pc[k])
      BY <2>2 DEF Sound, HandlersSound
    <3>2. Event(k) \in Events \ {e}
      BY <1>1, <2>2
    <3> QED
      BY <3>1, <3>2, <1>2, <2>2 DEF DoneAt
  <2> QED
    BY <2>1, <2>2
<1>5. \A x \in Events : SoundAt(x)'
  BY DEF Sound, SoundAt
<1> QED
  BY <1>3, <1>4, <1>5 DEF Sound

-----------------------------------------------------------------------------
Moved(h) ==
  /\ Along'
  /\ \A k \in Handlers \ {h} : pc'[k] = pc[k] /\ left'[k] = left[k]

(* What is recorded stays recorded. *)
Kept == \A e \in Events : status[e] # None => status'[e] # None

LEMMA PassedTyped ==
  ASSUME Along, NEW h \in Handlers, pc[h] # "free",
         NEW i \in 1..(Len(batch[h]) - Len(left[h]))
  PROVE  batch[h][i] \in Events /\ status[batch[h][i]] # None
<1>1. batch[h] \in Seq(Events) /\ left[h] \in Seq(Events)
  BY DEF Along, HandlersTyped
<1>2. i \in 1..Len(batch[h])
  BY <1>1
<1>3. status[batch[h][i]] # None
  BY DEF Along, BatchSound
<1> QED
  BY <1>1, <1>2, <1>3

LEMMA AcknowledgedKept ==
  ASSUME Along, Kept
  PROVE  \A b \in acked : \A i \in DOMAIN b : status'[b[i]] # None
<1>1. \A b \in acked : b \in Seq(Events)
  BY MessagingAssumption DEF Along, HandlersTyped
<1>2. \A b \in acked : \A i \in DOMAIN b : b[i] \in Events
  BY <1>1
<1> QED
  BY <1>2 DEF Along, AcknowledgedIsRecorded, Kept

(* A handler that is where it was in its batch. *)
LEMMA PassedKept ==
  ASSUME Along, Kept, NEW h \in Handlers, pc[h] # "free"
  PROVE  LET passed == Len(batch[h]) - Len(left[h])
         IN /\ passed >= 0
            /\ \A i \in 1..Len(left[h]) : left[h][i] = batch[h][passed + i]
            /\ \A i \in 1..passed : status'[batch[h][i]] # None
<1>1. \A i \in 1..(Len(batch[h]) - Len(left[h])) : status'[batch[h][i]] # None
  BY PassedTyped DEF Kept
<1> QED
  BY <1>1 DEF Along, BatchSound

LEMMA Awaiting ==
  ASSUME Along, Kept, NEW h \in Handlers, pc[h] # "free",
         NEW operation \in Treatment, Await(h, operation)
  PROVE  Moved(h) /\ pc'[h] = operation /\ Event(h)' = Event(h)
<1>1. /\ pc'[h] = operation
      /\ \A k \in Handlers \ {h} : pc'[k] = pc[k]
      /\ left' = left /\ batch' = batch /\ acked' = acked
  BY DEF Await, Along, HandlersTyped
<1>2. HandlersTyped'
  BY DEF Await, Along, HandlersTyped
<1>3. BatchSound'
  <2> SUFFICES ASSUME NEW k \in Handlers, pc'[k] # "free"
               PROVE  LET passed == Len(batch[k]) - Len(left[k])
                      IN /\ passed >= 0
                         /\ \A i \in 1..Len(left[k]) :
                              left[k][i] = batch[k][passed + i]
                         /\ \A i \in 1..passed : status'[batch[k][i]] # None
    BY <1>1 DEF BatchSound
  <2>1. pc[k] # "free"
    BY <1>1
  <2> QED
    BY <2>1, PassedKept
<1>4. AcknowledgedIsRecorded'
  BY <1>1, AcknowledgedKept DEF AcknowledgedIsRecorded
<1> QED
  BY <1>1, <1>2, <1>3, <1>4 DEF Moved, Along, Event

LEMMA Responding ==
  ASSUME Along, Kept, NEW h \in Handlers, Respond(h),
         \/ acked' = acked
         \/ /\ pc[h] # "free" /\ acked' = acked \union {batch[h]}
            /\ \A i \in DOMAIN batch[h] : status'[batch[h][i]] # None
  PROVE  Moved(h) /\ pc'[h] = "free"
<1>1. /\ pc'[h] = "free"
      /\ \A k \in Handlers \ {h} :
           pc'[k] = pc[k] /\ left'[k] = left[k] /\ batch'[k] = batch[k]
  BY DEF Respond, Along, HandlersTyped
<1>2. HandlersTyped'
  <2>1. pc' \in [Handlers -> Treatment \union {"free", "claim"}]
    BY DEF Respond, Along, HandlersTyped
  <2>2. batch' \in [Handlers -> Seq(Events)] /\ left' \in [Handlers -> Seq(Events)]
    BY DEF Respond, Along, HandlersTyped
  <2>3. acked' \subseteq Batches
    BY DEF Along, HandlersTyped
  <2> QED
    BY <1>1, <2>1, <2>2, <2>3 DEF Along, HandlersTyped
<1>3. BatchSound'
  <2> SUFFICES ASSUME NEW k \in Handlers, pc'[k] # "free"
               PROVE  LET passed == Len(batch'[k]) - Len(left'[k])
                      IN /\ passed >= 0
                         /\ \A i \in 1..Len(left'[k]) :
                              left'[k][i] = batch'[k][passed + i]
                         /\ \A i \in 1..passed : status'[batch'[k][i]] # None
    BY DEF BatchSound
  <2>1. pc[k] # "free" /\ left'[k] = left[k] /\ batch'[k] = batch[k]
    BY <1>1
  <2>2. LET passed == Len(batch[k]) - Len(left[k])
        IN /\ passed >= 0
           /\ \A i \in 1..Len(left[k]) : left[k][i] = batch[k][passed + i]
           /\ \A i \in 1..passed : status'[batch[k][i]] # None
    BY <2>1, PassedKept
  <2> QED
    BY <2>1, <2>2
<1>4. AcknowledgedIsRecorded'
  BY AcknowledgedKept DEF AcknowledgedIsRecorded
<1> QED
  BY <1>1, <1>2, <1>3, <1>4 DEF Moved, Along

LEMMA Proceeding ==
  ASSUME Along, Kept, NEW h \in Handlers, pc[h] # "free",
         status'[Event(h)] # None, NextEvent(h)
  PROVE  Moved(h) /\ pc'[h] \notin Treatment
<1> DEFINE passed == Len(batch[h]) - Len(left[h])
<1>1. /\ batch[h] \in Seq(Events) /\ left[h] \in Seq(Events)
      /\ left[h] # <<>> /\ Event(h) = left[h][1]
      /\ Len(left[h]) \in Nat \ {0} /\ Len(batch[h]) \in Nat
  BY EventTyped DEF Along, HandlersTyped
<1>2. passed >= 0 /\ passed \in Int /\ batch[h][passed + 1] = Event(h)
  <2>1. /\ passed >= 0
        /\ \A i \in 1..Len(left[h]) : left[h][i] = batch[h][passed + i]
    BY DEF Along, BatchSound
  <2>2. 1 \in 1..Len(left[h]) /\ passed \in Int
    BY <1>1
  <2> QED
    BY <1>1, <2>1, <2>2
<1>3. \A i \in 1..passed : status'[batch[h][i]] # None
  BY PassedKept
<1>4. \A i \in 1..(passed + 1) : status'[batch[h][i]] # None
  <2> HIDE DEF passed
  <2> SUFFICES ASSUME NEW i \in 1..(passed + 1), i \notin 1..passed
               PROVE  status'[batch[h][i]] # None
    BY <1>3
  <2>1. i = passed + 1
    BY <1>2
  <2> QED
    BY <2>1, <1>2
<1>5. CASE Len(left[h]) = 1
  <2>1. \A i \in DOMAIN batch[h] : status'[batch[h][i]] # None
    BY <1>1, <1>4, <1>5
  <2>2. Respond(h) /\ acked' = acked \union {batch[h]}
    BY <1>5 DEF NextEvent
  <2> QED
    BY <2>1, <2>2, Responding DEF Treatment
<1>6. CASE Len(left[h]) # 1
  <2>1. /\ pc'[h] = "claim" /\ left'[h] = Tail(left[h])
        /\ \A k \in Handlers \ {h} : pc'[k] = pc[k] /\ left'[k] = left[k]
        /\ batch' = batch /\ acked' = acked
    BY <1>6 DEF NextEvent, Along, HandlersTyped
  <2>2. /\ Tail(left[h]) \in Seq(Events) /\ Tail(left[h]) # <<>>
        /\ Len(Tail(left[h])) = Len(left[h]) - 1
        /\ Len(Tail(left[h])) \in Nat
        /\ \A i \in 1..Len(Tail(left[h])) : Tail(left[h])[i] = left[h][i + 1]
    <3>1. /\ Tail(left[h]) \in Seq(Events)
          /\ Len(Tail(left[h])) = Len(left[h]) - 1
          /\ \A i \in 1..Len(Tail(left[h])) : Tail(left[h])[i] = left[h][i + 1]
      BY <1>1, HeadTailProperties
    <3>2. Len(Tail(left[h])) \in Nat /\ Len(Tail(left[h])) # 0
      BY <1>1, <1>6, <3>1
    <3>3. Tail(left[h]) # <<>>
      <4>1. Len(<<>>) = 0
        OBVIOUS
      <4> QED
        BY <3>2, <4>1, Zenon
    <3> QED
      BY <3>1, <3>2, <3>3, Zenon
  <2>3. HandlersTyped'
    <3>1. pc' \in [Handlers -> Treatment \union {"free", "claim"}]
      BY <1>6 DEF NextEvent, Along, HandlersTyped
    <3>2. left' \in [Handlers -> Seq(Events)]
      BY <1>6, <2>2 DEF NextEvent, Along, HandlersTyped
    <3> QED
      BY <2>1, <2>2, <3>1, <3>2 DEF Along, HandlersTyped
  <2>4. BatchSound'
    <3> SUFFICES ASSUME NEW k \in Handlers, pc'[k] # "free"
                 PROVE  LET before == Len(batch[k]) - Len(left'[k])
                        IN /\ before >= 0
                           /\ \A i \in 1..Len(left'[k]) :
                                left'[k][i] = batch[k][before + i]
                           /\ \A i \in 1..before : status'[batch[k][i]] # None
      BY <2>1 DEF BatchSound
    <3>1. CASE k = h
      <4> DEFINE n == Len(left[h])  total == Len(batch[h])
      <4>1. n \in Nat \ {0} /\ total \in Nat /\ n - 1 \in Nat
            /\ Len(left'[h]) = n - 1 /\ passed = total - n
        BY <1>1, <2>1, <2>2
      <4>2. \A i \in 1..n : left[h][i] = batch[h][passed + i]
        BY DEF Along, BatchSound
      <4> HIDE DEF n, total, passed
      <4>3. total - Len(left'[h]) = passed + 1
        BY <4>1
      <4>4. \A i \in 1..(n - 1) : left'[h][i] = batch[h][(passed + 1) + i]
        <5> SUFFICES ASSUME NEW i \in 1..(n - 1)
                     PROVE  left'[h][i] = batch[h][(passed + 1) + i]
          OBVIOUS
        <5>1. i + 1 \in 1..n /\ passed + (i + 1) = (passed + 1) + i
          BY <4>1, <1>2
        <5>2. left'[h][i] = left[h][i + 1]
          BY <4>1, <2>1, <2>2
        <5>3. left[h][i + 1] = batch[h][passed + (i + 1)]
          BY <4>2, <5>1
        <5> QED
          BY <5>1, <5>2, <5>3
      <4>5. Len(batch[k]) - Len(left'[k]) = passed + 1
        BY <3>1, <4>3 DEF total
      <4>6. passed + 1 >= 0
        BY <1>2
      <4> QED
        BY <3>1, <4>1, <4>4, <4>5, <4>6, <1>4
    <3>2. CASE k # h
      <4>1. pc[k] # "free" /\ left'[k] = left[k]
        BY <2>1, <3>2
      <4> QED
        BY <4>1, PassedKept
    <3> QED
      BY <3>1, <3>2
  <2>5. AcknowledgedIsRecorded'
    BY <2>1, AcknowledgedKept DEF AcknowledgedIsRecorded
  <2> QED
    BY <2>1, <2>3, <2>4, <2>5 DEF Moved, Along, Treatment
<1> QED
  BY <1>5, <1>6

-----------------------------------------------------------------------------
LEMMA PartsNext ==
  IInv' <=> (ProcessSound /\ DatabaseTyped /\ Along /\ Gated /\ Sound)'
BY Parts, PTL

LEMMA InitIInv == Init => IInv
<1> SUFFICES ASSUME Init PROVE IInv
  OBVIOUS
<1>1. DatabaseTyped
  BY DEF Init, DatabaseTyped, Statuses
<1>2. 0 \in 0..MaxFaults
  BY MessagingAssumption
<1>3. ProcessSound /\ Gated
  BY <1>2, Zenon DEF Init, ProcessSound, Gated
<1>4. Along
  BY DEF Init, Along, HandlersTyped, BatchSound, AcknowledgedIsRecorded, Idle
<1>5. Sound
  BY MessagingAssumption
     DEF Init, Sound, OneHandler, HandlersSound, SoundAt, Treatment
<1> QED
  BY <1>1, <1>3, <1>4, <1>5, Parts

(* The process stops: its handlers are gone, the database is as it was. *)
LEMMA DownStep ==
  ASSUME IInv, Down, faults' \in 0..MaxFaults
  PROVE  IInv'
<1>1. ProcessSound' /\ DatabaseTyped' /\ Gated'
  BY Parts DEF Down, ProcessSound, DatabaseTyped, Gated, database, effects
<1>2. Along'
  BY Parts DEF Down, Along, HandlersTyped, BatchSound, AcknowledgedIsRecorded,
     Idle, database
<1>3. Sound'
  BY Parts DEF Down, Sound, OneHandler, HandlersSound, SoundAt, Treatment,
     database, effects
<1> QED
  BY <1>1, <1>2, <1>3, PartsNext

(* Starting and stopping. *)
LEMMA ProcessStep ==
  ASSUME IInv, StartReady \/ StartNotReady \/ Stop \/ Crash
  PROVE  IInv'
<1>1. ASSUME StartReady \/ StartNotReady
      PROVE  IInv'
  <2>1. \A h \in Handlers : pc[h] = "free"
    BY <1>1, Parts DEF StartReady, StartNotReady, Gated
  <2>2. ProcessSound' /\ Gated'
    <3>1. faults' = faults /\ pc' = pc
      BY <1>1 DEF StartReady, StartNotReady
    <3>2. ProcessSound
      BY Parts
    <3>3. ~ready
      BY <1>1, <3>2, Zenon DEF StartReady, StartNotReady, ProcessSound
    <3>4. running' = TRUE
      BY <1>1, Zenon DEF StartReady, StartNotReady
    <3>5. indexed' \in BOOLEAN /\ ready' \in BOOLEAN /\ (ready' => indexed')
      <4>1. CASE StartReady
        BY <4>1, Zenon DEF StartReady
      <4>2. CASE StartNotReady
        <5>1. ready' = ready
          BY <4>2 DEF StartNotReady
        <5>2. indexed' = indexed \/ indexed' = TRUE
          BY <4>2, Zenon DEF StartNotReady
        <5> QED
          BY <3>2, <3>3, <5>1, <5>2, Zenon DEF ProcessSound
      <4> QED
        BY <1>1, <4>1, <4>2
    <3> QED
      BY <2>1, <3>1, <3>2, <3>4, <3>5, Zenon DEF ProcessSound, Gated
  <2>3. UNCHANGED <<status, inbound, outbound, composed, delivered, pc, batch,
                    left, acked>>
    BY <1>1 DEF StartReady, StartNotReady, database, effects
  <2>4. DatabaseTyped' /\ Along'
    BY <2>3, Parts DEF DatabaseTyped, Along, HandlersTyped, BatchSound,
       AcknowledgedIsRecorded
  <2>5. Sound'
    BY <2>3, Parts DEF Sound, OneHandler, HandlersSound, SoundAt, DoneAt, Event
  <2> QED
    BY <2>2, <2>4, <2>5, PartsNext
<1>2. ASSUME Stop
      PROVE  IInv'
  BY <1>2, DownStep, Parts DEF Stop, ProcessSound
<1>3. ASSUME Crash
      PROVE  IInv'
  BY <1>3, DownStep, Parts, MessagingAssumption DEF Crash, ProcessSound
<1> QED
  BY <1>1, <1>2, <1>3

(* A handler that stays, in a process that stays, does not open the gate. *)
LEMMA GateKept ==
  ASSUME IInv, NEW h \in Handlers, pc[h] # "free", UNCHANGED process,
         faults' \in 0..MaxFaults, Moved(h)
  PROVE  ProcessSound' /\ Gated' /\ Along'
<1>1. running /\ ready /\ indexed
  BY Parts DEF Gated
<1> QED
  BY <1>1, Parts DEF ProcessSound, Gated, Moved, process

(* A batch comes in. *)
LEMMA PostStep ==
  ASSUME IInv, NEW h \in Handlers, NEW b \in Batches, Post(h, b)
  PROVE  IInv'
<1>1. /\ b \in Seq(Events) /\ b # <<>> /\ Len(b) \in Nat
      /\ pc'[h] = "claim" /\ batch'[h] = b /\ left'[h] = b
      /\ \A k \in Handlers \ {h} :
           pc'[k] = pc[k] /\ left'[k] = left[k] /\ batch'[k] = batch[k]
      /\ status' = status /\ acked' = acked
  BY Parts, MessagingAssumption DEF Post, Along, HandlersTyped, database
<1>2. ProcessSound' /\ DatabaseTyped' /\ Gated'
  BY <1>1, Parts DEF Post, ProcessSound, DatabaseTyped, Gated, process,
     database, effects
<1>3. HandlersTyped'
  BY <1>1, Parts DEF Post, Along, HandlersTyped
<1>4. BatchSound'
  <2> SUFFICES ASSUME NEW k \in Handlers, pc'[k] # "free"
               PROVE  LET passed == Len(batch'[k]) - Len(left'[k])
                      IN /\ passed >= 0
                         /\ \A i \in 1..Len(left'[k]) :
                              left'[k][i] = batch'[k][passed + i]
                         /\ \A i \in 1..passed : status'[batch'[k][i]] # None
    BY DEF BatchSound
  <2>1. CASE k = h
    BY <2>1, <1>1
  <2>2. CASE k # h
    <3>1. /\ pc[k] # "free" /\ status' = status
          /\ left'[k] = left[k] /\ batch'[k] = batch[k]
      BY <2>2, <1>1
    <3>2. BatchSound
      BY Parts DEF Along
    <3> QED
      BY <3>1, <3>2 DEF BatchSound
  <2> QED
    BY <2>1, <2>2
<1>5. AcknowledgedIsRecorded'
  BY <1>1, Parts DEF Along, AcknowledgedIsRecorded
<1>6. Sound'
  <2>1. \A k \in Handlers : pc'[k] \in Treatment =>
          k # h /\ pc[k] \in Treatment /\ Event(k)' = Event(k)
    BY <1>1 DEF Treatment, Event
  <2>2. UNCHANGED <<status, inbound, outbound, composed, delivered>>
    BY DEF Post, database, effects
  <2>3. OneHandler'
    BY <2>1, Parts DEF Sound, OneHandler
  <2>4. HandlersSound'
    BY <1>1, <2>1, <2>2, Parts DEF Sound, HandlersSound, DoneAt
  <2>5. \A e \in Events : SoundAt(e)'
    BY <2>2, Parts DEF Sound, SoundAt
  <2> QED
    BY <2>3, <2>4, <2>5 DEF Sound
<1> QED
  BY <1>2, <1>3, <1>4, <1>5, <1>6, PartsNext DEF Along

-----------------------------------------------------------------------------
(* A handler's step, from its two halves. *)
LEMMA Halves ==
  ASSUME IInv, NEW h \in Handlers, pc[h] # "free", UNCHANGED process,
         faults' \in 0..MaxFaults, Moved(h), DatabaseTyped', Sound'
  PROVE  IInv'
BY GateKept, PartsNext

(* What a handler at work relies on. *)
LEMMA AtWork ==
  ASSUME IInv, NEW h \in Handlers, pc[h] # "free"
  PROVE  /\ Sound /\ DatabaseTyped /\ HandlersTyped /\ Along
         /\ Event(h) \in Events /\ status[Event(h)] \in Statuses
         /\ indexed /\ faults \in 0..MaxFaults
         /\ SoundAt(Event(h))
         /\ pc[h] \in Treatment => DoneAt(Event(h), pc[h])
<1>1. Sound /\ DatabaseTyped /\ HandlersTyped /\ Along /\ Gated /\ ProcessSound
  BY Parts DEF Along
<1>2. Event(h) \in Events
  BY <1>1, EventTyped
<1> QED
  BY <1>1, <1>2 DEF Sound, HandlersSound, DatabaseTyped, Gated, ProcessSound

(* An operation whose event stays the handler's. *)
LEMMA Continuing ==
  ASSUME IInv, NEW h \in Handlers, pc[h] # "free", UNCHANGED <<process, faults>>,
         pc[h] \in Treatment \/ status[Event(h)] = None,
         NEW operation \in Treatment, Await(h, operation),
         DatabaseTyped',
         \A x \in Events \ {Event(h)} :
           /\ status'[x] = status[x]
           /\ composed'[x] = composed[x] /\ delivered'[x] = delivered[x]
           /\ (x \in inbound' <=> x \in inbound)
           /\ (x \in outbound' <=> x \in outbound),
         NEW e \in Events, e = Event(h),
         DoneAt(e, operation)', SoundAt(e)'
  PROVE  IInv'
<1>1. status'[e] # None
  BY MessagingAssumption DEF DoneAt
<1>2. Kept
  BY <1>1 DEF Kept
<1>3. Moved(h) /\ pc'[h] = operation /\ Event(h)' = Event(h)
  BY <1>2, Awaiting, AtWork
<1>4. DoneAt(e, pc[h])'
  BY <1>3
<1>5. \A k \in Handlers \ {h} : pc'[k] = pc[k] /\ left'[k] = left[k]
  BY <1>3 DEF Moved
<1>6. Sound'
  BY <1>3, <1>4, <1>5, OneEventAtATime, AtWork
<1>7. UNCHANGED process /\ faults' \in 0..MaxFaults
  BY AtWork
<1> QED
  BY <1>3, <1>6, <1>7, Halves

(* The last operation of a treatment, or one that failed. *)
LEMMA Ending ==
  ASSUME IInv, NEW h \in Handlers, pc[h] # "free", UNCHANGED process,
         faults' \in 0..MaxFaults,
         pc[h] \in Treatment \/ status[Event(h)] = None,
         Moved(h), pc'[h] \notin Treatment,
         DatabaseTyped',
         \A x \in Events \ {Event(h)} :
           /\ status'[x] = status[x]
           /\ composed'[x] = composed[x] /\ delivered'[x] = delivered[x]
           /\ (x \in inbound' <=> x \in inbound)
           /\ (x \in outbound' <=> x \in outbound),
         NEW e \in Events, e = Event(h), SoundAt(e)'
  PROVE  IInv'
<1>1. \A k \in Handlers \ {h} : pc'[k] = pc[k] /\ left'[k] = left[k]
  BY DEF Moved
<1>2. Sound'
  BY <1>1, OneEventAtATime, AtWork
<1> QED
  BY <1>2, Halves

LEMMA ClaimStep ==
  ASSUME IInv, NEW h \in Handlers, Claim(h)
  PROVE  IInv'
<1>1. pc[h] # "free" /\ UNCHANGED <<process, faults>>
  BY DEF Claim
<1> PICK e \in Events : e = Event(h)
  BY <1>1, AtWork
<1>2. status[e] = None /\ SoundAt(e)
  BY <1>1, AtWork, Zenon DEF Claim
<1>3. status' = [status EXCEPT ![e] = "RECEIVED"]
      /\ UNCHANGED <<inbound, outbound, composed, delivered>>
  BY DEF Claim, effects
<1>4. FirstOperation(e) \in Treatment /\ Await(h, FirstOperation(e))
  BY DEF Claim, FirstOperation, Treatment
<1>5. DatabaseTyped
  BY <1>1, AtWork
<1>6. status'[e] = "RECEIVED" /\ DatabaseTyped'
  BY <1>2, <1>3, <1>5 DEF DatabaseTyped, Statuses
<1>7. \A x \in Events \ {e} : status'[x] = status[x]
  BY <1>3, <1>5 DEF DatabaseTyped
<1>8. e \notin inbound /\ e \notin outbound /\ composed[e] = 0 /\ delivered[e] = 0
  BY <1>2 DEF SoundAt
<1>9. SoundAt(e)'
  BY <1>3, <1>6, <1>8, MessagingAssumption DEF SoundAt
<1>10. DoneAt(e, FirstOperation(e))'
  BY <1>3, <1>6, <1>8 DEF DoneAt, FirstOperation
<1> QED
  BY <1>1, <1>2, <1>3, <1>4, <1>6, <1>7, <1>9, <1>10, Continuing

(* A handler that leaves the database alone, and its event if it had one.  *)
LEMMA Leaving ==
  ASSUME IInv, NEW h \in Handlers, pc[h] # "free", UNCHANGED process,
         faults' \in 0..MaxFaults,
         UNCHANGED <<status, inbound, outbound, composed, delivered>>,
         Moved(h), pc'[h] \notin Treatment
  PROVE  IInv'
<1>1. DatabaseTyped'
  BY AtWork DEF DatabaseTyped
<1>2. \A k \in Handlers : pc'[k] \in Treatment =>
        pc[k] \in Treatment /\ Event(k)' = Event(k) /\ pc'[k] = pc[k]
  BY DEF Moved, Event
<1>3. Sound
  BY AtWork
<1>4. OneHandler'
  BY <1>2, <1>3 DEF Sound, OneHandler
<1>5. HandlersSound'
  BY <1>2, <1>3 DEF Sound, HandlersSound, DoneAt
<1>6. \A e \in Events : SoundAt(e)'
  BY <1>3 DEF Sound, SoundAt
<1>7. Sound'
  BY <1>4, <1>5, <1>6 DEF Sound
<1> QED
  BY <1>1, <1>7, Halves

(* An event seen before is passed over. *)
LEMMA DuplicateStep ==
  ASSUME IInv, NEW h \in Handlers, Duplicate(h)
  PROVE  IInv'
<1>1. /\ pc[h] # "free" /\ UNCHANGED <<process, faults>>
      /\ UNCHANGED <<status, inbound, outbound, composed, delivered>>
  BY DEF Duplicate, database, effects
<1>2. Kept /\ status'[Event(h)] # None
  BY <1>1 DEF Duplicate, Kept
<1>3. Moved(h) /\ pc'[h] \notin Treatment
  BY <1>1, <1>2, Proceeding, AtWork DEF Duplicate
<1>4. UNCHANGED process /\ faults' \in 0..MaxFaults
  BY <1>1, AtWork
<1> QED
  BY <1>1, <1>3, <1>4, Leaving

(* The three operations that mark an event with its final status. *)
LEMMA MarkStep ==
  ASSUME IInv, NEW h \in Handlers,
         \/ pc[h] = "ignore" /\ Mark(h, "IGNORED")
         \/ pc[h] = "mark_replied" /\ Mark(h, "REPLIED")
         \/ pc[h] = "mark_failed" /\ Mark(h, "REPLY_FAILED")
  PROVE  IInv'
<1>1. pc[h] # "free" /\ pc[h] \in Treatment
  BY DEF Treatment
<1>2. /\ UNCHANGED <<process, faults, inbound, outbound, composed, delivered>>
      /\ NextEvent(h)
  BY DEF Mark, effects
<1> PICK e \in Events : e = Event(h)
  BY <1>1, AtWork
<1>3. SoundAt(e) /\ DoneAt(e, pc[h]) /\ DatabaseTyped /\ Along
  BY <1>1, AtWork
<1> DEFINE final == IF pc[h] = "ignore" THEN "IGNORED"
                    ELSE IF pc[h] = "mark_replied" THEN "REPLIED"
                    ELSE "REPLY_FAILED"
<1>4. status' = [status EXCEPT ![e] = final]
  BY DEF Mark
<1>5. /\ status'[e] = final /\ DatabaseTyped'
      /\ \A x \in Events \ {e} : status'[x] = status[x]
  BY <1>2, <1>3, <1>4 DEF DatabaseTyped, Statuses, Final
<1>6. status'[e] # None
  BY <1>5, MessagingAssumption
<1>7. Kept
  BY <1>5, <1>6 DEF Kept
<1>8. Moved(h) /\ pc'[h] \notin Treatment
  BY <1>1, <1>2, <1>3, <1>6, <1>7, Proceeding
<1>9. SoundAt(e)'
  BY <1>2, <1>3, <1>5, <1>6 DEF SoundAt, DoneAt
<1>10. UNCHANGED process /\ faults' \in 0..MaxFaults
  BY <1>1, <1>2, AtWork
<1> QED
  BY <1>1, <1>2, <1>5, <1>8, <1>9, <1>10, Ending

(* The operations in the middle of a treatment. *)
LEMMA TreatmentStep ==
  ASSUME IInv, NEW h \in Handlers,
         \/ StoreInbound(h) \/ Compose(h) \/ StoreOutbound(h)
         \/ SendAccepted(h) \/ SendRefused(h) \/ SendUncertain(h)
  PROVE  IInv'
<1>1. pc[h] # "free" /\ pc[h] \in Treatment
  BY DEF StoreInbound, Compose, StoreOutbound, SendAccepted, SendRefused,
     SendUncertain, Treatment
<1>2. UNCHANGED <<process, faults, status>>
  BY DEF StoreInbound, Compose, StoreOutbound, SendAccepted, SendRefused,
     SendUncertain, database
<1> PICK e \in Events : e = Event(h)
  BY <1>1, AtWork
<1>3. SoundAt(e) /\ DoneAt(e, pc[h]) /\ DatabaseTyped /\ status[e] = "RECEIVED"
  BY <1>1, AtWork DEF DoneAt
<1> DEFINE Others ==
      \A x \in Events \ {e} :
        /\ composed'[x] = composed[x] /\ delivered'[x] = delivered[x]
        /\ (x \in inbound' <=> x \in inbound)
        /\ (x \in outbound' <=> x \in outbound)
<1>4. CASE StoreInbound(h)
  <2>1. /\ inbound' = inbound \union {e}
        /\ UNCHANGED <<outbound, composed, delivered>>
        /\ Await(h, "compose") /\ "compose" \in Treatment
    BY <1>4 DEF StoreInbound, effects, Treatment
  <2>2. DatabaseTyped' /\ Others
    BY <1>2, <1>3, <2>1 DEF DatabaseTyped
  <2>3. SoundAt(e)' /\ DoneAt(e, "compose")'
    BY <1>2, <1>3, <1>4, <2>1, MessagingAssumption DEF SoundAt, DoneAt, StoreInbound
  <2> QED
    BY <1>1, <1>2, <2>1, <2>2, <2>3, Continuing
<1>5. CASE Compose(h)
  <2>1. /\ composed' = [composed EXCEPT ![e] = @ + 1]
        /\ UNCHANGED <<inbound, outbound, delivered>>
        /\ Await(h, "send") /\ "send" \in Treatment
    BY <1>5 DEF Compose, database, Treatment
  <2>2. composed[e] = 0 /\ composed'[e] = 1
    BY <1>3, <1>5, <2>1 DEF DoneAt, DatabaseTyped, Compose
  <2>3. DatabaseTyped' /\ Others
    BY <1>2, <1>3, <2>1 DEF DatabaseTyped
  <2>4. SoundAt(e)' /\ DoneAt(e, "send")'
    BY <1>2, <1>3, <1>5, <2>1, <2>2, MessagingAssumption DEF SoundAt, DoneAt, Compose
  <2> QED
    BY <1>1, <1>2, <2>1, <2>3, <2>4, Continuing
<1>6. CASE StoreOutbound(h)
  <2>1. /\ outbound' = outbound \union {e}
        /\ UNCHANGED <<inbound, composed, delivered>>
        /\ Await(h, "mark_replied") /\ "mark_replied" \in Treatment
    BY <1>6 DEF StoreOutbound, effects, Treatment
  <2>2. DatabaseTyped' /\ Others
    BY <1>2, <1>3, <2>1 DEF DatabaseTyped
  <2>3. SoundAt(e)' /\ DoneAt(e, "mark_replied")'
    BY <1>2, <1>3, <1>6, <2>1, MessagingAssumption DEF SoundAt, DoneAt, StoreOutbound
  <2> QED
    BY <1>1, <1>2, <2>1, <2>2, <2>3, Continuing
<1>7. CASE SendAccepted(h) \/ SendUncertain(h)
  <2>1. /\ delivered' = [delivered EXCEPT ![e] = @ + 1]
        /\ UNCHANGED <<inbound, outbound, composed>>
        /\ pc[h] = "send"
    BY <1>7 DEF SendAccepted, SendUncertain, Sent, database
  <2>2. delivered[e] = 0 /\ delivered'[e] = 1
    BY <1>3, <2>1 DEF DoneAt, DatabaseTyped
  <2>3. DatabaseTyped' /\ Others
    BY <1>2, <1>3, <2>1 DEF DatabaseTyped
  <2>4. PICK operation \in {"store_outbound", "mark_failed"} : Await(h, operation)
    BY <1>7 DEF SendAccepted, SendUncertain
  <2>5. SoundAt(e)' /\ DoneAt(e, operation)'
    BY <1>2, <1>3, <2>1, <2>2, MessagingAssumption DEF SoundAt, DoneAt
  <2>6. operation \in Treatment
    BY DEF Treatment
  <2> QED
    BY <1>1, <1>2, <2>1, <2>3, <2>4, <2>5, <2>6, Continuing
<1>8. CASE SendRefused(h)
  <2>1. /\ UNCHANGED <<inbound, outbound, composed, delivered>>
        /\ Await(h, "mark_failed") /\ "mark_failed" \in Treatment
    BY <1>8 DEF SendRefused, database, effects, Treatment
  <2>2. DatabaseTyped' /\ Others
    BY <1>2, <1>3, <2>1 DEF DatabaseTyped
  <2>3. SoundAt(e)' /\ DoneAt(e, "mark_failed")'
    BY <1>2, <1>3, <1>8, <2>1 DEF SoundAt, DoneAt, SendRefused
  <2> QED
    BY <1>1, <1>2, <2>1, <2>2, <2>3, Continuing
<1> QED
  BY <1>4, <1>5, <1>6, <1>7, <1>8

(* An operation that fails, done or not. *)
LEMMA FailStep ==
  ASSUME IInv, NEW h \in Handlers, Fail(h)
  PROVE  IInv'
<1>1. /\ pc[h] # "free" /\ UNCHANGED process /\ faults' \in 0..MaxFaults
      /\ delivered' = delivered /\ acked' = acked /\ Respond(h)
  BY AtWork, MessagingAssumption DEF Fail
<1> PICK e \in Events : e = Event(h)
  BY <1>1, AtWork
<1>2. SoundAt(e) /\ DatabaseTyped /\ Along
      /\ (pc[h] \in Treatment => DoneAt(e, pc[h]))
  BY <1>1, AtWork
<1>3. Kept => Moved(h) /\ pc'[h] \notin Treatment
  BY <1>1, <1>2, Responding DEF Treatment
<1>4. CASE UNCHANGED <<database, composed>>
  <2>1. UNCHANGED <<status, inbound, outbound, composed, delivered>>
    BY <1>1, <1>4 DEF database
  <2>2. Kept
    BY <2>1 DEF Kept
  <2> QED
    BY <1>1, <1>3, <2>1, <2>2, Leaving
<1>5. ASSUME NEW new \in Statuses \ {None},
             status' = [status EXCEPT ![e] = new],
             UNCHANGED <<inbound, outbound, composed>>,
             \/ pc[h] = "claim" /\ status[e] = None /\ new = "RECEIVED"
             \/ pc[h] = "ignore" /\ new = "IGNORED"
             \/ pc[h] = "mark_replied" /\ new = "REPLIED"
             \/ pc[h] = "mark_failed" /\ new = "REPLY_FAILED"
      PROVE  IInv'
  <2>1. /\ status'[e] = new /\ DatabaseTyped'
        /\ \A x \in Events \ {e} : status'[x] = status[x]
    BY <1>1, <1>2, <1>5 DEF DatabaseTyped
  <2>2. Kept
    BY <2>1 DEF Kept
  <2>3. SoundAt(e)'
    <3>1. CASE pc[h] = "claim"
      BY <1>1, <1>2, <1>5, <2>1, <3>1, MessagingAssumption DEF SoundAt
    <3>2. CASE pc[h] \in {"ignore", "mark_replied", "mark_failed"}
      BY <1>1, <1>2, <1>5, <2>1, <3>2 DEF SoundAt, DoneAt, Treatment
    <3> QED
      BY <1>5, <3>1, <3>2
  <2>4. pc[h] \in Treatment \/ status[Event(h)] = None
    BY <1>5 DEF Treatment
  <2> QED
    BY <1>1, <1>3, <1>5, <2>1, <2>2, <2>3, <2>4, Ending
<1>6. ASSUME status' = status, pc[h] \in {"store_inbound", "compose", "store_outbound"},
             \/ /\ pc[h] = "store_inbound" /\ inbound' = inbound \union {e}
                /\ UNCHANGED <<outbound, composed>>
             \/ /\ pc[h] = "compose" /\ composed' = [composed EXCEPT ![e] = @ + 1]
                /\ UNCHANGED <<inbound, outbound>>
             \/ /\ pc[h] = "store_outbound" /\ outbound' = outbound \union {e}
                /\ UNCHANGED <<inbound, composed>>
      PROVE  IInv'
  <2>1. DoneAt(e, pc[h]) /\ pc[h] \in Treatment /\ status[e] = "RECEIVED"
    BY <1>2, <1>6 DEF Treatment, DoneAt
  <2>2. DatabaseTyped'
    BY <1>1, <1>2, <1>6 DEF DatabaseTyped
  <2>3. \A x \in Events \ {e} :
          /\ status'[x] = status[x]
          /\ composed'[x] = composed[x] /\ delivered'[x] = delivered[x]
          /\ (x \in inbound' <=> x \in inbound)
          /\ (x \in outbound' <=> x \in outbound)
    BY <1>1, <1>2, <1>6 DEF DatabaseTyped
  <2>4. composed'[e] \in {0, 1}
    BY <1>2, <1>6, <2>1 DEF DoneAt, DatabaseTyped
  <2>5. SoundAt(e)'
    BY <1>1, <1>2, <1>6, <2>1, <2>4, MessagingAssumption DEF SoundAt
  <2>6. Kept
    BY <1>6 DEF Kept
  <2> QED
    BY <1>1, <1>3, <2>1, <2>2, <2>3, <2>5, <2>6, Ending
<1>7. PerhapsDone(h)
  BY DEF Fail
<1> QED
  BY <1>4, <1>5, <1>6, <1>7, MessagingAssumption DEF PerhapsDone, Statuses, Final, database

-----------------------------------------------------------------------------
(* IInv is inductive, hence an invariant of any execution. *)
LEMMA StepIInv == IInv /\ [Next]_vars => IInv'
<1> SUFFICES ASSUME IInv, [Next]_vars PROVE IInv'
  OBVIOUS
<1>1. CASE StartReady \/ StartNotReady \/ Stop \/ Crash
  BY <1>1, ProcessStep
<1>2. CASE \E h \in Handlers : \E b \in Batches : Post(h, b)
  BY <1>2, PostStep
<1>3. CASE \E h \in Handlers : Fail(h)
  BY <1>3, FailStep
<1>4. CASE \E h \in Handlers : Handle(h)
  <2> PICK h \in Handlers : Handle(h)
    BY <1>4
  <2>1. CASE Claim(h) \/ Duplicate(h)
    BY <2>1, ClaimStep, DuplicateStep
  <2>2. CASE Ignore(h) \/ MarkReplied(h) \/ MarkFailed(h)
    BY <2>2, MarkStep DEF Ignore, MarkReplied, MarkFailed
  <2>3. CASE \/ StoreInbound(h) \/ Compose(h) \/ StoreOutbound(h)
             \/ SendAccepted(h) \/ SendRefused(h) \/ SendUncertain(h)
    BY <2>3, TreatmentStep
  <2> QED
    BY <2>1, <2>2, <2>3 DEF Handle
<1>5. CASE UNCHANGED vars
  <2>1. /\ UNCHANGED <<running, ready, indexed, faults, acked>>
        /\ UNCHANGED <<status, inbound, outbound, composed, delivered>>
        /\ UNCHANGED <<pc, batch, left>>
    BY <1>5 DEF vars
  <2>2. ProcessSound' /\ DatabaseTyped' /\ Gated'
    BY <2>1, Parts DEF ProcessSound, DatabaseTyped, Gated
  <2>3. Along'
    BY <2>1, Parts DEF Along, HandlersTyped, BatchSound, AcknowledgedIsRecorded
  <2>4. Sound'
    BY <2>1, Parts DEF Sound, OneHandler, HandlersSound, SoundAt, DoneAt, Event
  <2> QED
    BY <2>2, <2>3, <2>4, PartsNext
<1> QED
  BY <1>1, <1>2, <1>3, <1>4, <1>5 DEF Next

(* In every reachable state, an event has one handler, and its status and  *)
(* that handler tell exactly what has been done about it.                  *)
THEOREM Invariant == Spec => []IInv
BY InitIInv, StepIInv, PTL DEF Spec

(* The state of the webhook and of the messages keeps its types. *)
THEOREM TypeCorrect == Spec => []TypeOK
<1>1. IInv => TypeOK
  BY DEF IInv
<1> QED
  BY Invariant, <1>1, PTL

LEMMA AtMostOne == \A n : n \in {0, 1} => n <= 1
OBVIOUS

(* A user never gets two replies to the same message. *)
THEOREM NoSecondReply == Spec => []RepliedOnce
<1>1. IInv => CountersSound
  BY DEF IInv
<1>2. CountersSound => RepliedOnce
  BY AtMostOne DEF CountersSound, RepliedOnce
<1> QED
  BY Invariant, <1>1, <1>2, PTL

(* A message never acts twice on the conversations and the tontines. *)
THEOREM NoSecondProcessing == Spec => []ProcessedOnce
<1>1. IInv => CountersSound
  BY DEF IInv
<1>2. CountersSound => ProcessedOnce
  BY AtMostOne DEF CountersSound, ProcessedOnce
<1> QED
  BY Invariant, <1>1, <1>2, PTL

(* The status of an event tells what is stored and what was sent. *)
THEOREM StatusIsTrue == Spec => []StatusTruthful
<1>1. IInv => StatusTruthful
  BY DEF IInv
<1> QED
  BY Invariant, <1>1, PTL

(* Meta never forgets an event that is not recorded. *)
THEOREM AcknowledgedRecorded == Spec => []AcknowledgedIsRecorded
<1>1. IInv => AcknowledgedIsRecorded
  BY DEF IInv
<1> QED
  BY Invariant, <1>1, PTL

(* A status that changes was None, and its event is being claimed, or      *)
(* RECEIVED, and its event is being treated.                               *)
LEMMA StatusStep ==
  ASSUME IInv, [Next]_vars, NEW x \in Events, status'[x] # status[x]
  PROVE  status[x] \in {None, "RECEIVED"}
<1>1. ~ UNCHANGED status
  OBVIOUS
<1>2. PICK h \in Handlers : Handle(h) \/ Fail(h)
  BY <1>1 DEF Next, vars, StartReady, StartNotReady, Stop, Crash, Down, Post,
     database
<1>3. /\ pc[h] # "free"
      /\ \/ pc[h] = "claim" /\ status[Event(h)] = None
         \/ pc[h] \in Treatment
      /\ \E new \in Statuses : status' = [status EXCEPT ![Event(h)] = new]
  <2>1. CASE Claim(h)
    <3>1. pc[h] # "free" /\ pc[h] = "claim"
      BY <2>1 DEF Claim
    <3>2. status[Event(h)] = None
      BY <2>1, <3>1, AtWork, Zenon DEF Claim
    <3> QED
      BY <2>1, <3>1, <3>2 DEF Claim, Statuses
  <2>2. CASE Duplicate(h)
    BY <1>1, <2>2 DEF Duplicate, database
  <2>3. CASE Ignore(h) \/ MarkReplied(h) \/ MarkFailed(h)
    BY <2>3 DEF Ignore, MarkReplied, MarkFailed, Mark, Treatment, Statuses, Final
  <2>4. CASE \/ StoreInbound(h) \/ Compose(h) \/ StoreOutbound(h)
             \/ SendAccepted(h) \/ SendRefused(h) \/ SendUncertain(h)
    BY <1>1, <2>4 DEF StoreInbound, Compose, StoreOutbound, SendAccepted,
       SendRefused, SendUncertain, database
  <2>5. CASE Fail(h)
    BY <1>1, <2>5 DEF Fail, PerhapsDone, Treatment, Statuses, Final, database
  <2> QED
    BY <1>2, <2>1, <2>2, <2>3, <2>4, <2>5 DEF Handle
<1>4. status \in [Events -> Statuses] /\ Event(h) \in Events
  BY <1>3, AtWork DEF DatabaseTyped
<1>5. x = Event(h)
  BY <1>3, <1>4
<1> QED
  BY <1>3, <1>5, AtWork DEF DoneAt

(* What is ignored, replied or failed is settled for good. *)
THEOREM SettledForGood == Spec => FinalStays
<1>1. IInv /\ [Next]_vars =>
        [\A e \in Events : status[e] \in Final => status'[e] = status[e]]_vars
  BY StatusStep, MessagingAssumption DEF Final
<1> QED
  BY Invariant, <1>1, PTL DEF Spec, FinalStays

(* The refinement, one action of AtMostOnce after the other. *)
Phases == [e \in Events |-> PhaseOf(status[e])]

LEMMA PhaseChanged ==
  ASSUME NEW x \in Events, NEW new, status \in [Events -> Statuses],
         status' = [status EXCEPT ![x] = new]
  PROVE  Phases' = [Phases EXCEPT ![x] = PhaseOf(new)]
BY DEF Phases, PhaseOf

LEMMA TakenOrSettled ==
  ASSUME NEW x \in Events, NEW new, status \in [Events -> Statuses],
         status' = [status EXCEPT ![x] = new], UNCHANGED effects,
         \/ status[x] = None /\ new = "RECEIVED"
         \/ status[x] = "RECEIVED" /\ new \in Final
  PROVE  Once!Next
<1>1. Phases' = [Phases EXCEPT ![x] = PhaseOf(new)]
  BY PhaseChanged
<1>2. Phases[x] = PhaseOf(status[x])
  BY DEF Phases
<1>3. CASE status[x] = None /\ new = "RECEIVED"
  <2>1. Phases[x] = "new" /\ Phases' = [Phases EXCEPT ![x] = "taken"]
    BY <1>1, <1>2, <1>3, MessagingAssumption DEF PhaseOf
  <2>2. Once!Take(x)
    BY <2>1 DEF Once!Take, Phases, effects
  <2> QED
    BY <2>2 DEF Once!Next
<1>4. CASE status[x] = "RECEIVED" /\ new \in Final
  <2>1. Phases[x] = "taken" /\ Phases' = [Phases EXCEPT ![x] = "settled"]
    BY <1>1, <1>2, <1>4, MessagingAssumption DEF PhaseOf, Final
  <2>2. Once!Settle(x)
    BY <2>1 DEF Once!Settle, Phases, effects
  <2> QED
    BY <2>2 DEF Once!Next
<1> QED
  BY <1>3, <1>4

LEMMA ActedOn ==
  ASSUME NEW x \in Events, status[x] = "RECEIVED", composed[x] = 0,
         composed' = [composed EXCEPT ![x] = @ + 1], UNCHANGED <<status, delivered>>
  PROVE  Once!Next
<1>1. Phases[x] = "taken" /\ UNCHANGED Phases
  BY MessagingAssumption DEF Phases, PhaseOf
<1>2. composed' = [composed EXCEPT ![x] = 1]
  OBVIOUS
<1>3. Once!Act(x)
  BY <1>1, <1>2 DEF Once!Act, Phases
<1> QED
  BY <1>3 DEF Once!Next

LEMMA Answered ==
  ASSUME NEW x \in Events, status[x] = "RECEIVED", composed[x] = 1, delivered[x] = 0,
         delivered' = [delivered EXCEPT ![x] = @ + 1], UNCHANGED <<status, composed>>
  PROVE  Once!Next
<1>1. Phases[x] = "taken" /\ UNCHANGED Phases
  BY MessagingAssumption DEF Phases, PhaseOf
<1>2. delivered' = [delivered EXCEPT ![x] = 1]
  OBVIOUS
<1>3. Once!Answer(x)
  BY <1>1, <1>2 DEF Once!Answer, Phases
<1> QED
  BY <1>3 DEF Once!Next

LEMMA Stutters ==
  ASSUME UNCHANGED <<status, composed, delivered>>
  PROVE  UNCHANGED Once!vars
BY DEF Once!vars

LEMMA StepRefines == IInv /\ [Next]_vars => [Once!Next]_(Once!vars)
<1> SUFFICES ASSUME IInv, [Next]_vars, ~ UNCHANGED <<status, composed, delivered>>
             PROVE  Once!Next
  BY Stutters
<1>1. PICK h \in Handlers : Handle(h) \/ Fail(h)
  BY DEF Next, vars, StartReady, StartNotReady, Stop, Crash, Down, Post,
     database, effects
<1> DEFINE x == Event(h)
<1>2. status \in [Events -> Statuses]
  BY DEF IInv, TypeOK
<1>3. pc[h] # "free" => x \in Events
  BY AtWork
<1>4. pc[h] \in Treatment => DoneAt(x, pc[h])
  BY DEF IInv, HandlersSound
<1>5. CASE Claim(h)
  <2>1. status[x] = None
    BY <1>5, AtWork, Zenon DEF Claim
  <2> QED
    BY <1>2, <1>3, <1>5, <2>1, TakenOrSettled DEF Claim
<1>6. CASE Duplicate(h) \/ StoreInbound(h) \/ StoreOutbound(h) \/ SendRefused(h)
  BY <1>6 DEF Duplicate, StoreInbound, StoreOutbound, SendRefused, database, effects
<1>7. CASE Ignore(h) \/ MarkReplied(h) \/ MarkFailed(h)
  <2>1. PICK final \in Final :
          status' = [status EXCEPT ![x] = final] /\ pc[h] \in Treatment
          /\ UNCHANGED effects
    BY <1>7 DEF Ignore, MarkReplied, MarkFailed, Mark, Final, Treatment
  <2> QED
    BY <1>2, <1>3, <1>4, <2>1, TakenOrSettled DEF DoneAt, Treatment
<1>8. CASE Compose(h)
  <2>1. pc[h] = "compose" /\ DoneAt(x, "compose") /\ x \in Events
    BY <1>3, <1>4, <1>8 DEF Compose, Treatment
  <2> QED
    BY <1>8, <2>1, ActedOn DEF Compose, DoneAt, database
<1>9. CASE SendAccepted(h) \/ SendUncertain(h)
  <2>1. pc[h] = "send" /\ DoneAt(x, "send") /\ x \in Events
    BY <1>3, <1>4, <1>9 DEF SendAccepted, SendUncertain, Treatment
  <2> QED
    BY <1>9, <2>1, Answered DEF SendAccepted, SendUncertain, Sent, DoneAt, database
<1>10. CASE Fail(h)
  <2>1. pc[h] # "free" /\ PerhapsDone(h) /\ UNCHANGED delivered /\ x \in Events
    BY <1>3, <1>10 DEF Fail
  <2>2. CASE pc[h] = "compose"
    <3>1. DoneAt(x, "compose")
      BY <1>4, <2>2 DEF Treatment
    <3> QED
      BY <2>1, <2>2, <3>1, ActedOn DEF PerhapsDone, DoneAt, database
  <2>3. CASE pc[h] = "claim"
    <3>1. /\ status[x] = None /\ status' = [status EXCEPT ![x] = "RECEIVED"]
          /\ UNCHANGED effects
      BY <2>1, <2>3 DEF PerhapsDone, database, effects
    <3> QED
      BY <1>2, <2>1, <3>1, TakenOrSettled
  <2>4. CASE pc[h] \notin {"compose", "claim"}
    <3>1. PICK final \in Final :
            /\ status' = [status EXCEPT ![x] = final] /\ UNCHANGED effects
            /\ pc[h] \in Treatment
      BY <2>1, <2>4 DEF PerhapsDone, database, effects, Treatment, Final
    <3> QED
      BY <1>2, <1>4, <2>1, <3>1, TakenOrSettled DEF DoneAt
  <2> QED
    BY <2>2, <2>3, <2>4
<1> QED
  BY <1>1, <1>5, <1>6, <1>7, <1>8, <1>9, <1>10 DEF Handle

(* Messaging implements AtMostOnce: whatever is posted, again or at the    *)
(* same time, and whatever fails, an event goes through its phases in      *)
(* order.                                                                  *)
THEOREM ImplementsAtMostOnce == Spec => RefinesAtMostOnce
<1>1. Init => Once!Init
  BY DEF Init, Once!Init, PhaseOf
<1> QED
  BY <1>1, StepRefines, Invariant, PTL DEF Spec, RefinesAtMostOnce, Once!Spec

(* The startup, the crashes and the restarts that Messaging allows are     *)
(* those of Gate: nothing is relied on that Deployment does not provide.   *)
THEOREM RunsBehindGate == Spec => KeepsGate
<1>1. Init => Door!Init
  BY DEF Init, Door!Init
<1>2. ASSUME IInv, [Next]_vars
      PROVE  [Door!Next]_(Door!vars)
  <2>1. /\ ready \in BOOLEAN /\ indexed \in BOOLEAN
        /\ ready => running /\ indexed
    BY <1>2 DEF IInv, TypeOK
  <2>2. CASE UNCHANGED process
    BY <2>2 DEF process, Door!vars
  <2>3. CASE StartReady
    BY <2>1, <2>3 DEF StartReady, Door!Next, Door!Open, Door!vars
  <2>4. CASE StartNotReady
    BY <2>1, <2>4 DEF StartNotReady, Door!Next, Door!Index, Door!vars
  <2>5. CASE Stop \/ Crash
    BY <2>1, <2>5 DEF Stop, Crash, Down, Door!Next, Door!Close, Door!vars
  <2>6. ASSUME NEW h \in Handlers,
               (\E b \in Batches : Post(h, b)) \/ Handle(h) \/ Fail(h)
        PROVE  UNCHANGED process
    BY <2>6 DEF Post, Fail, Handle, Claim, Duplicate, Ignore, StoreInbound,
       Compose, SendAccepted, SendRefused, SendUncertain, StoreOutbound,
       MarkReplied, MarkFailed, Mark
  <2> QED
    BY <1>2, <2>2, <2>3, <2>4, <2>5, <2>6 DEF Next, vars, process
<1>3. IInv /\ [Next]_vars => [Door!Next]_(Door!vars)
  BY <1>2
<1> QED
  BY <1>1, <1>3, Invariant, PTL DEF Spec, KeepsGate, Door!Spec
=============================================================================
