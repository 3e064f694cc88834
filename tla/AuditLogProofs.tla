---------------------------- MODULE AuditLogProofs ----------------------------
(***************************************************************************)
(* Proofs about AuditLog, for any chains, writers, receipts, readers and   *)
(* streams.  Sequences are compared place by place; IsPrefix and SubSeq,   *)
(* in which the properties are stated, are related to that first.          *)
(***************************************************************************)
EXTENDS AuditLog, SequenceTheorems, TLAPS

-----------------------------------------------------------------------------
(* Sequences                                                               *)

Begins(part, whole) ==
  /\ Len(part) <= Len(whole)
  /\ \A n \in 1 .. Len(part) : part[n] = whole[n]

(* The root of a chain when it had n events.                               *)
TipAt(events, n) == IF n = 0 THEN NoHash ELSE events[n].hash

(* The first events of a chain.                                            *)
LEMMA FirstEvents ==
  ASSUME NEW events \in Seq(Event), NEW n \in 0 .. Len(events)
  PROVE  /\ SubSeq(events, 1, n) \in Seq(Event)
         /\ Len(SubSeq(events, 1, n)) = n
         /\ \A m \in 1 .. n : SubSeq(events, 1, n)[m] = events[m]
<1>1. \A m \in 1 .. n : events[m] \in Event
  BY ElementOfSeq, LenProperties
<1>2. Len(events) \in Nat /\ n \in Int /\ 1 \in Int
  BY LenProperties
<1>3. QED
  BY <1>1, <1>2, SubSeqProperties

(* A sequence that agrees place by place is a prefix.                      *)
LEMMA BeginsIsPrefix ==
  ASSUME NEW part \in Seq(Event), NEW whole \in Seq(Event), Begins(part, whole)
  PROVE  IsPrefix(part, whole)
<1>1. Len(part) \in 0 .. Len(whole)
  BY LenProperties DEF Begins
<1>2. /\ SubSeq(whole, 1, Len(part)) \in Seq(Event)
      /\ Len(SubSeq(whole, 1, Len(part))) = Len(part)
      /\ \A m \in 1 .. Len(part) : SubSeq(whole, 1, Len(part))[m] = part[m]
  BY <1>1, FirstEvents DEF Begins
<1>3. part = SubSeq(whole, 1, Len(part))
  BY <1>2, SeqEqual
<1>4. QED
  BY <1>3 DEF IsPrefix, Begins

(* The root of the first n events.                                         *)
LEMMA TipOfFirstEvents ==
  ASSUME NEW events \in Seq(Event), NEW n \in 0 .. Len(events)
  PROVE  TipOf(SubSeq(events, 1, n)) = TipAt(events, n)
<1> DEFINE part == SubSeq(events, 1, n)
<1>1. part \in Seq(Event) /\ Len(part) = n /\ \A m \in 1 .. n : part[m] = events[m]
  BY FirstEvents
<1> HIDE DEF part
<1>2. CASE n = 0
  <2>1. part = <<>>
    BY <1>1, <1>2, EmptySeq
  <2>2. QED
    BY <1>2, <2>1 DEF TipOf, TipAt, NoEvents, part
<1>3. CASE n # 0
  <2>1. part # <<>>
    BY <1>1, <1>3, EmptySeq
  <2>2. n \in 1 .. n
    BY <1>3, LenProperties
  <2>3. QED
    BY <1>1, <1>3, <2>1, <2>2 DEF TipOf, TipAt, NoEvents, part
<1>4. QED
  BY <1>2, <1>3

(* The root of a chain.                                                    *)
LEMMA RootIsTip ==
  ASSUME NEW events \in Seq(Event)
  PROVE  /\ TipOf(events) = TipAt(events, Len(events))
         /\ TipOf(events) \in Hashes
<1>1. Len(events) \in Nat /\ (events = <<>> <=> Len(events) = 0)
  BY LenProperties, EmptySeq
<1>2. events # <<>> => events[Len(events)] \in Event
  BY <1>1, ElementOfSeq
<1>3. NoHash \in Hashes
  BY DEF NoHash, Hashes
<1>4. QED
  BY <1>1, <1>2, <1>3 DEF TipOf, TipAt, NoEvents, Event

(* What is listed after a cursor.                                          *)
LEMMA ListedEvents ==
  ASSUME NEW c \in Chains, log[c] \in Seq(Event), NEW after \in 0 .. Len(log[c])
  PROVE  /\ List(c, after) \in Seq(Event)
         /\ Len(List(c, after)) = Len(log[c]) - after
         /\ \A n \in 1 .. Len(log[c]) - after : List(c, after)[n] = log[c][after + n]
<1>1. \A m \in after + 1 .. Len(log[c]) : log[c][m] \in Event
  BY ElementOfSeq, LenProperties
<1>2. Len(log[c]) \in Nat
  BY LenProperties
<1>3. after + 1 \in Int /\ Len(log[c]) \in Int
  BY <1>2
<1>4. /\ SubSeq(log[c], after + 1, Len(log[c])) \in Seq(Event)
      /\ Len(SubSeq(log[c], after + 1, Len(log[c]))) =
           IF after + 1 <= Len(log[c]) THEN Len(log[c]) - (after + 1) + 1 ELSE 0
      /\ \A i \in 1 .. Len(log[c]) - (after + 1) + 1 :
           SubSeq(log[c], after + 1, Len(log[c]))[i] = log[c][after + 1 + i - 1]
  BY <1>1, <1>3, SubSeqProperties
<1>5. QED
  BY <1>2, <1>4 DEF List

-----------------------------------------------------------------------------
(* The invariant                                                           *)

(* Verify, place by place, and a hash as long as its chain.                *)
LogIsChained ==
  \A c \in Chains : \A n \in 1 .. Len(log[c]) :
    /\ log[c][n].sequence = n
    /\ log[c][n].resource = c
    /\ log[c][n].previous = TipAt(log[c], n - 1)
    /\ log[c][n].hash = HashOf(log[c][n].id, log[c][n].previous)
    /\ Len(log[c][n].hash) = n

(* An event is appended once, at the end of its appender.                  *)
EventsAreTheirAppenders ==
  \A c \in Chains : \A n \in 1 .. Len(log[c]) :
    /\ ChainOf[log[c][n].id] = c
    /\ pc[log[c][n].id] = "done"
    /\ \A m \in 1 .. Len(log[c]) : log[c][m].id = log[c][n].id => m = n

EventsSayWhatTheyAre ==
  \A c \in Chains : \A n \in 1 .. Len(log[c]) :
    \/ /\ log[c][n].id \in Issuers
       /\ log[c][n].type = "receipt"
       /\ log[c][n].data = [receipt |-> log[c][n].id, root |-> auditRoot[log[c][n].id]]
    \/ log[c][n].id \in Writers /\ log[c][n].type = "step"

RootsWereTips ==
  \A i \in Issuers :
    pc[i] # "start" =>
      /\ covered[i] <= Len(log[ChainOf[i]])
      /\ auditRoot[i] = TipAt(log[ChainOf[i]], covered[i])

ReadersFollow ==
  \A r \in Readers :
    /\ Begins(listing[r], log[ChainOf[r]])
    /\ pc[r] = "done" => \E n \in Len(listing[r]) .. Len(log[ChainOf[r]]) :
                           root[r] = TipAt(log[ChainOf[r]], n)

StreamsFollow ==
  \A s \in Streams :
    /\ Begins(received[s], log[ChainOf[s]])
    /\ pc[s] = "sending" =>
         /\ Len(received[s]) + Len(sending[s]) <= Len(log[ChainOf[s]])
         /\ \A n \in 1 .. Len(sending[s]) :
              sending[s][n] = log[ChainOf[s]][Len(received[s]) + n]

AuditInv ==
  /\ AuditTypeOK
  /\ LogIsChained
  /\ EventsAreTheirAppenders
  /\ EventsSayWhatTheyAre
  /\ RootsWereTips
  /\ ReadersFollow
  /\ StreamsFollow

(* Nothing is logged at first.                                             *)
LEMMA AuditInitially ==
  ASSUME AuditInit
  PROVE  AuditInv
<1> USE AuditConstants DEF AuditInit
<1>1. NoEvents \in Seq(Event) /\ Len(NoEvents) = 0 /\ NoHash \in Hashes
  BY EmptySeq DEF NoEvents, NoHash, Hashes
<1>2. AuditTypeOK
  BY <1>1 DEF AuditTypeOK
<1>3. \A c \in Chains : Len(log[c]) = 0
  BY <1>1
<1>4. LogIsChained /\ EventsAreTheirAppenders /\ EventsSayWhatTheyAre
  BY <1>3 DEF LogIsChained, EventsAreTheirAppenders, EventsSayWhatTheyAre
<1>5. RootsWereTips
  BY DEF RootsWereTips, Appenders
<1>6. ReadersFollow /\ StreamsFollow
  BY <1>1, <1>3 DEF ReadersFollow, StreamsFollow, Begins, Clients, Appenders
<1>7. QED
  BY <1>2, <1>4, <1>5, <1>6 DEF AuditInv

-----------------------------------------------------------------------------
(* What a step does to the log                                             *)

Data == [receipt : Issuers \cup {NoReceipt}, root : Hashes]

(* The event a call appends.                                               *)
LEMMA NewEventFields ==
  ASSUME AuditTypeOK, NEW x \in Appenders, NEW type \in {"step", "receipt"}, NEW data \in Data
  PROVE  LET e == NewEvent(x, type, data)
             c == ChainOf[x]
         IN  /\ c \in Chains
             /\ e \in Event
             /\ e.resource = c /\ e.sequence = Len(log[c]) + 1 /\ e.id = x
             /\ e.type = type /\ e.data = data
             /\ e.previous = Root(c) /\ e.hash = HashOf(x, Root(c))
<1> DEFINE c == ChainOf[x]
<1>1. c \in Chains
  BY AuditConstants
<1>2. log[c] \in Seq(Event)
  BY <1>1 DEF AuditTypeOK
<1>3. Root(c) \in Hashes /\ Len(log[c]) + 1 \in Nat \ {0}
  BY <1>2, RootIsTip, LenProperties DEF Root
<1>4. HashOf(x, Root(c)) \in Hashes
  BY <1>3, AppendProperties DEF HashOf, Hashes
<1> HIDE DEF c
<1>5. [resource |-> c, sequence |-> Len(log[c]) + 1, id |-> x, type |-> type,
       data |-> data, previous |-> Root(c), hash |-> HashOf(x, Root(c))] \in Event
  BY <1>1, <1>3, <1>4 DEF Event, Data
<1>6. QED
  BY <1>1, <1>5 DEF NewEvent, c

(* An append adds one event to one chain and keeps all others.             *)
LEMMA AppendGives ==
  ASSUME AuditTypeOK, NEW x \in Appenders, NEW type \in {"step", "receipt"}, NEW data \in Data,
         AppendEvent(x, type, data)
  PROVE  \E c \in Chains, e \in Event :
           /\ c = ChainOf[x]
           /\ e.resource = c /\ e.sequence = Len(log[c]) + 1 /\ e.id = x
           /\ e.type = type /\ e.data = data
           /\ e.previous = TipAt(log[c], Len(log[c]))
           /\ e.hash = HashOf(e.id, e.previous)
           /\ Len(e.hash) = Len(e.previous) + 1
           /\ log' \in [Chains -> Seq(Event)]
           /\ log' = [log EXCEPT ![c] = Append(log[c], e)]
           /\ Len(log'[c]) = Len(log[c]) + 1
           /\ \A n \in 1 .. Len(log[c]) : log'[c][n] = log[c][n]
           /\ log'[c][Len(log[c]) + 1] = e
           /\ \A d \in Chains : d # c => log'[d] = log[d]
<1> DEFINE c == ChainOf[x]
           e == NewEvent(x, type, data)
<1>1. /\ c \in Chains
      /\ e \in Event
      /\ e.resource = c /\ e.sequence = Len(log[c]) + 1 /\ e.id = x
      /\ e.type = type /\ e.data = data
      /\ e.previous = Root(c) /\ e.hash = HashOf(x, Root(c))
  BY NewEventFields
<1>2. log \in [Chains -> Seq(Event)] /\ log[c] \in Seq(Event)
  BY <1>1 DEF AuditTypeOK
<1>3. log' = [log EXCEPT ![c] = Append(log[c], e)]
  BY DEF AppendEvent
<1>4. /\ Append(log[c], e) \in Seq(Event)
      /\ Len(Append(log[c], e)) = Len(log[c]) + 1
      /\ \A n \in 1 .. Len(log[c]) : Append(log[c], e)[n] = log[c][n]
      /\ Append(log[c], e)[Len(log[c]) + 1] = e
  BY <1>1, <1>2, AppendProperties
<1>5. Root(c) = TipAt(log[c], Len(log[c])) /\ Root(c) \in Hashes
  BY <1>2, RootIsTip DEF Root
<1>6. Len(HashOf(x, Root(c))) = Len(Root(c)) + 1
  BY <1>5, AppendProperties DEF HashOf, Hashes
<1> HIDE DEF c, e
<1>7. log'[c] = Append(log[c], e) /\ \A d \in Chains : d # c => log'[d] = log[d]
  BY <1>1, <1>2, <1>3
<1>8. log' \in [Chains -> Seq(Event)]
  BY <1>1, <1>2, <1>3, <1>4
<1>9. c = ChainOf[x]
  BY DEF c
<1>10. QED
  BY <1>1, <1>3, <1>4, <1>5, <1>6, <1>7, <1>8, <1>9

(* Chains only grow.                                                       *)
LogGrows ==
  \A c \in Chains :
    /\ Len(log[c]) <= Len(log'[c])
    /\ \A n \in 1 .. Len(log[c]) : log'[c][n] = log[c][n]

(* An append makes one chain longer, or drops its event.                   *)
LEMMA LoggedGrows ==
  ASSUME AuditTypeOK, NEW x \in Appenders, NEW type \in {"step", "receipt"}, NEW data \in Data,
         Logged(x, type, data)
  PROVE  LogGrows /\ log' \in [Chains -> Seq(Event)]
<1>0. \A c \in Chains : Len(log[c]) \in Nat
  BY LenProperties DEF AuditTypeOK
<1>1. CASE AppendEvent(x, type, data)
  BY <1>0, <1>1, AppendGives DEF LogGrows
<1>2. CASE UNCHANGED log
  BY <1>0, <1>2 DEF LogGrows, AuditTypeOK
<1>3. QED
  BY <1>1, <1>2 DEF Logged

(* Roots of a chain that has grown are those it had.                       *)
LEMMA TipsStay ==
  ASSUME LogGrows, NEW c \in Chains, NEW n \in Nat, n <= Len(log[c])
  PROVE  TipAt(log'[c], n) = TipAt(log[c], n)
BY DEF LogGrows, TipAt

-----------------------------------------------------------------------------
(* The invariant, part by part                                             *)

LogInv == LogIsChained /\ EventsAreTheirAppenders /\ EventsSayWhatTheyAre

(* An appender's last step, whether its event is dropped or not.           *)
LEMMA LoggedKeepsLog ==
  ASSUME AuditInv, NEW x \in Appenders, NEW type \in {"step", "receipt"}, NEW data \in Data,
         Logged(x, type, data), NEW from, from # "done", Goto(x, from, "done"),
         UNCHANGED auditRoot,
         \/ x \in Issuers /\ type = "receipt" /\ data = [receipt |-> x, root |-> auditRoot[x]]
         \/ x \in Writers /\ type = "step"
  PROVE  LogInv'
<1>0. /\ AuditTypeOK
      /\ \A c \in Chains : Len(log[c]) \in Nat
      /\ \A c \in Chains : \A n \in 1 .. Len(log[c]) : log[c][n] \in Event
  BY ElementOfSeq, LenProperties DEF AuditInv, AuditTypeOK
<1>1. \A y \in Appenders : pc[y] = "done" => pc'[y] = "done" /\ y # x
  BY <1>0 DEF Goto, AuditTypeOK
<1>2. pc'[x] = "done"
  BY <1>0 DEF Goto, AuditTypeOK
<1>3. CASE UNCHANGED log
  <2>1. \A c \in Chains : \A n \in 1 .. Len(log[c]) : log[c][n].id \in Appenders
    BY <1>0 DEF Event
  <2>2. LogIsChained'
    BY <1>3 DEF LogIsChained, AuditInv
  <2>3. EventsAreTheirAppenders'
    BY <1>1, <1>3, <2>1 DEF EventsAreTheirAppenders, AuditInv
  <2>4. EventsSayWhatTheyAre'
    BY <1>3 DEF EventsSayWhatTheyAre, AuditInv
  <2>5. QED
    BY <2>2, <2>3, <2>4 DEF LogInv
<1>4. CASE AppendEvent(x, type, data)
  <2>1. PICK c \in Chains, e \in Event :
          /\ c = ChainOf[x]
          /\ e.resource = c /\ e.sequence = Len(log[c]) + 1 /\ e.id = x
          /\ e.type = type /\ e.data = data
          /\ e.previous = TipAt(log[c], Len(log[c]))
          /\ e.hash = HashOf(e.id, e.previous)
          /\ Len(e.hash) = Len(e.previous) + 1
          /\ Len(log'[c]) = Len(log[c]) + 1
          /\ \A n \in 1 .. Len(log[c]) : log'[c][n] = log[c][n]
          /\ log'[c][Len(log[c]) + 1] = e
          /\ \A d \in Chains : d # c => log'[d] = log[d]
    BY <1>0, <1>4, AppendGives
  <2>2. \A n \in 1 .. Len(log'[c]) : n \in 1 .. Len(log[c]) \/ n = Len(log[c]) + 1
    BY <1>0, <2>1
  <2>3. Len(e.previous) = Len(log[c])
    <3>1. CASE Len(log[c]) = 0
      BY <2>1, <3>1, EmptySeq DEF TipAt, NoHash
    <3>2. CASE Len(log[c]) # 0
      BY <1>0, <2>1, <3>2 DEF TipAt, LogIsChained, AuditInv
    <3>3. QED
      BY <3>1, <3>2
  <2>4. LogIsChained'
    <3> SUFFICES ASSUME NEW d \in Chains, NEW n \in 1 .. Len(log'[d])
                 PROVE  /\ log'[d][n].sequence = n
                        /\ log'[d][n].resource = d
                        /\ log'[d][n].previous = TipAt(log'[d], n - 1)
                        /\ log'[d][n].hash = HashOf(log'[d][n].id, log'[d][n].previous)
                        /\ Len(log'[d][n].hash) = n
      BY DEF LogIsChained, TipAt
    <3>1. CASE d # c
      BY <2>1, <3>1 DEF LogIsChained, AuditInv
    <3>2. CASE d = c /\ n \in 1 .. Len(log[c])
      <4>1. n \in Nat /\ (n - 1 = 0 \/ n - 1 \in 1 .. Len(log[c]))
        BY <1>0, <3>2
      <4>2. TipAt(log'[c], n - 1) = TipAt(log[c], n - 1)
        BY <2>1, <4>1 DEF TipAt
      <4>3. log'[c][n] = log[c][n]
        BY <2>1, <3>2
      <4>4. QED
        BY <3>2, <4>2, <4>3 DEF LogIsChained, AuditInv
    <3>3. CASE d = c /\ n = Len(log[c]) + 1
      <4>1. TipAt(log'[c], n - 1) = TipAt(log[c], Len(log[c]))
        BY <1>0, <2>1, <3>3 DEF TipAt
      <4>2. QED
        BY <1>0, <2>1, <2>3, <3>3, <4>1
    <3>4. QED
      BY <2>2, <3>1, <3>2, <3>3
  <2>5. EventsAreTheirAppenders'
    <3>1. \A d \in Chains : \A n \in 1 .. Len(log[d]) :
            /\ ChainOf[log[d][n].id] = d
            /\ pc'[log[d][n].id] = "done"
            /\ log[d][n].id # x
            /\ \A m \in 1 .. Len(log[d]) : log[d][m].id = log[d][n].id => m = n
      BY <1>0, <1>1 DEF EventsAreTheirAppenders, AuditInv, Event
    <3> SUFFICES ASSUME NEW d \in Chains, NEW n \in 1 .. Len(log'[d])
                 PROVE  /\ ChainOf[log'[d][n].id] = d
                        /\ pc'[log'[d][n].id] = "done"
                        /\ \A m \in 1 .. Len(log'[d]) : log'[d][m].id = log'[d][n].id => m = n
      BY DEF EventsAreTheirAppenders
    <3>2. CASE d # c
      BY <2>1, <3>1, <3>2
    <3>3. /\ log'[c][Len(log[c]) + 1].id = x /\ ChainOf[x] = c
          /\ \A m \in 1 .. Len(log[c]) : log'[c][m].id = log[c][m].id
      BY <2>1
    <3>4. CASE d = c /\ n \in 1 .. Len(log[c])
      <4>1. log'[c][n].id = log[c][n].id /\ log[c][n].id # x
        BY <3>1, <3>3, <3>4
      <4>2. \A m \in 1 .. Len(log'[c]) : log'[c][m].id = log[c][n].id => m = n
        BY <2>2, <3>1, <3>3, <3>4, <4>1
      <4>3. QED
        BY <3>1, <3>4, <4>1, <4>2
    <3>5. CASE d = c /\ n = Len(log[c]) + 1
      <4>1. \A m \in 1 .. Len(log'[c]) : log'[c][m].id = x => m = Len(log[c]) + 1
        BY <2>2, <3>1, <3>3
      <4>2. QED
        BY <1>2, <3>3, <3>5, <4>1
    <3>6. QED
      BY <2>2, <3>2, <3>4, <3>5
  <2>6. EventsSayWhatTheyAre'
    <3> SUFFICES ASSUME NEW d \in Chains, NEW n \in 1 .. Len(log'[d])
                 PROVE  \/ /\ log'[d][n].id \in Issuers
                           /\ log'[d][n].type = "receipt"
                           /\ log'[d][n].data = [receipt |-> log'[d][n].id,
                                                 root |-> auditRoot[log'[d][n].id]]
                        \/ log'[d][n].id \in Writers /\ log'[d][n].type = "step"
      BY DEF EventsSayWhatTheyAre
    <3>1. CASE d # c
      BY <2>1, <3>1 DEF EventsSayWhatTheyAre, AuditInv
    <3>2. CASE d = c /\ n \in 1 .. Len(log[c])
      BY <2>1, <3>2 DEF EventsSayWhatTheyAre, AuditInv
    <3>3. CASE d = c /\ n = Len(log[c]) + 1
      BY <2>1, <3>3
    <3>4. QED
      BY <2>2, <3>1, <3>2, <3>3
  <2>7. QED
    BY <2>4, <2>5, <2>6 DEF LogInv
<1>5. QED
  BY <1>3, <1>4 DEF Logged

(* A step that leaves the log, the appenders that are done and the roots   *)
(* of their receipts alone.                                                *)
LEMMA OthersKeepLog ==
  ASSUME AuditInv, UNCHANGED log,
         \A y \in Appenders : pc[y] = "done" => pc'[y] = "done",
         \A y \in Issuers : pc[y] = "done" => auditRoot'[y] = auditRoot[y]
  PROVE  LogInv' /\ LogGrows /\ log' \in [Chains -> Seq(Event)]
<1>1. \A c \in Chains : Len(log[c]) \in Nat
  BY LenProperties DEF AuditInv, AuditTypeOK
<1>2. \A c \in Chains : \A n \in 1 .. Len(log[c]) :
        log[c][n].id \in Appenders /\ pc[log[c][n].id] = "done"
  <2>1. \A c \in Chains : \A n \in 1 .. Len(log[c]) : log[c][n] \in Event
    BY ElementOfSeq DEF AuditInv, AuditTypeOK
  <2>2. QED
    BY <2>1 DEF AuditInv, EventsAreTheirAppenders, Event
<1>3. LogIsChained'
  BY DEF LogIsChained, AuditInv
<1>4. EventsAreTheirAppenders'
  BY <1>2 DEF EventsAreTheirAppenders, AuditInv
<1>5. EventsSayWhatTheyAre'
  BY <1>2 DEF EventsSayWhatTheyAre, AuditInv
<1>6. LogGrows /\ log' \in [Chains -> Seq(Event)]
  BY <1>1 DEF LogGrows, AuditInv, AuditTypeOK
<1>7. QED
  BY <1>3, <1>4, <1>5, <1>6 DEF LogInv

(* Every step lets the log grow by chained events only.                    *)
LEMMA LogStep ==
  ASSUME AuditInv, [AuditNext]_auditVars
  PROVE  LogInv' /\ LogGrows /\ log' \in [Chains -> Seq(Event)]
<1>0. AuditTypeOK
  BY DEF AuditInv
<1>1. ASSUME NEW w \in Writers, Write(w)
      PROVE  LogInv' /\ LogGrows /\ log' \in [Chains -> Seq(Event)]
  <2>1. NoData \in Data
    BY DEF NoData, Data, NoHash, Hashes
  <2>2. Logged(w, "step", NoData) /\ Goto(w, "start", "done") /\ UNCHANGED auditRoot
    BY <1>1 DEF Write
  <2>3. w \in Appenders
    BY DEF Appenders
  <2>4. LogInv'
    BY <2>1, <2>2, <2>3, LoggedKeepsLog
  <2>5. QED
    BY <1>0, <2>1, <2>2, <2>3, <2>4, LoggedGrows
<1>2. ASSUME NEW i \in Issuers, IssueReceipt(i)
      PROVE  LogInv' /\ LogGrows /\ log' \in [Chains -> Seq(Event)]
  <2> DEFINE data == [receipt |-> i, root |-> auditRoot[i]]
  <2>1. data \in Data
    BY <1>0 DEF Data, AuditTypeOK
  <2>2. Logged(i, "receipt", data) /\ Goto(i, "issue", "done") /\ UNCHANGED auditRoot
    BY <1>2 DEF IssueReceipt
  <2>3. i \in Appenders
    BY DEF Appenders
  <2>4. data = [receipt |-> i, root |-> auditRoot[i]]
    OBVIOUS
  <2> HIDE DEF data
  <2>5. LogInv'
    BY <2>1, <2>2, <2>3, <2>4, LoggedKeepsLog
  <2>6. QED
    BY <1>0, <2>1, <2>2, <2>3, <2>5, LoggedGrows
<1>3. ASSUME UNCHANGED log,
             \A y \in Appenders : pc[y] = "done" => pc'[y] = "done",
             \A y \in Issuers : pc[y] = "done" => auditRoot'[y] = auditRoot[y]
      PROVE  LogInv' /\ LogGrows /\ log' \in [Chains -> Seq(Event)]
  BY <1>3, OthersKeepLog
<1> DEFINE Kept == /\ UNCHANGED log
                   /\ \A y \in Appenders : pc[y] = "done" => pc'[y] = "done"
                   /\ \A y \in Issuers : pc[y] = "done" => auditRoot'[y] = auditRoot[y]
<1> USE AuditConstants, <1>0 DEF AuditTypeOK, Goto
<1>4. ASSUME NEW i \in Issuers, ReadRoot(i) PROVE Kept
  BY <1>4 DEF ReadRoot, Appenders
<1>5. ASSUME NEW i \in Issuers, AbandonReceipt(i) PROVE Kept
  BY <1>5 DEF AbandonReceipt, Appenders
<1>6. ASSUME NEW r \in Readers, ListAudit(r) \/ RootAudit(r) PROVE Kept
  BY <1>6 DEF ListAudit, RootAudit, Appenders, Clients
<1>7. ASSUME NEW s \in Streams, Follow(s) \/ Break(s) PROVE Kept
  BY <1>7 DEF Follow, Open, Deliver, Close, Break, Appenders, Clients
<1>8. CASE UNCHANGED auditVars
  BY <1>8, <1>3 DEF auditVars
<1>9. QED
  BY <1>1, <1>2, <1>3, <1>4, <1>5, <1>6, <1>7, <1>8 DEF AuditNext

(* Every client is of a chain, and the length of what it has is a number.  *)
LEMMA Lengths ==
  ASSUME AuditTypeOK
  PROVE  /\ \A c \in Chains : log[c] \in Seq(Event) /\ Len(log[c]) \in Nat
         /\ \A x \in Appenders \cup Clients : ChainOf[x] \in Chains
         /\ \A r \in Readers : ChainOf[r] \in Chains /\ Len(listing[r]) \in Nat
         /\ \A s \in Streams : /\ ChainOf[s] \in Chains
                               /\ Len(received[s]) \in Nat
                               /\ Len(sending[s]) \in Nat
BY AuditConstants, LenProperties DEF AuditTypeOK, Clients, Appenders

(* What is a first part of a chain stays one as the chain grows.           *)
LEMMA BeginsStays ==
  ASSUME AuditTypeOK, LogGrows, log' \in [Chains -> Seq(Event)],
         NEW c \in Chains, NEW part \in Seq(Event), Begins(part, log[c])
  PROVE  Begins(part, log'[c])
<1>1. Len(part) \in Nat /\ Len(log[c]) \in Nat /\ Len(log'[c]) \in Nat
  BY LenProperties DEF AuditTypeOK
<1>2. QED
  BY <1>1 DEF Begins, LogGrows

(* The cursor of a stream is the number of events it has received.         *)
LEMMA CursorIsLength ==
  ASSUME AuditInv, NEW s \in Streams
  PROVE  LastEventID(s) = Len(received[s]) /\ LastEventID(s) \in 0 .. Len(log[ChainOf[s]])
<1>1. /\ received[s] \in Seq(Event) /\ Len(received[s]) \in Nat
      /\ ChainOf[s] \in Chains /\ Len(log[ChainOf[s]]) \in Nat
  BY Lengths DEF AuditInv, AuditTypeOK
<1>2. Begins(received[s], log[ChainOf[s]])
  BY DEF AuditInv, StreamsFollow
<1>3. received[s] = <<>> <=> Len(received[s]) = 0
  BY <1>1, EmptySeq
<1>4. received[s] # <<>> => received[s][Len(received[s])].sequence = Len(received[s])
  BY <1>1, <1>2, <1>3 DEF Begins, AuditInv, LogIsChained
<1>5. QED
  BY <1>1, <1>2, <1>3, <1>4 DEF LastEventID, NoEvents, Begins

(* The root an issuer read was the tip, and the chain has kept it.         *)
LEMMA RootsStep ==
  ASSUME AuditInv, [AuditNext]_auditVars
  PROVE  RootsWereTips'
<1>0. AuditTypeOK /\ LogGrows /\ \A i \in Issuers : ChainOf[i] \in Chains
  BY LogStep, Lengths DEF AuditInv, Appenders
<1>1. /\ \A c \in Chains : Len(log[c]) \in Nat /\ Len(log'[c]) \in Nat
      /\ \A i \in Issuers : covered[i] \in Nat
  BY LogStep, Lengths, LenProperties DEF AuditInv, AuditTypeOK
<1>2. ASSUME NEW i \in Issuers, pc[i] # "start", UNCHANGED <<auditRoot, covered>>
      PROVE  /\ covered'[i] <= Len(log'[ChainOf[i]])
             /\ auditRoot'[i] = TipAt(log'[ChainOf[i]], covered'[i])
  <2>1. covered[i] <= Len(log[ChainOf[i]]) /\ auditRoot[i] = TipAt(log[ChainOf[i]], covered[i])
    BY <1>2 DEF AuditInv, RootsWereTips
  <2>2. TipAt(log'[ChainOf[i]], covered[i]) = TipAt(log[ChainOf[i]], covered[i])
    BY <1>0, <1>1, <2>1, TipsStay
  <2>3. Len(log[ChainOf[i]]) <= Len(log'[ChainOf[i]])
    BY <1>0 DEF LogGrows
  <2>4. QED
    BY <1>0, <1>1, <1>2, <2>1, <2>2, <2>3
<1>3. ASSUME UNCHANGED <<auditRoot, covered>>,
             \A i \in Issuers : pc'[i] # "start" => pc[i] # "start"
      PROVE  RootsWereTips'
  BY <1>2, <1>3 DEF RootsWereTips, TipAt
<1> DEFINE Kept == /\ UNCHANGED <<auditRoot, covered>>
                   /\ \A i \in Issuers : pc'[i] # "start" => pc[i] # "start"
<1> USE AuditConstants, <1>0 DEF AuditTypeOK, Goto, Appenders, Clients
<1>4. ASSUME NEW i \in Issuers, ReadRoot(i) PROVE RootsWereTips'
  <2> SUFFICES ASSUME NEW j \in Issuers, pc'[j] # "start"
               PROVE  /\ covered'[j] <= Len(log'[ChainOf[j]])
                      /\ auditRoot'[j] = TipAt(log'[ChainOf[j]], covered'[j])
    BY DEF RootsWereTips, TipAt
  <2>1. UNCHANGED log
    BY <1>4 DEF ReadRoot
  <2>2. CASE j = i
    <3>1. covered'[i] = Len(log[ChainOf[i]]) /\ auditRoot'[i] = TipOf(log[ChainOf[i]])
      BY <1>4 DEF ReadRoot, Root
    <3>2. log[ChainOf[i]] \in Seq(Event)
      OBVIOUS
    <3>3. QED
      BY <1>1, <2>1, <2>2, <3>1, <3>2, RootIsTip
  <2>3. CASE j # i
    <3>1. pc[j] # "start" /\ covered'[j] = covered[j] /\ auditRoot'[j] = auditRoot[j]
      BY <1>4, <2>3 DEF ReadRoot
    <3>2. QED
      BY <2>1, <3>1 DEF AuditInv, RootsWereTips
  <2>4. QED
    BY <2>2, <2>3
<1>5. ASSUME NEW i \in Issuers, IssueReceipt(i) \/ AbandonReceipt(i) PROVE Kept
  BY <1>5 DEF IssueReceipt, AbandonReceipt
<1>6. ASSUME NEW w \in Writers, Write(w) PROVE Kept
  BY <1>6 DEF Write
<1>7. ASSUME NEW r \in Readers, ListAudit(r) \/ RootAudit(r) PROVE Kept
  BY <1>7 DEF ListAudit, RootAudit
<1>8. ASSUME NEW s \in Streams, Follow(s) \/ Break(s) PROVE Kept
  BY <1>8 DEF Follow, Open, Deliver, Close, Break
<1>9. CASE UNCHANGED auditVars
  BY <1>3, <1>9 DEF auditVars
<1>10. QED
  BY <1>3, <1>4, <1>5, <1>6, <1>7, <1>8, <1>9 DEF AuditNext

(* The second call of an audit request finds the listed chain or a longer. *)
LEMMA ReadersStep ==
  ASSUME AuditInv, [AuditNext]_auditVars
  PROVE  ReadersFollow'
<1>0. /\ AuditTypeOK /\ LogGrows /\ log' \in [Chains -> Seq(Event)]
      /\ \A r \in Readers : /\ ChainOf[r] \in Chains /\ listing[r] \in Seq(Event)
                            /\ Len(listing[r]) \in Nat
      /\ \A c \in Chains : log[c] \in Seq(Event) /\ Len(log[c]) \in Nat
  BY LogStep, Lengths DEF AuditInv, AuditTypeOK
<1>1. \A c \in Chains : Len(log'[c]) \in Nat
  BY <1>0, LenProperties
<1> DEFINE Follows(r) ==
             /\ Begins(listing[r], log[ChainOf[r]])
             /\ pc[r] = "done" => \E n \in Len(listing[r]) .. Len(log[ChainOf[r]]) :
                                    root[r] = TipAt(log[ChainOf[r]], n)
<1>2. \A r \in Readers : Follows(r)
  BY DEF AuditInv, ReadersFollow
<1>3. ASSUME NEW r \in Readers, listing'[r] = listing[r], root'[r] = root[r],
             pc'[r] = "done" => pc[r] = "done"
      PROVE  Follows(r)'
  <2>1. Begins(listing[r], log'[ChainOf[r]])
    BY <1>0, <1>2, BeginsStays
  <2>2. ASSUME pc'[r] = "done"
        PROVE  \E n \in Len(listing[r]) .. Len(log'[ChainOf[r]]) :
                 root[r] = TipAt(log'[ChainOf[r]], n)
    <3>1. PICK n \in Len(listing[r]) .. Len(log[ChainOf[r]]) : root[r] = TipAt(log[ChainOf[r]], n)
      BY <1>2, <1>3, <2>2
    <3>2. n \in Nat /\ n <= Len(log[ChainOf[r]])
      BY <1>0
    <3>3. TipAt(log'[ChainOf[r]], n) = TipAt(log[ChainOf[r]], n)
      BY <1>0, <3>2, TipsStay
    <3>4. n \in Len(listing[r]) .. Len(log'[ChainOf[r]])
      BY <1>0, <1>1, <3>2 DEF LogGrows
    <3>5. QED
      BY <3>1, <3>3, <3>4
  <2>3. QED
    BY <1>3, <2>1, <2>2 DEF Begins, TipAt
<1>4. ASSUME UNCHANGED <<listing, root>>, \A r \in Readers : pc'[r] = "done" => pc[r] = "done"
      PROVE  ReadersFollow'
  <2>1. \A r \in Readers : Follows(r)'
    BY <1>3, <1>4
  <2>2. QED
    BY <2>1 DEF ReadersFollow
<1> DEFINE Kept == /\ UNCHANGED <<listing, root>>
                   /\ \A r \in Readers : pc'[r] = "done" => pc[r] = "done"
<1>5. ASSUME NEW r \in Readers, ListAudit(r) PROVE ReadersFollow'
  <2>1. Follows(r)'
    <3>1. UNCHANGED log /\ listing'[r] = List(ChainOf[r], 0) /\ pc'[r] = "root"
      BY <1>0, <1>5 DEF ListAudit, Goto, AuditTypeOK, Clients
    <3>2. /\ Len(listing'[r]) = Len(log[ChainOf[r]])
          /\ \A n \in 1 .. Len(log[ChainOf[r]]) : listing'[r][n] = log[ChainOf[r]][0 + n]
      BY <1>0, <3>1, ListedEvents
    <3>3. Begins(listing'[r], log'[ChainOf[r]])
      BY <1>0, <3>1, <3>2 DEF Begins
    <3>4. QED
      BY <3>1, <3>3 DEF Begins
  <2>2. ASSUME NEW q \in Readers, q # r PROVE Follows(q)'
    <3>1. listing'[q] = listing[q] /\ root'[q] = root[q] /\ pc'[q] = pc[q]
      BY <1>0, <1>5, <2>2 DEF ListAudit, Goto, AuditTypeOK, Clients
    <3>2. QED
      BY <1>3, <3>1
  <2>3. QED
    BY <2>1, <2>2 DEF ReadersFollow
<1>6. ASSUME NEW r \in Readers, RootAudit(r) PROVE ReadersFollow'
  <2>1. Follows(r)'
    <3>1. UNCHANGED <<log, listing>> /\ root'[r] = TipOf(log[ChainOf[r]])
      BY <1>0, <1>6 DEF RootAudit, Root, AuditTypeOK
    <3>2. root'[r] = TipAt(log[ChainOf[r]], Len(log[ChainOf[r]]))
      BY <1>0, <3>1, RootIsTip
    <3>3. Begins(listing[r], log[ChainOf[r]])
      BY <1>2
    <3>4. Len(log[ChainOf[r]]) \in Len(listing[r]) .. Len(log[ChainOf[r]])
      BY <1>0, <3>3 DEF Begins
    <3>5. QED
      BY <3>1, <3>2, <3>3, <3>4 DEF Begins, TipAt
  <2>2. ASSUME NEW q \in Readers, q # r PROVE Follows(q)'
    <3>1. listing'[q] = listing[q] /\ root'[q] = root[q] /\ pc'[q] = pc[q]
      BY <1>0, <1>6, <2>2 DEF RootAudit, Goto, AuditTypeOK, Clients
    <3>2. QED
      BY <1>3, <3>1
  <2>3. QED
    BY <2>1, <2>2 DEF ReadersFollow
<1> USE AuditConstants, <1>0 DEF AuditTypeOK, Goto, Appenders, Clients
<1>7. ASSUME NEW i \in Issuers, ReadRoot(i) \/ IssueReceipt(i) \/ AbandonReceipt(i) PROVE Kept
  BY <1>7 DEF ReadRoot, IssueReceipt, AbandonReceipt
<1>8. ASSUME NEW w \in Writers, Write(w) PROVE Kept
  BY <1>8 DEF Write
<1>9. ASSUME NEW s \in Streams, Follow(s) \/ Break(s) PROVE Kept
  BY <1>9 DEF Follow, Open, Deliver, Close, Break
<1>10. CASE UNCHANGED auditVars
  BY <1>4, <1>10 DEF auditVars
<1>11. QED
  BY <1>4, <1>5, <1>6, <1>7, <1>8, <1>9, <1>10 DEF AuditNext

(* Positions of what is still to be sent.                                  *)
LEMMA Positions ==
  ASSUME NEW got \in Nat, NEW rest \in Nat
  PROVE  /\ \A end \in Nat : got + rest <= end => \A n \in 1 .. rest : got + n \in 1 .. end
         /\ \A end, later \in Nat : got + rest <= end /\ end <= later => got + rest <= later
         /\ \A n \in 1 .. rest - 1 : n + 1 \in 1 .. rest /\ got + (n + 1) = got + 1 + n
OBVIOUS

(* A connection sends what follows the events its client has, in order.    *)
LEMMA StreamsStep ==
  ASSUME AuditInv, [AuditNext]_auditVars
  PROVE  StreamsFollow'
<1>0. /\ AuditTypeOK /\ LogGrows /\ log' \in [Chains -> Seq(Event)]
      /\ \A s \in Streams : /\ ChainOf[s] \in Chains
                            /\ received[s] \in Seq(Event) /\ Len(received[s]) \in Nat
                            /\ sending[s] \in Seq(Event) /\ Len(sending[s]) \in Nat
      /\ \A c \in Chains : log[c] \in Seq(Event) /\ Len(log[c]) \in Nat
  BY LogStep, Lengths DEF AuditInv, AuditTypeOK
<1>1. \A c \in Chains : Len(log'[c]) \in Nat
  BY <1>0, LenProperties
<1> DEFINE Follows(s) ==
             /\ Begins(received[s], log[ChainOf[s]])
             /\ pc[s] = "sending" =>
                  /\ Len(received[s]) + Len(sending[s]) <= Len(log[ChainOf[s]])
                  /\ \A n \in 1 .. Len(sending[s]) :
                       sending[s][n] = log[ChainOf[s]][Len(received[s]) + n]
<1>2. \A s \in Streams : Follows(s)
  BY DEF AuditInv, StreamsFollow
<1>3. ASSUME NEW s \in Streams, received'[s] = received[s],
             pc'[s] = "sending" => pc[s] = "sending" /\ sending'[s] = sending[s]
      PROVE  Follows(s)'
  <2>1. Begins(received[s], log'[ChainOf[s]])
    BY <1>0, <1>2, BeginsStays
  <2>2. ASSUME pc'[s] = "sending"
        PROVE  /\ Len(received[s]) + Len(sending[s]) <= Len(log'[ChainOf[s]])
               /\ \A n \in 1 .. Len(sending[s]) :
                    sending[s][n] = log'[ChainOf[s]][Len(received[s]) + n]
    <3>1. /\ Len(received[s]) + Len(sending[s]) <= Len(log[ChainOf[s]])
          /\ \A n \in 1 .. Len(sending[s]) :
               sending[s][n] = log[ChainOf[s]][Len(received[s]) + n]
      BY <1>2, <1>3, <2>2
    <3>2. /\ Len(received[s]) \in Nat /\ Len(sending[s]) \in Nat
          /\ Len(log[ChainOf[s]]) \in Nat /\ Len(log'[ChainOf[s]]) \in Nat
          /\ Len(log[ChainOf[s]]) <= Len(log'[ChainOf[s]])
      BY <1>0, <1>1 DEF LogGrows
    <3>3. \A n \in 1 .. Len(sending[s]) : Len(received[s]) + n \in 1 .. Len(log[ChainOf[s]])
      <4>1. Len(received[s]) + Len(sending[s]) <= Len(log[ChainOf[s]])
        BY <3>1
      <4>2. QED
        BY <3>2, <4>1, Positions
    <3>4. \A m \in 1 .. Len(log[ChainOf[s]]) : log'[ChainOf[s]][m] = log[ChainOf[s]][m]
      BY <1>0 DEF LogGrows
    <3>5. \A n \in 1 .. Len(sending[s]) : sending[s][n] = log'[ChainOf[s]][Len(received[s]) + n]
      BY <3>1, <3>3, <3>4
    <3>6. Len(received[s]) + Len(sending[s]) <= Len(log'[ChainOf[s]])
      BY <3>1, <3>2, Positions
    <3>7. QED
      BY <3>5, <3>6
  <2>3. QED
    BY <1>3, <2>1, <2>2 DEF Begins
<1>4. ASSUME UNCHANGED <<received, sending>>,
             \A s \in Streams : pc'[s] = "sending" => pc[s] = "sending"
      PROVE  StreamsFollow'
  <2>1. \A s \in Streams : Follows(s)'
    BY <1>3, <1>4
  <2>2. QED
    BY <2>1 DEF StreamsFollow
<1> DEFINE Kept == /\ UNCHANGED <<received, sending>>
                   /\ \A s \in Streams : pc'[s] = "sending" => pc[s] = "sending"
<1>5. ASSUME NEW s \in Streams, Open(s) PROVE StreamsFollow'
  <2> DEFINE c == ChainOf[s]
             got == Len(received[s])
  <2>1. /\ UNCHANGED <<log, received>> /\ sending'[s] = List(c, LastEventID(s))
        /\ \A q \in Streams : q # s => pc'[q] = pc[q] /\ sending'[q] = sending[q]
    BY <1>0, <1>5 DEF Open, Goto, AuditTypeOK, Clients
  <2>2. LastEventID(s) = got /\ got \in 0 .. Len(log[c])
    BY CursorIsLength
  <2>3. /\ Len(sending'[s]) = Len(log[c]) - got
        /\ \A n \in 1 .. Len(log[c]) - got : sending'[s][n] = log[c][got + n]
    <3>1. c \in Chains /\ log[c] \in Seq(Event) /\ got \in 0 .. Len(log[c])
      BY <1>0, <2>2
    <3>2. sending'[s] = List(c, got)
      BY <2>1, <2>2
    <3> HIDE DEF c, got
    <3>3. QED
      BY <3>1, <3>2, ListedEvents
  <2>4. Follows(s)'
    <3>1. Len(log[c]) \in Nat /\ got \in Nat
      BY <1>0
    <3>2. Len(received'[s]) = got /\ log' = log
      BY <2>1
    <3>3. Begins(received'[s], log'[c])
      BY <1>2, <2>1
    <3>4. got + Len(sending'[s]) <= Len(log[c])
      BY <2>3, <3>1
    <3>5. \A n \in 1 .. Len(sending'[s]) : sending'[s][n] = log[c][got + n]
      BY <2>3
    <3>6. QED
      BY <3>2, <3>3, <3>4, <3>5 DEF Begins
  <2>5. \A q \in Streams : q # s => Follows(q)'
    BY <1>3, <2>1
  <2>6. QED
    BY <2>4, <2>5 DEF StreamsFollow
<1>6. ASSUME NEW s \in Streams, Deliver(s) PROVE StreamsFollow'
  <2> DEFINE c == ChainOf[s]
             got == received[s]
             rest == sending[s]
  <2>1. /\ UNCHANGED <<log, pc>> /\ pc[s] = "sending" /\ rest # <<>>
        /\ received'[s] = Append(got, Head(rest)) /\ sending'[s] = Tail(rest)
        /\ \A q \in Streams : q # s => received'[q] = received[q] /\ sending'[q] = sending[q]
    BY <1>0, <1>6 DEF Deliver, NoEvents, AuditTypeOK
  <2>2. /\ Len(got) + Len(rest) <= Len(log[c])
        /\ \A n \in 1 .. Len(rest) : rest[n] = log[c][Len(got) + n]
        /\ Begins(got, log[c])
    BY <1>2, <2>1
  <2>3. /\ Head(rest) \in Event /\ Len(Tail(rest)) = Len(rest) - 1
        /\ \A n \in 1 .. Len(Tail(rest)) : Tail(rest)[n] = rest[n + 1]
        /\ Len(rest) \in Nat \ {0} /\ Head(rest) = rest[1]
    BY <1>0, <2>1, HeadTailProperties, EmptySeq
  <2>4. /\ Len(Append(got, Head(rest))) = Len(got) + 1
        /\ \A n \in 1 .. Len(got) : Append(got, Head(rest))[n] = got[n]
        /\ Append(got, Head(rest))[Len(got) + 1] = Head(rest)
    BY <1>0, <2>3, AppendProperties
  <2>5. Len(got) \in Nat /\ Len(rest) \in Nat /\ Len(log[c]) \in Nat
    BY <1>0
  <2>6. Head(rest) = log[c][Len(got) + 1]
    BY <2>2, <2>3, <2>5
  <2>7. \A n \in 1 .. Len(Tail(rest)) : Tail(rest)[n] = log[c][Len(got) + 1 + n]
    <3> SUFFICES ASSUME NEW n \in 1 .. Len(Tail(rest))
                 PROVE  Tail(rest)[n] = log[c][Len(got) + 1 + n]
      OBVIOUS
    <3>1. n + 1 \in 1 .. Len(rest) /\ Len(got) + (n + 1) = Len(got) + 1 + n
      <4>1. Len(Tail(rest)) = Len(rest) - 1
        BY <2>3
      <4>2. n \in 1 .. Len(rest) - 1
        BY <4>1
      <4>3. QED
        BY <2>5, <4>2, Positions
    <3>2. QED
      BY <2>2, <2>3, <3>1
  <2> HIDE DEF c, got, rest
  <2>8. Begins(Append(got, Head(rest)), log[c])
    <3>1. \A n \in 1 .. Len(got) + 1 : n \in 1 .. Len(got) \/ n = Len(got) + 1
      BY <2>5
    <3>2. Len(got) + 1 <= Len(log[c])
      BY <2>2, <2>3, <2>5
    <3>3. QED
      BY <2>2, <2>4, <2>6, <3>1, <3>2 DEF Begins
  <2>9. Len(got) + 1 + Len(Tail(rest)) <= Len(log[c])
    BY <2>2, <2>3, <2>5
  <2>10. Follows(s)'
    BY <2>1, <2>4, <2>7, <2>8, <2>9 DEF Begins, c
  <2>11. \A q \in Streams : q # s => Follows(q)'
    BY <1>3, <2>1
  <2>12. QED
    BY <2>10, <2>11 DEF StreamsFollow
<1>7. ASSUME NEW s \in Streams, Close(s) \/ Break(s) PROVE StreamsFollow'
  <2>1. /\ UNCHANGED received /\ pc'[s] = "start"
        /\ \A q \in Streams : q # s => pc'[q] = pc[q] /\ sending'[q] = sending[q]
    BY <1>0, <1>7 DEF Close, Break, Goto, AuditTypeOK, Clients
  <2>2. \A q \in Streams : Follows(q)'
    BY <1>3, <2>1
  <2>3. QED
    BY <2>2 DEF StreamsFollow
<1> USE AuditConstants, <1>0 DEF AuditTypeOK, Goto, Appenders, Clients
<1>8. ASSUME NEW i \in Issuers, ReadRoot(i) \/ IssueReceipt(i) \/ AbandonReceipt(i) PROVE Kept
  BY <1>8 DEF ReadRoot, IssueReceipt, AbandonReceipt
<1>9. ASSUME NEW w \in Writers, Write(w) PROVE Kept
  BY <1>9 DEF Write
<1>10. ASSUME NEW r \in Readers, ListAudit(r) \/ RootAudit(r) PROVE Kept
  BY <1>10 DEF ListAudit, RootAudit
<1>11. CASE UNCHANGED auditVars
  BY <1>4, <1>11 DEF auditVars
<1>12. QED
  BY <1>4, <1>5, <1>6, <1>7, <1>8, <1>9, <1>10, <1>11 DEF AuditNext, Follow

(* Types are preserved.                                                    *)
LEMMA AuditTypeStep ==
  ASSUME AuditInv, [AuditNext]_auditVars
  PROVE  AuditTypeOK'
<1>0. AuditTypeOK /\ log' \in [Chains -> Seq(Event)]
  BY LogStep DEF AuditInv
<1>1. /\ \A x \in Appenders \cup Clients : ChainOf[x] \in Chains
      /\ \A c \in Chains : log[c] \in Seq(Event) /\ Len(log[c]) \in Nat
      /\ \A c \in Chains : Root(c) \in Hashes
  BY <1>0, Lengths, RootIsTip DEF Root
<1>2. pc' \in [Appenders \cup Clients ->
                {"start", "issue", "done", "abandoned", "root", "sending"}]
  BY <1>0 DEF AuditTypeOK, Goto, AuditNext, Write, ReadRoot, IssueReceipt, AbandonReceipt,
     ListAudit, RootAudit, Follow, Open, Deliver, Close, Break, auditVars
<1>3. auditRoot' \in [Issuers -> Hashes] /\ covered' \in [Issuers -> Nat]
  <2>1. ASSUME NEW i \in Issuers, ReadRoot(i)
        PROVE  auditRoot' \in [Issuers -> Hashes] /\ covered' \in [Issuers -> Nat]
    <3>1. ChainOf[i] \in Chains
      BY <1>1 DEF Appenders
    <3>2. Root(ChainOf[i]) \in Hashes /\ Len(log[ChainOf[i]]) \in Nat
      BY <1>1, <3>1
    <3>3. QED
      BY <1>0, <2>1, <3>2 DEF ReadRoot, AuditTypeOK
  <2>2. CASE UNCHANGED <<auditRoot, covered>>
    BY <1>0, <2>2 DEF AuditTypeOK
  <2>3. QED
    BY <2>1, <2>2 DEF AuditNext, Write, IssueReceipt, AbandonReceipt,
       ListAudit, RootAudit, Follow, Open, Deliver, Close, Break, auditVars
<1>4. listing' \in [Readers -> Seq(Event)] /\ root' \in [Readers -> Hashes]
  <2>1. ASSUME NEW r \in Readers, ListAudit(r) \/ RootAudit(r)
        PROVE  listing' \in [Readers -> Seq(Event)] /\ root' \in [Readers -> Hashes]
    <3>1. ChainOf[r] \in Chains /\ 0 \in 0 .. Len(log[ChainOf[r]])
      BY <1>1 DEF Clients
    <3>2. List(ChainOf[r], 0) \in Seq(Event) /\ Root(ChainOf[r]) \in Hashes
      BY <1>1, <3>1, ListedEvents
    <3>3. CASE ListAudit(r)
      BY <1>0, <3>2, <3>3 DEF ListAudit, AuditTypeOK
    <3>4. CASE RootAudit(r)
      BY <1>0, <3>2, <3>4 DEF RootAudit, AuditTypeOK
    <3>5. QED
      BY <2>1, <3>3, <3>4
  <2>2. CASE UNCHANGED <<listing, root>>
    BY <1>0, <2>2 DEF AuditTypeOK
  <2>3. QED
    BY <2>1, <2>2 DEF AuditNext, Write, ReadRoot, IssueReceipt, AbandonReceipt,
       Follow, Open, Deliver, Close, Break, auditVars
<1>5. received' \in [Streams -> Seq(Event)] /\ sending' \in [Streams -> Seq(Event)]
  <2>1. ASSUME NEW s \in Streams, Open(s)
        PROVE  received' \in [Streams -> Seq(Event)] /\ sending' \in [Streams -> Seq(Event)]
    <3>1. LastEventID(s) \in 0 .. Len(log[ChainOf[s]]) /\ ChainOf[s] \in Chains
      BY <1>1, CursorIsLength DEF Clients
    <3>2. List(ChainOf[s], LastEventID(s)) \in Seq(Event)
      BY <1>1, <3>1, ListedEvents
    <3>3. QED
      BY <1>0, <2>1, <3>2 DEF Open, AuditTypeOK
  <2>2. ASSUME NEW s \in Streams, Deliver(s)
        PROVE  received' \in [Streams -> Seq(Event)] /\ sending' \in [Streams -> Seq(Event)]
    <3>1. sending[s] \in Seq(Event) /\ sending[s] # <<>> /\ received[s] \in Seq(Event)
      BY <1>0, <2>2 DEF Deliver, NoEvents, AuditTypeOK
    <3>2. Append(received[s], Head(sending[s])) \in Seq(Event) /\ Tail(sending[s]) \in Seq(Event)
      BY <3>1, HeadTailProperties, AppendProperties
    <3>3. QED
      BY <1>0, <2>2, <3>2 DEF Deliver, AuditTypeOK
  <2>3. ASSUME NEW s \in Streams, Close(s) \/ Break(s)
        PROVE  received' \in [Streams -> Seq(Event)] /\ sending' \in [Streams -> Seq(Event)]
    <3>1. NoEvents \in Seq(Event)
      BY EmptySeq DEF NoEvents
    <3>2. QED
      BY <1>0, <2>3, <3>1 DEF Close, Break, AuditTypeOK
  <2>4. CASE UNCHANGED <<received, sending>>
    BY <1>0, <2>4 DEF AuditTypeOK
  <2>5. QED
    BY <2>1, <2>2, <2>3, <2>4 DEF AuditNext, Write, ReadRoot, IssueReceipt, AbandonReceipt,
       ListAudit, RootAudit, Follow, auditVars
<1>6. breaks' \in [Streams -> 0 .. MaxBreaks]
  <2>1. ASSUME NEW s \in Streams, Break(s) PROVE breaks' \in [Streams -> 0 .. MaxBreaks]
    <3>1. breaks[s] + 1 \in 0 .. MaxBreaks
      BY <1>0, <2>1, AuditConstants DEF Break, AuditTypeOK
    <3>2. QED
      BY <1>0, <2>1, <3>1 DEF Break, AuditTypeOK
  <2>2. CASE UNCHANGED breaks
    BY <1>0, <2>2 DEF AuditTypeOK
  <2>3. QED
    BY <2>1, <2>2 DEF AuditNext, Write, ReadRoot, IssueReceipt, AbandonReceipt,
       ListAudit, RootAudit, Follow, Open, Deliver, Close, auditVars
<1>7. QED
  BY <1>0, <1>2, <1>3, <1>4, <1>5, <1>6 DEF AuditTypeOK

(* AuditInv is inductive.                                                  *)
LEMMA AuditInvStep ==
  ASSUME AuditInv, [AuditNext]_auditVars
  PROVE  AuditInv'
BY AuditTypeStep, LogStep, RootsStep, ReadersStep, StreamsStep DEF AuditInv, LogInv

(* The invariant always holds.                                             *)
LEMMA AuditInductive == AuditSpec => []AuditInv
BY AuditInitially, AuditInvStep, PTL DEF AuditSpec

-----------------------------------------------------------------------------
(* The theorems                                                            *)

(* Every first part of a chain passes Verify.                              *)
LEMMA PartsVerify ==
  ASSUME AuditInv, NEW c \in Chains, NEW part \in Seq(Event), Begins(part, log[c])
  PROVE  Verify(part)
<1>1. DOMAIN part = 1 .. Len(part) /\ Len(part) \in Nat /\ Len(log[c]) \in Nat
  BY LenProperties DEF AuditInv, AuditTypeOK
<1>2. \A n \in 1 .. Len(part) : n \in 1 .. Len(log[c]) /\ part[n] = log[c][n]
  BY <1>1 DEF Begins
<1>3. \A n \in 1 .. Len(part) : n # 1 => n - 1 \in 1 .. Len(part)
  BY <1>1
<1>4. \A n \in 1 .. Len(part) : n - 1 = 0 <=> n = 1
  BY <1>1
<1>5. ASSUME NEW n \in 1 .. Len(part)
      PROVE  /\ part[n].sequence = n
             /\ part[n].resource = part[1].resource
             /\ part[n].previous = IF n = 1 THEN NoHash ELSE part[n - 1].hash
             /\ part[n].hash = HashOf(part[n].id, part[n].previous)
  <2>1. /\ part[n].sequence = n /\ part[n].resource = c
        /\ part[n].previous = TipAt(log[c], n - 1)
        /\ part[n].hash = HashOf(part[n].id, part[n].previous)
    BY <1>2 DEF AuditInv, LogIsChained
  <2>2. part[1].resource = c
    <3>1. 1 \in 1 .. Len(part)
      BY <1>1
    <3>2. QED
      BY <1>2, <3>1 DEF AuditInv, LogIsChained
  <2>3. TipAt(log[c], n - 1) = IF n = 1 THEN NoHash ELSE part[n - 1].hash
    BY <1>2, <1>3, <1>4 DEF TipAt
  <2>4. QED
    BY <2>1, <2>2, <2>3
<1>6. QED
  BY <1>1, <1>5 DEF Verify

(* Chains, listings, cursors and roots keep their types.                   *)
THEOREM AuditTypeCorrect == AuditSpec => []AuditTypeOK
<1>1. AuditInv => AuditTypeOK
  BY DEF AuditInv
<1>2. QED
  BY AuditInductive, <1>1, PTL

(* Append numbers and links the event it signs under one lock: every chain *)
(* passes Verify, the events dropped for want of a signature included.     *)
THEOREM ChainsVerify == AuditSpec => []ChainVerifies
<1>1. AuditInv => ChainVerifies
  <2> SUFFICES ASSUME AuditInv, NEW c \in Chains PROVE Verify(log[c])
    BY DEF ChainVerifies
  <2>1. log[c] \in Seq(Event) /\ Len(log[c]) \in Nat
    BY LenProperties DEF AuditInv, AuditTypeOK
  <2>2. Begins(log[c], log[c])
    BY <2>1 DEF Begins
  <2>3. QED
    BY <2>1, <2>2, PartsVerify
<1>2. QED
  BY AuditInductive, <1>1, PTL

(* handleAudit lists and reads the root under two locks: it answers a      *)
(* first part that verifies and the root of that part or a longer one.     *)
THEOREM ListingsAreCovered == AuditSpec => []ListingIsCovered
<1>1. AuditInv => ListingIsCovered
  <2> SUFFICES ASSUME AuditInv, NEW r \in Readers, pc[r] = "done"
               PROVE  /\ Verify(listing[r])
                      /\ IsPrefix(listing[r], log[ChainOf[r]])
                      /\ \E n \in Len(listing[r]) .. Len(log[ChainOf[r]]) :
                           root[r] = TipOf(SubSeq(log[ChainOf[r]], 1, n))
    BY DEF ListingIsCovered
  <2>1. /\ ChainOf[r] \in Chains /\ listing[r] \in Seq(Event) /\ log[ChainOf[r]] \in Seq(Event)
        /\ Len(listing[r]) \in Nat
    BY Lengths DEF AuditInv, AuditTypeOK
  <2>2. Begins(listing[r], log[ChainOf[r]])
    BY DEF AuditInv, ReadersFollow
  <2>3. PICK n \in Len(listing[r]) .. Len(log[ChainOf[r]]) : root[r] = TipAt(log[ChainOf[r]], n)
    BY DEF AuditInv, ReadersFollow
  <2>4. n \in 0 .. Len(log[ChainOf[r]])
    BY <2>1
  <2>5. root[r] = TipOf(SubSeq(log[ChainOf[r]], 1, n))
    BY <2>1, <2>3, <2>4, TipOfFirstEvents
  <2>6. QED
    BY <2>1, <2>2, <2>3, <2>5, PartsVerify, BeginsIsPrefix
<1>2. QED
  BY AuditInductive, <1>1, PTL

(* handleEvents resumes after Last-Event-ID: what a client puts together   *)
(* over connections that break has no gap and no repetition.               *)
THEOREM StreamsAreParts == AuditSpec => []StreamIsAPrefix
<1>1. AuditInv => StreamIsAPrefix
  <2> SUFFICES ASSUME AuditInv, NEW s \in Streams
               PROVE  IsPrefix(received[s], log[ChainOf[s]]) /\ Verify(received[s])
    BY DEF StreamIsAPrefix
  <2>1. ChainOf[s] \in Chains /\ received[s] \in Seq(Event) /\ log[ChainOf[s]] \in Seq(Event)
    BY Lengths DEF AuditInv, AuditTypeOK
  <2>2. Begins(received[s], log[ChainOf[s]])
    BY DEF AuditInv, StreamsFollow
  <2>3. QED
    BY <2>1, <2>2, PartsVerify, BeginsIsPrefix
<1>2. QED
  BY AuditInductive, <1>1, PTL

(* Two roots of a chain are equal when it had as many events.              *)
LEMMA TipsDiffer ==
  ASSUME AuditInv, NEW c \in Chains, NEW m \in 0 .. Len(log[c]), NEW n \in 0 .. Len(log[c]),
         TipAt(log[c], m) = TipAt(log[c], n)
  PROVE  m = n
<1>0. Len(log[c]) \in Nat
  BY Lengths DEF AuditInv
<1>1. ASSUME NEW k \in 0 .. Len(log[c]) PROVE Len(TipAt(log[c], k)) = k
  <2>1. CASE k = 0
    BY <2>1, EmptySeq DEF TipAt, NoHash
  <2>2. CASE k # 0
    <3>1. k \in 1 .. Len(log[c])
      BY <1>0, <2>2
    <3>2. QED
      BY <2>2, <3>1 DEF TipAt, AuditInv, LogIsChained
  <2>3. QED
    BY <2>1, <2>2
<1>2. QED
  BY <1>1

(* verifyReceiptAnchor accepts a receipt exactly when no event came        *)
(* between the root attachReceipt read and the event that announces it.    *)
THEOREM AnchorsAreExact == AuditSpec => []AnchorIsExact
<1>1. AuditInv => AnchorIsExact
  <2> SUFFICES ASSUME AuditInv, NEW r \in Readers, NEW i \in Issuers, ChainOf[r] = ChainOf[i]
               PROVE  VerifyReceiptAnchor(listing[r], i) <=>
                        \E n \in DOMAIN listing[r] :
                          listing[r][n].id = i /\ n = covered[i] + 1
    BY DEF AnchorIsExact
  <2> DEFINE part == listing[r]
             c == ChainOf[r]
  <2>1. /\ c \in Chains /\ part \in Seq(Event) /\ DOMAIN part = 1 .. Len(part)
        /\ Len(part) \in Nat /\ Len(log[c]) \in Nat /\ covered[i] \in Nat
    BY Lengths, LenProperties DEF AuditInv, AuditTypeOK
  <2>2. Begins(part, log[c])
    BY DEF AuditInv, ReadersFollow
  <2>3. \A n \in 1 .. Len(part) : n \in 1 .. Len(log[c]) /\ part[n] = log[c][n]
    BY <2>1, <2>2 DEF Begins
  <2>4. ChainOf[i] = c
    OBVIOUS
  <2> HIDE DEF part, c
  <2>5. ASSUME NEW n \in 1 .. Len(part)
        PROVE  /\ Announces(part[n], i) <=> part[n].id = i
               /\ part[n].id = i => /\ part[n].data.root = auditRoot[i]
                                    /\ part[n].previous = auditRoot[i] <=> n = covered[i] + 1
                                    /\ \A m \in 1 .. n - 1 : part[m].id # i
    <3>1. \/ /\ part[n].id \in Issuers /\ part[n].type = "receipt"
             /\ part[n].data = [receipt |-> part[n].id, root |-> auditRoot[part[n].id]]
          \/ part[n].id \in Writers /\ part[n].type = "step"
      BY <2>1, <2>3 DEF AuditInv, EventsSayWhatTheyAre
    <3>2. i \notin Writers
      BY AuditConstants
    <3>3. Announces(part[n], i) <=> part[n].id = i
      BY <3>1, <3>2 DEF Announces
    <3>4. ASSUME part[n].id = i
          PROVE  /\ part[n].data.root = auditRoot[i]
                 /\ part[n].previous = auditRoot[i] <=> n = covered[i] + 1
                 /\ \A m \in 1 .. n - 1 : part[m].id # i
      <4>1. part[n].data.root = auditRoot[i]
        BY <3>1, <3>2, <3>4
      <4>2. pc[i] = "done" /\ \A m \in 1 .. Len(log[c]) : log[c][m].id = i => m = n
        BY <2>1, <2>3, <3>4 DEF AuditInv, EventsAreTheirAppenders
      <4>3. covered[i] <= Len(log[c]) /\ auditRoot[i] = TipAt(log[c], covered[i])
        BY <2>4, <4>2 DEF AuditInv, RootsWereTips
      <4>4. part[n].previous = TipAt(log[c], n - 1)
        BY <2>1, <2>3 DEF AuditInv, LogIsChained
      <4>5. n \in Nat /\ n - 1 \in 0 .. Len(log[c]) /\ covered[i] \in 0 .. Len(log[c])
        <5>1. n \in 1 .. Len(log[c])
          BY <2>3
        <5>2. QED
          BY <2>1, <4>3, <5>1
      <4>6. part[n].previous = auditRoot[i] => n - 1 = covered[i]
        BY <2>1, <4>3, <4>4, <4>5, TipsDiffer
      <4>7. part[n].previous = auditRoot[i] <=> n = covered[i] + 1
        <5>1. n - 1 = covered[i] <=> n = covered[i] + 1
          BY <2>1, <4>5
        <5>2. QED
          BY <4>3, <4>4, <4>6, <5>1
      <4>8. ASSUME NEW m \in 1 .. n - 1 PROVE part[m].id # i
        <5>1. m \in 1 .. Len(part) /\ m # n
          BY <2>1, <4>5
        <5>2. QED
          BY <2>3, <4>2, <5>1
      <4>9. QED
        BY <4>1, <4>7, <4>8
    <3>5. QED
      BY <3>3, <3>4
  <2>6. \A n \in 1 .. Len(part) : \A m \in 1 .. n - 1 : m \in 1 .. Len(part)
    BY <2>1
  <2>7. VerifyReceiptAnchor(part, i) <=>
          \E n \in 1 .. Len(part) : part[n].id = i /\ n = covered[i] + 1
    BY <2>1, <2>5, <2>6 DEF VerifyReceiptAnchor
  <2>8. QED
    BY <2>1, <2>7 DEF part
<1>2. QED
  BY AuditInductive, <1>1, PTL

-----------------------------------------------------------------------------
(* The refinement                                                          *)

(* What each client has of its chain.                                      *)
Views == [x \in Clients |-> IF x \in Readers THEN listing[x] ELSE received[x]]

(* The empty log is an empty ledger, with empty copies.                    *)
LEMMA LedgerInitially ==
  ASSUME AuditInit
  PROVE  Ledger!LedgerInit
BY AuditConstants DEF AuditInit, Ledger!LedgerInit, NoEvents, Clients

(* An append extends a book by a page linked to its last one.              *)
LEMMA AppendExtends ==
  ASSUME AuditTypeOK, NEW x \in Appenders, NEW type \in {"step", "receipt"}, NEW data \in Data,
         AppendEvent(x, type, data), UNCHANGED <<listing, received>>
  PROVE  Ledger!LedgerNext
<1>1. PICK c \in Chains, e \in Event :
        /\ e.previous = TipAt(log[c], Len(log[c]))
        /\ log' = [log EXCEPT ![c] = Append(log[c], e)]
        /\ Len(log'[c]) = Len(log[c]) + 1
        /\ log'[c][Len(log[c]) + 1] = e
  BY AppendGives
<1>2. TipOf(log[c]) = TipAt(log[c], Len(log[c]))
  BY RootIsTip DEF AuditTypeOK
<1>3. e.previous = Ledger!LastTip(log[c])
  BY <1>1, <1>2 DEF Ledger!LastTip, TipOf, NoEvents
<1>4. Ledger!Extend(c)
  BY <1>1, <1>3 DEF Ledger!Extend
<1>5. QED
  BY <1>4 DEF Ledger!LedgerNext

(* A client that comes to have the first n events of its chain copies.     *)
LEMMA ViewCopies ==
  ASSUME NEW o \in Clients, UNCHANGED log,
         NEW n \in Len(Views[o]) .. Len(log[ChainOf[o]]),
         Views' = [Views EXCEPT ![o] = SubSeq(log[ChainOf[o]], 1, n)]
  PROVE  Ledger!LedgerNext
<1>1. Ledger!Copied(o)
  BY DEF Ledger!Copied, Views
<1>2. QED
  BY <1>1 DEF Ledger!LedgerNext

(* A step of the log is an extension, a copy, or none of the ledger's.     *)
LEMMA LedgerStep ==
  ASSUME AuditInv, AuditInv', [AuditNext]_auditVars
  PROVE  [Ledger!LedgerNext]_Ledger!ledgerVars
<1>0. /\ AuditTypeOK /\ AuditTypeOK'
      /\ \A x \in Appenders \cup Clients : ChainOf[x] \in Chains
  BY Lengths DEF AuditInv
<1>1. ASSUME NEW x \in Appenders, NEW type \in {"step", "receipt"}, NEW data \in Data,
             Logged(x, type, data), UNCHANGED <<listing, received>>
      PROVE  [Ledger!LedgerNext]_Ledger!ledgerVars
  <2>1. CASE AppendEvent(x, type, data)
    BY <1>0, <1>1, <2>1, AppendExtends
  <2>2. CASE UNCHANGED log
    BY <1>1, <2>2 DEF Ledger!ledgerVars
  <2>3. QED
    BY <1>1, <2>1, <2>2 DEF Logged
<1>2. ASSUME NEW w \in Writers, Write(w) PROVE [Ledger!LedgerNext]_Ledger!ledgerVars
  <2>1. NoData \in Data /\ w \in Appenders
    BY DEF NoData, Data, NoHash, Hashes, Appenders
  <2>2. Logged(w, "step", NoData) /\ UNCHANGED <<listing, received>>
    BY <1>2 DEF Write
  <2>3. QED
    BY <1>1, <2>1, <2>2
<1>3. ASSUME NEW i \in Issuers, IssueReceipt(i) PROVE [Ledger!LedgerNext]_Ledger!ledgerVars
  <2> DEFINE data == [receipt |-> i, root |-> auditRoot[i]]
  <2>1. data \in Data /\ i \in Appenders
    BY <1>0 DEF Data, AuditTypeOK, Appenders
  <2>2. Logged(i, "receipt", data) /\ UNCHANGED <<listing, received>>
    BY <1>3 DEF IssueReceipt
  <2> HIDE DEF data
  <2>3. QED
    BY <1>1, <2>1, <2>2
<1>4. ASSUME UNCHANGED <<log, listing, received>> PROVE [Ledger!LedgerNext]_Ledger!ledgerVars
  BY <1>4 DEF Ledger!ledgerVars
<1>5. ASSUME NEW r \in Readers, ListAudit(r) PROVE [Ledger!LedgerNext]_Ledger!ledgerVars
  <2> DEFINE c == ChainOf[r]
  <2>1. /\ UNCHANGED <<log, received>>
        /\ listing' = [listing EXCEPT ![r] = SubSeq(log[c], 1, Len(log[c]))]
    BY <1>5 DEF ListAudit, List
  <2>2. r \in Clients /\ Views[r] = listing[r]
    BY DEF Clients, Views
  <2>3. Views' = [Views EXCEPT ![r] = SubSeq(log[c], 1, Len(log[c]))]
    BY <1>0, <2>1, <2>2, AuditConstants DEF Views, AuditTypeOK
  <2>4. Len(log[c]) \in Len(Views[r]) .. Len(log[c])
    <3>1. Len(listing[r]) <= Len(log[c])
      BY DEF AuditInv, ReadersFollow, Begins
    <3>2. Len(log[c]) \in Nat /\ Len(listing[r]) \in Nat
      BY <1>0, Lengths
    <3>3. QED
      BY <2>2, <3>1, <3>2
  <2>5. QED
    BY <2>1, <2>2, <2>3, <2>4, ViewCopies
<1>6. ASSUME NEW s \in Streams, Deliver(s) PROVE [Ledger!LedgerNext]_Ledger!ledgerVars
  <2> DEFINE c == ChainOf[s]
             new == received'[s]
  <2>1. /\ UNCHANGED <<log, listing>>
        /\ received' = [received EXCEPT ![s] = Append(received[s], Head(sending[s]))]
        /\ sending[s] # <<>>
    BY <1>6 DEF Deliver, NoEvents
  <2>2. /\ c \in Chains /\ log[c] \in Seq(Event) /\ Len(log[c]) \in Nat
        /\ received[s] \in Seq(Event) /\ Len(received[s]) \in Nat
        /\ new \in Seq(Event) /\ Len(new) \in Nat
    BY <1>0, Lengths, LenProperties DEF AuditTypeOK, Clients
  <2>3. new = Append(received[s], Head(sending[s])) /\ received' = [received EXCEPT ![s] = new]
    BY <1>0, <2>1 DEF AuditTypeOK
  <2>4. Begins(new, log[c])
    <3>1. StreamsFollow'
      BY DEF AuditInv
    <3>2. UNCHANGED log
      BY <2>1
    <3>3. QED
      BY <3>1, <3>2 DEF StreamsFollow, Begins
  <2>5. new = SubSeq(log[c], 1, Len(new)) /\ Len(new) <= Len(log[c])
    BY <2>2, <2>4, BeginsIsPrefix DEF IsPrefix
  <2>6. Len(new) = Len(received[s]) + 1
    <3>1. sending[s] \in Seq(Event)
      BY <1>0 DEF AuditTypeOK
    <3>2. Head(sending[s]) \in Event
      BY <2>1, <3>1, HeadTailProperties
    <3>3. QED
      BY <2>2, <2>3, <3>2, AppendProperties
  <2>7. s \in Clients /\ s \notin Readers /\ Views[s] = received[s]
    BY AuditConstants DEF Clients, Views
  <2>8. Len(new) \in Len(Views[s]) .. Len(log[c])
    BY <2>2, <2>5, <2>6, <2>7
  <2> HIDE DEF c, new
  <2>9. Views' = [Views EXCEPT ![s] = new]
    <3>1. \A x \in Clients : x \in Readers \/ x \in Streams
      BY DEF Clients
    <3>2. received \in [Streams -> Seq(Event)] /\ listing' = listing
      BY <1>0, <2>1 DEF AuditTypeOK
    <3>3. \A x \in Clients :
            (IF x \in Readers THEN listing'[x] ELSE received'[x]) =
            IF x = s THEN new ELSE Views[x]
      BY <2>3, <2>7, <3>1, <3>2 DEF Views
    <3>4. Views' = [x \in Clients |-> IF x = s THEN new ELSE Views[x]]
      BY <3>3 DEF Views
    <3>5. DOMAIN Views = Clients
      BY DEF Views
    <3>6. QED
      BY <3>4, <3>5
  <2>10. Views' = [Views EXCEPT ![s] = SubSeq(log[c], 1, Len(new))]
    BY <2>5, <2>9
  <2>11. QED
    BY <2>1, <2>7, <2>8, <2>10, ViewCopies DEF c
<1>7. ASSUME NEW s \in Streams, Open(s) \/ Close(s) \/ Break(s)
      PROVE  UNCHANGED <<log, listing, received>>
  BY <1>7 DEF Open, Close, Break
<1>8. ASSUME NEW i \in Issuers, ReadRoot(i) \/ AbandonReceipt(i)
      PROVE  UNCHANGED <<log, listing, received>>
  BY <1>8 DEF ReadRoot, AbandonReceipt
<1>9. ASSUME NEW r \in Readers, RootAudit(r) PROVE UNCHANGED <<log, listing, received>>
  BY <1>9 DEF RootAudit
<1>10. CASE UNCHANGED auditVars
  BY <1>4, <1>10 DEF auditVars
<1>11. QED
  BY <1>2, <1>3, <1>4, <1>5, <1>6, <1>7, <1>8, <1>9, <1>10 DEF AuditNext, Follow

(* The log and its clients implement the append-only ledger: nothing       *)
(* stored is changed, and no client sees but a growing first part of it.   *)
THEOREM AuditImplementsLedger == AuditSpec => ImplementsLedger
<1>1. AuditInit => Ledger!LedgerInit
  BY LedgerInitially
<1>2. AuditInv /\ AuditInv' /\ [AuditNext]_auditVars => [Ledger!LedgerNext]_Ledger!ledgerVars
  BY LedgerStep
<1>3. QED
  BY <1>1, <1>2, AuditInductive, PTL DEF AuditSpec, ImplementsLedger, Ledger!LedgerSpec

=============================================================================
