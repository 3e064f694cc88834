------------------------------ MODULE AuditLog ------------------------------
(***************************************************************************)
(* pkg/audit/log.go and its users: the handlers that append events, the    *)
(* two that issue a receipt over the chain's root, GET .../audit, and the  *)
(* event stream a client resumes with Last-Event-ID.                       *)
(*                                                                         *)
(* Every operation of Log holds its mutex, so each is one step here, and   *)
(* everything a handler does between two of them is another actor's turn.  *)
(* A hash is the sequence of the IDs of the events it was computed over:   *)
(* SHA-256 is taken to be injective and IDs unique.  Signatures and data   *)
(* digests, which only tampering with a stored event invalidates, are      *)
(* left out.                                                               *)
(***************************************************************************)
EXTENDS Integers, Sequences

CONSTANTS
  Chains,       \* resource IDs
  Writers,      \* appendAudit calls
  Issuers,      \* receipts: attachReceipt and the end of executeDirect
  Readers,      \* GET audit requests
  Streams,      \* clients that follow the event stream of a task
  ChainOf,      \* the chain each of them uses
  NoReceipt,    \* the receipt_id of the data of an ordinary event
  SignerFaults, \* writers and issuers whose event may not be signed
  MaxBreaks     \* broken connections of each stream (a bound)

Appenders == Writers \cup Issuers
Clients == Readers \cup Streams

ASSUME AuditConstants ==
  /\ ChainOf \in [Appenders \cup Clients -> Chains]
  /\ NoReceipt \notin Issuers
  /\ Writers \cap Issuers = {}
  /\ Readers \cap Streams = {}
  /\ Appenders \cap Clients = {}
  /\ SignerFaults \subseteq Appenders
  /\ MaxBreaks \in Nat

VARIABLES
  log,          \* Log.events
  pc,           \* the next call of each writer, issuer, reader and stream
  auditRoot,    \* Receipt.AuditRoot of each receipt
  covered,      \* how many events the chain had when that root was read (history)
  listing,      \* the events each audit request was answered, or holds so far
  root,         \* the root each audit request was answered
  received,     \* the events each stream's client has received, in order
  sending,      \* what the handler of each stream's request still has to send
  breaks        \* connections of each stream that broke

auditVars == <<log, pc, auditRoot, covered, listing, root, received, sending, breaks>>

NoHash == <<>>      \* "", the root of a new chain
NoEvents == <<>>

Hashes == Seq(Appenders)

NoData == [receipt |-> NoReceipt, root |-> NoHash]

(* The event ID is the name of the call that appends the event.            *)
Event == [resource : Chains, sequence : Nat \ {0}, id : Appenders,
          type : {"step", "receipt"},
          data : [receipt : Issuers \cup {NoReceipt}, root : Hashes],
          previous : Hashes, hash : Hashes]

AuditInit ==
  /\ log = [c \in Chains |-> NoEvents]
  /\ pc = [x \in Appenders \cup Clients |-> "start"]
  /\ auditRoot = [i \in Issuers |-> NoHash]
  /\ covered = [i \in Issuers |-> 0]
  /\ listing = [r \in Readers |-> NoEvents]
  /\ root = [r \in Readers |-> NoHash]
  /\ received = [s \in Streams |-> NoEvents]
  /\ sending = [s \in Streams |-> NoEvents]
  /\ breaks = [s \in Streams |-> 0]

Goto(x, from, to) ==
  /\ pc[x] = from
  /\ pc' = [pc EXCEPT ![x] = to]

-----------------------------------------------------------------------------
(* Log                                                                     *)

(* Mutant: the hash of the first event is linked to, not that of the last. *)
TipOfFirst(events) == IF events = NoEvents THEN NoHash ELSE events[1].hash

(* The hash of the last event: the next one's PreviousHash, and the Root.  *)
TipOf(events) == IF events = NoEvents THEN NoHash ELSE events[Len(events)].hash

Root(c) == TipOf(log[c])

HashOf(id, previous) == Append(previous, id)

NewEvent(x, type, data) ==
  LET c == ChainOf[x] IN
    [resource |-> c, sequence |-> Len(log[c]) + 1, id |-> x, type |-> type,
     data |-> data, previous |-> Root(c), hash |-> HashOf(x, Root(c))]

(* Mutant: the newest event replaces the one before it.                    *)
AppendInPlace(x, type, data) ==
  LET c == ChainOf[x] IN
    log' = [log EXCEPT ![c] = Append(SubSeq(@, 1, Len(@) - 1), NewEvent(x, type, data))]

AppendEvent(x, type, data) ==
  log' = [log EXCEPT ![ChainOf[x]] = Append(@, NewEvent(x, type, data))]

(* Mutant: an event is skipped after a cursor.                             *)
ListSkips(c, after) ==
  SubSeq(log[c], IF after = 0 THEN 1 ELSE after + 2, Len(log[c]))

(* The events whose sequence is greater: a sequence is a position.         *)
List(c, after) == SubSeq(log[c], after + 1, Len(log[c]))

-----------------------------------------------------------------------------
(* appendAudit and the issue of receipts                                   *)

(* An event that cannot be signed is dropped, and its handler goes on.     *)
Logged(x, type, data) ==
  \/ AppendEvent(x, type, data)
  \/ x \in SignerFaults /\ UNCHANGED log

Write(w) ==
  /\ Goto(w, "start", "done")
  /\ Logged(w, "step", NoData)
  /\ UNCHANGED <<auditRoot, covered, listing, root, received, sending, breaks>>

ReadRoot(i) ==
  /\ Goto(i, "start", "issue")
  /\ auditRoot' = [auditRoot EXCEPT ![i] = Root(ChainOf[i])]
  /\ covered' = [covered EXCEPT ![i] = Len(log[ChainOf[i]])]
  /\ UNCHANGED <<log, listing, root, received, sending, breaks>>

(* The receipt is signed and stored; its event repeats its root.           *)
IssueReceipt(i) ==
  /\ Goto(i, "issue", "done")
  /\ Logged(i, "receipt", [receipt |-> i, root |-> auditRoot[i]])
  /\ UNCHANGED <<auditRoot, covered, listing, root, received, sending, breaks>>

(* Its signature or its store fails: no event.                             *)
AbandonReceipt(i) ==
  /\ i \in SignerFaults
  /\ Goto(i, "issue", "abandoned")
  /\ UNCHANGED <<log, auditRoot, covered, listing, root, received, sending, breaks>>

-----------------------------------------------------------------------------
(* handleAudit and handleInvocationAudit: two calls, with no lock between  *)

ListAudit(r) ==
  /\ Goto(r, "start", "root")
  /\ listing' = [listing EXCEPT ![r] = List(ChainOf[r], 0)]
  /\ UNCHANGED <<log, auditRoot, covered, root, received, sending, breaks>>

(* Mutant: the handler answers the root of a chain it has not listed yet.  *)
RootAuditLists(r) ==
  /\ Goto(r, "root", "done")
  /\ root' = [root EXCEPT ![r] = TipOf(listing[r])]
  /\ listing' = [listing EXCEPT ![r] = List(ChainOf[r], 0)]
  /\ UNCHANGED <<log, auditRoot, covered, received, sending, breaks>>

RootAudit(r) ==
  /\ Goto(r, "root", "done")
  /\ root' = [root EXCEPT ![r] = Root(ChainOf[r])]
  /\ UNCHANGED <<log, auditRoot, covered, listing, received, sending, breaks>>

-----------------------------------------------------------------------------
(* handleEvents: one connection sends what there is after the client's     *)
(* Last-Event-ID, and ends                                                 *)

LastEventID(s) ==
  IF received[s] = NoEvents THEN 0 ELSE received[s][Len(received[s])].sequence

Open(s) ==
  /\ Goto(s, "start", "sending")
  /\ sending' = [sending EXCEPT ![s] = List(ChainOf[s], LastEventID(s))]
  /\ UNCHANGED <<log, auditRoot, covered, listing, root, received, breaks>>

Deliver(s) ==
  /\ pc[s] = "sending"
  /\ sending[s] # NoEvents
  /\ received' = [received EXCEPT ![s] = Append(@, Head(sending[s]))]
  /\ sending' = [sending EXCEPT ![s] = Tail(@)]
  /\ UNCHANGED <<log, pc, auditRoot, covered, listing, root, breaks>>

Close(s) ==
  /\ sending[s] = NoEvents
  /\ Goto(s, "sending", "start")
  /\ UNCHANGED <<log, auditRoot, covered, listing, root, received, sending, breaks>>

(* Events the server has written and the client has not read are lost.     *)
Break(s) ==
  /\ breaks[s] < MaxBreaks
  /\ Goto(s, "sending", "start")
  /\ sending' = [sending EXCEPT ![s] = NoEvents]
  /\ breaks' = [breaks EXCEPT ![s] = @ + 1]
  /\ UNCHANGED <<log, auditRoot, covered, listing, root, received>>

Follow(s) == Open(s) \/ Deliver(s) \/ Close(s)

AuditNext ==
  \/ \E w \in Writers : Write(w)
  \/ \E i \in Issuers : ReadRoot(i) \/ IssueReceipt(i) \/ AbandonReceipt(i)
  \/ \E r \in Readers : ListAudit(r) \/ RootAudit(r)
  \/ \E s \in Streams : Follow(s) \/ Break(s)

AuditSpec == AuditInit /\ [][AuditNext]_auditVars

(* The goroutine of a request runs on, and the client of a stream asks     *)
(* again after a connection ended or broke.                                *)
FairAuditSpec == AuditSpec /\ \A s \in Streams : WF_auditVars(Follow(s))

-----------------------------------------------------------------------------
(* Verify and verifyReceiptAnchor, which need the events only              *)

Verify(events) ==
  \A n \in DOMAIN events :
    /\ events[n].sequence = n
    /\ events[n].resource = events[1].resource
    /\ events[n].previous = IF n = 1 THEN NoHash ELSE events[n - 1].hash
    /\ events[n].hash = HashOf(events[n].id, events[n].previous)

Announces(event, i) == event.type = "receipt" /\ event.data.receipt = i

(* Mutant: the root the event repeats is compared, not its position.       *)
AnchoredByData(events, i) ==
  \E n \in DOMAIN events :
    Announces(events[n], i) /\ events[n].data.root = auditRoot[i]

VerifyReceiptAnchor(events, i) ==
  \E n \in DOMAIN events :
    /\ Announces(events[n], i)
    /\ \A m \in 1 .. n - 1 : ~Announces(events[m], i)
    /\ events[n].data.root = auditRoot[i]
    /\ events[n].previous = auditRoot[i]

-----------------------------------------------------------------------------

(* Type invariant of the log and its clients.                              *)
AuditTypeOK ==
  /\ log \in [Chains -> Seq(Event)]
  /\ pc \in [Appenders \cup Clients ->
               {"start", "issue", "done", "abandoned", "root", "sending"}]
  /\ auditRoot \in [Issuers -> Hashes]
  /\ covered \in [Issuers -> Nat]
  /\ listing \in [Readers -> Seq(Event)]
  /\ root \in [Readers -> Hashes]
  /\ received \in [Streams -> Seq(Event)]
  /\ sending \in [Streams -> Seq(Event)]
  /\ breaks \in [Streams -> 0 .. MaxBreaks]

(* Every chain passes Verify, an event that could not be signed and was    *)
(* dropped between two others included.                                    *)
ChainVerifies == \A c \in Chains : Verify(log[c])

IsPrefix(part, whole) ==
  /\ Len(part) <= Len(whole)
  /\ part = SubSeq(whole, 1, Len(part))

(* The two calls of an audit request may be torn by an append.  What it    *)
(* answers is then not a chain and its root, but a first part of the chain *)
(* that verifies, and the root of that part or of a longer one.            *)
ListingIsCovered ==
  \A r \in Readers :
    pc[r] = "done" =>
      /\ Verify(listing[r])
      /\ IsPrefix(listing[r], log[ChainOf[r]])
      /\ \E n \in Len(listing[r]) .. Len(log[ChainOf[r]]) :
           root[r] = TipOf(SubSeq(log[ChainOf[r]], 1, n))

(* What the client of a stream has put together over its connections is a  *)
(* first part of the chain: no gap and no repetition, so that it can be    *)
(* verified, wherever they ended.                                          *)
StreamIsAPrefix ==
  \A s \in Streams :
    /\ IsPrefix(received[s], log[ChainOf[s]])
    /\ Verify(received[s])

(* A receipt found in a listing is accepted exactly when its root covers   *)
(* all the events before its own: an append between Root and the receipt's *)
(* event makes every later verification of the receipt fail.               *)
AnchorIsExact ==
  \A r \in Readers : \A i \in Issuers :
    ChainOf[r] = ChainOf[i] =>
      (VerifyReceiptAnchor(listing[r], i) <=>
         \E n \in DOMAIN listing[r] :
           listing[r][n].id = i /\ n = covered[i] + 1)

Ledger ==
  INSTANCE AppendOnlyLedger WITH
    Books <- Chains,
    Observers <- Clients,
    BookOf <- ChainOf,
    Blank <- NoHash,
    Page <- Event,
    Tip <- LAMBDA event : event.hash,
    Linked <- LAMBDA event, link : event.previous = link,
    ledger <- log,
    copy <- [x \in Clients |-> IF x \in Readers THEN listing[x] ELSE received[x]]

(* Nothing stored is ever changed or removed, and no client sees anything  *)
(* but a growing first part of the chain.                                  *)
ImplementsLedger == Ledger!LedgerSpec

(* Every event of a chain reaches the client of a stream that asks again,  *)
(* however its connections break.                                          *)
EverythingIsStreamed ==
  \A s \in Streams, n \in 1 .. 3 :
    Len(log[ChainOf[s]]) >= n ~> Len(received[s]) >= n

=============================================================================
