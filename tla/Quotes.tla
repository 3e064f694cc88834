-------------------------------- MODULE Quotes --------------------------------
(***************************************************************************)
(* The contract flow before its commit: negotiate stores an offer, prepare *)
(* has the service price a task, checks what it returns and stores a       *)
(* signed quote, and commit looks the quote up.  pkg/server/server.go with *)
(* the checks of pkg/ascp/validation.go, over the files of FileStore.      *)
(*                                                                         *)
(* Each handler reads the clock, the file store and the offer or quote     *)
(* store several times; between two reads time passes, files are uploaded  *)
(* and expire.  Offers and quotes are named by the requests that make them.*)
(***************************************************************************)
EXTENDS FileStore, Money, Sequences

CONSTANTS
  Negotiations,     \* POST /v1/negotiate requests
  Prepares,         \* POST /v1/prepare requests
  Commits,          \* POST /v1/commit requests
  NegotiationOf,    \* what each negotiation asks: who, and the budget
  PrepareRequests,  \* what a prepare may ask
  Contracts,        \* what Service.Prepare may return
  CommitOf,         \* who commits which quote
  OfferLife,        \* how long the offers of the service last
  StoreFaults,      \* requests whose PutOffer or PutQuote may report an error
  Currencies,
  Precision         \* the scale at which the properties compare amounts

Amount == [currency : Currencies, units : Nat, scale : Scales]

(* A caller's FileRef repeats the provider's expires_at or leaves it out.  *)
FileRef == [file : Files, digest : Contents, copied : BOOLEAN]

(* No limit is the empty set; 0 is the absent deadline or expiry.          *)
PrepareRequest ==
  [who : Identities, offer : Negotiations, refs : SUBSET FileRef, contextUntil : Nat,
   maxPrice : SUBSET Amount, deadline : Nat]

(* complete stands for the checks of fields that carry no price or time.   *)
Contract ==
  [price : Amount, ceiling : Amount, variable : BOOLEAN, free : BOOLEAN,
   breakdown : Seq(Amount), lifetime : Nat, complete : BOOLEAN]

ASSUME QuoteConstants ==
  /\ NegotiationOf \in [Negotiations -> [who : Identities, budget : SUBSET Amount]]
  /\ \A r \in PrepareRequests : r \in PrepareRequest
  /\ \A t \in Contracts : t \in Contract
  /\ CommitOf \in [Commits -> [who : Identities, quote : Prepares]]
  /\ OfferLife \in Nat \ {0}
  /\ StoreFaults \subseteq Negotiations \cup Prepares
  /\ Precision \in Scales

VARIABLES
  negotiating,  \* the next call of each negotiation, and its offer's expiry
  offers,       \* Store.offers: when each expires, 0 for none
  preparing,    \* the next call of each prepare, its request and its contract
  quotes,       \* Store.quotes
  committed     \* when each commit was accepted, or what else became of it

quoteVars == <<negotiating, offers, preparing, quotes, committed>>
allVars == <<now, fileVars, quoteVars>>

NoQuote == [stored |-> FALSE]
NoContract == [none |-> TRUE]
Waiting == -1
Rejected == -2

QuotesInit ==
  /\ FileInit
  /\ negotiating = [n \in Negotiations |-> [at |-> "service", expiresAt |-> 0]]
  /\ offers = [n \in Negotiations |-> 0]
  /\ \E sent \in [Prepares -> PrepareRequests] :
       preparing = [p \in Prepares |-> [at |-> "offer", sent |-> sent[p],
                                        contract |-> NoContract, expiresAt |-> 0]]
  /\ quotes = [p \in Prepares |-> NoQuote]
  /\ committed = [c \in Commits |-> Waiting]

-----------------------------------------------------------------------------
(* negotiate                                                               *)

NegotiateGoto(n, from, to) ==
  /\ negotiating[n].at = from
  /\ negotiating' = [negotiating EXCEPT ![n].at = to]

ServiceNegotiates(n) ==
  /\ negotiating[n].at = "service"
  /\ negotiating' = [negotiating EXCEPT ![n] = [at |-> "offer", expiresAt |-> now + OfferLife]]
  /\ UNCHANGED <<now, fileVars, offers, preparing, quotes, committed>>

StoreOffer(n) ==
  /\ negotiating[n].expiresAt > now
  /\ NegotiateGoto(n, "offer", "done")
  /\ offers' = [offers EXCEPT ![n] = negotiating[n].expiresAt]
  /\ UNCHANGED <<now, fileVars, preparing, quotes, committed>>

(* The intent is not supported, a scope is missing, the offer has expired, *)
(* or PutOffer reports an error.                                           *)
NegotiateRefused(n) ==
  /\ \/ NegotiateGoto(n, "service", "refused") /\ UNCHANGED offers
     \/ /\ NegotiateGoto(n, "offer", "refused")
        /\ \/ negotiating[n].expiresAt <= now /\ UNCHANGED offers
           \/ n \in StoreFaults /\ offers' \in
                {offers, [offers EXCEPT ![n] = negotiating[n].expiresAt]}
  /\ UNCHANGED <<now, fileVars, preparing, quotes, committed>>

-----------------------------------------------------------------------------
(* prepare: the checks                                                     *)

OfferUsable(r) ==
  /\ offers[r.offer] # 0
  /\ NegotiationOf[r.offer].who = r.who
  /\ now <= offers[r.offer]
  /\ r.deadline # 0 => r.deadline > now

(* Mutant: any ready file of the caller will do.                           *)
FileSupplied(who, ref) == Usable(who, ref.file)

(* Validate                                                                *)
FileMatches(who, ref) ==
  /\ Usable(who, ref.file)
  /\ ref.digest = files[ref.file].digest

RefsValid(r) ==
  /\ r.contextUntil # 0 => r.contextUntil > now
  /\ \A ref \in r.refs : FileMatches(r.who, ref)

(* The running totals of the components, by AddMoney.                      *)
Totals(components, currency) ==
  LET total[i \in 0 .. Len(components)] ==
        IF i = 0 THEN Zero(currency) ELSE AddMoney(total[i - 1], components[i])
  IN  total

(* validatePriceComponents                                                 *)
SumsTo(components, expected) ==
  LET total == Totals(components, expected.currency)
  IN  components # <<>> =>
        /\ \A i \in DOMAIN components : Comparable(total[i - 1], components[i])
        /\ SameAmount(total[Len(components)], expected)

ValidateBillingTerms(t) == t.free => SameAmount(t.price, Zero(t.price.currency))

PricesValid(t) ==
  /\ AtMost(t.price, t.ceiling)
  /\ ~t.variable => SameAmount(t.price, t.ceiling)
  /\ ValidateBillingTerms(t)
  /\ SumsTo(t.breakdown, t.price)

(* validatePreparedContract                                                *)
ContractValid(t) == t.complete /\ PricesValid(t)

(* The budget of the offer and max_price of the request, if there are any. *)
Limits(r) == NegotiationOf[r.offer].budget \cup r.maxPrice

WithinLimits(r, t) == \A limit \in Limits(r) : AtMost(t.ceiling, limit)

(* expires_at of the FileRef of the caller, who may omit it.               *)
ClaimedExpiry(ref) == IF ref.copied THEN files[ref.file].expiresAt ELSE 0

(* Mutant: the expiry of the files is not looked at.                       *)
QuoteValidAlone(r, t, expiresAt) == PricesValid(t) /\ expiresAt > now

(* ValidateQuoteSemantics, with IssuedAt = now.                            *)
QuoteValid(r, t, expiresAt) ==
  /\ PricesValid(t)
  /\ \A limit \in r.maxPrice : AtMost(t.ceiling, limit)
  /\ expiresAt > now
  /\ r.contextUntil # 0 => r.contextUntil >= expiresAt
  /\ \A ref \in r.refs : ClaimedExpiry(ref) # 0 => ClaimedExpiry(ref) >= expiresAt

-----------------------------------------------------------------------------
(* prepare: the handler                                                    *)

PrepareGoto(p, from, to) ==
  /\ preparing[p].at = from
  /\ preparing' = [preparing EXCEPT ![p].at = to]

FindOffer(p) ==
  /\ OfferUsable(preparing[p].sent)
  /\ PrepareGoto(p, "offer", "refs")
  /\ UNCHANGED <<now, fileVars, negotiating, offers, quotes, committed>>

ValidateRefs(p) ==
  /\ RefsValid(preparing[p].sent)
  /\ PrepareGoto(p, "refs", "service")
  /\ UNCHANGED <<now, fileVars, negotiating, offers, quotes, committed>>

Priced(request, t) ==
  [request EXCEPT !.at = "check", !.contract = t, !.expiresAt = now + t.lifetime]

ServicePrepares(p) ==
  /\ preparing[p].at = "service"
  /\ \E t \in Contracts : preparing' = [preparing EXCEPT ![p] = Priced(preparing[p], t)]
  /\ UNCHANGED <<now, fileVars, negotiating, offers, quotes, committed>>

ContractAccepted(p) ==
  /\ preparing[p].expiresAt > now
  /\ ContractValid(preparing[p].contract)
  /\ WithinLimits(preparing[p].sent, preparing[p].contract)

CheckContract(p) ==
  /\ PrepareGoto(p, "check", "issue")
  /\ ContractAccepted(p)
  /\ UNCHANGED <<now, fileVars, negotiating, offers, quotes, committed>>

Quote(p) ==
  LET r == preparing[p].sent
      t == preparing[p].contract
  IN  [stored |-> TRUE, who |-> r.who, offer |-> r.offer, refs |-> r.refs,
       price |-> t.price, ceiling |-> t.ceiling, variable |-> t.variable,
       breakdown |-> t.breakdown, maxPrice |-> r.maxPrice, deadline |-> r.deadline,
       issuedAt |-> now, expiresAt |-> preparing[p].expiresAt]

Issuable(p) == QuoteValid(preparing[p].sent, preparing[p].contract, preparing[p].expiresAt)

IssueQuote(p) ==
  /\ PrepareGoto(p, "issue", "done")
  /\ Issuable(p)
  /\ quotes' = [quotes EXCEPT ![p] = Quote(p)]
  /\ UNCHANGED <<now, fileVars, negotiating, offers, committed>>

(* One of the checks fails, the service reports a problem, the quote       *)
(* cannot be signed, or PutQuote reports an error.                         *)
PrepareRefused(p) ==
  /\ \/ PrepareGoto(p, "offer", "refused") /\ ~OfferUsable(preparing[p].sent) /\ UNCHANGED quotes
     \/ PrepareGoto(p, "refs", "refused") /\ ~RefsValid(preparing[p].sent) /\ UNCHANGED quotes
     \/ PrepareGoto(p, "service", "refused") /\ UNCHANGED quotes
     \/ PrepareGoto(p, "check", "refused") /\ ~ContractAccepted(p) /\ UNCHANGED quotes
     \/ /\ PrepareGoto(p, "issue", "refused")
        /\ \/ ~Issuable(p) /\ UNCHANGED quotes
           \/ p \in StoreFaults /\ Issuable(p) /\ quotes' \in {quotes, [quotes EXCEPT ![p] = Quote(p)]}
  /\ UNCHANGED <<now, fileVars, negotiating, offers, committed>>

-----------------------------------------------------------------------------
(* The checks of commit that read the quote and the clock.  It does not    *)
(* read the file store again.                                              *)

CommitAllowed(c) ==
  LET q == quotes[CommitOf[c].quote] IN
    /\ q.stored
    /\ q.who = CommitOf[c].who
    /\ now <= q.expiresAt
    /\ q.deadline # 0 => q.deadline > now

AcceptCommit(c) ==
  /\ committed[c] = Waiting
  /\ committed' = [committed EXCEPT ![c] = IF CommitAllowed(c) THEN now ELSE Rejected]
  /\ UNCHANGED <<now, fileVars, negotiating, offers, preparing, quotes>>

QuoteSteps ==
  \/ \E n \in Negotiations : ServiceNegotiates(n) \/ StoreOffer(n) \/ NegotiateRefused(n)
  \/ \E p \in Prepares : \/ FindOffer(p) \/ ValidateRefs(p) \/ ServicePrepares(p)
                         \/ CheckContract(p) \/ IssueQuote(p) \/ PrepareRefused(p)
  \/ \E c \in Commits : AcceptCommit(c)

QuotesNext ==
  \/ FileSteps /\ UNCHANGED quoteVars
  \/ FileTick /\ UNCHANGED quoteVars
  \/ QuoteSteps

QuotesSpec == QuotesInit /\ [][QuotesNext]_allVars

-----------------------------------------------------------------------------

Preparation ==
  [at : {"offer", "refs", "service", "check", "issue", "done", "refused"},
   sent : PrepareRequests, contract : Contracts \cup {NoContract}, expiresAt : Nat]

StoredQuote ==
  [stored : {TRUE}, who : Identities, offer : Negotiations, refs : SUBSET FileRef,
   price : Amount, ceiling : Amount, variable : BOOLEAN, breakdown : Seq(Amount),
   maxPrice : SUBSET Amount, deadline : Nat, issuedAt : 0 .. MaxTime, expiresAt : Nat]

(* Type invariant of the files, the offers and the quotes.                 *)
QuotesTypeOK ==
  /\ FileTypeOK
  /\ negotiating \in [Negotiations -> [at : {"service", "offer", "done", "refused"}, expiresAt : Nat]]
  /\ offers \in [Negotiations -> Nat]
  /\ preparing \in [Prepares -> Preparation]
  /\ quotes \in [Prepares -> StoredQuote \cup {NoQuote}]
  /\ committed \in [Commits -> {Waiting, Rejected} \cup 0 .. MaxTime]

(* An amount at the scale of the properties, where two are integers.       *)
Exact(m) == m.units * TenTo[Precision - m.scale]

ExactTotals(components) ==
  LET total[i \in 0 .. Len(components)] ==
        IF i = 0 THEN 0 ELSE total[i - 1] + Exact(components[i])
  IN  total

(* A stored quote never asks more than the budget its offer was negotiated *)
(* under, nor than the caller's maximum, in whatever digits the service    *)
(* and the caller write their amounts.                                     *)
QuoteWithinBudget ==
  \A p \in Prepares :
    quotes[p].stored =>
      /\ Exact(quotes[p].price) <= Exact(quotes[p].ceiling)
      /\ \A limit \in NegotiationOf[quotes[p].offer].budget \cup quotes[p].maxPrice :
           /\ quotes[p].ceiling.currency = limit.currency
           /\ Exact(quotes[p].ceiling) <= Exact(limit)

(* The breakdown of a stored quote adds up to its price exactly.           *)
PriceIsTheSumOfItsParts ==
  \A p \in Prepares :
    quotes[p].stored /\ quotes[p].breakdown # <<>> =>
      LET b == quotes[p].breakdown
      IN  ExactTotals(b)[Len(b)] = Exact(quotes[p].price)

(* Every file of a stored quote is a ready file of the quote's own actor,  *)
(* with the bytes the quote's digest names, and stays so.                  *)
QuotedFilesAreSound ==
  \A p \in Prepares :
    quotes[p].stored =>
      \A ref \in quotes[p].refs :
        LET f == files[ref.file] IN
          f.state = "ready" /\ f.owner = quotes[p].who /\ f.content = ref.digest

(* A commit accepted before its quote expires finds the files of the quote *)
(* unexpired, when the caller's references repeat the provider's expiry.   *)
(* At the very tick the quote expires the commit is accepted and the file  *)
(* may be gone.                                                            *)
CommitFindsItsFiles ==
  \A c \in Commits :
    LET q == quotes[CommitOf[c].quote] IN
      committed[c] >= 0 /\ committed[c] < q.expiresAt =>
        \A ref \in q.refs : ref.copied => files[ref.file].expiresAt > committed[c]

-----------------------------------------------------------------------------
(* What the documents say and the code does not do.                        *)

(* "Before execution, the provider MUST validate: input files remain valid *)
(* and usable": an accepted commit's files are unexpired.                  *)
FilesUsableAtCommit ==
  \A c \in Commits :
    committed[c] >= 0 =>
      \A ref \in quotes[CommitOf[c].quote].refs : files[ref.file].expiresAt > committed[c]

=============================================================================
