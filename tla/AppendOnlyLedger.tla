-------------------------- MODULE AppendOnlyLedger --------------------------
(***************************************************************************)
(* What the audit trail promises: a ledger of pages that grow only by      *)
(* pages linked to the last one, observers that each hold a copy of a      *)
(* first part of it, and copies that only ever get longer.                 *)
(***************************************************************************)
EXTENDS Naturals, Sequences

CONSTANTS
  Books,       \* independent ledgers
  Observers,
  BookOf,      \* the ledger each observer copies
  Blank,       \* the link of a first page
  Page,        \* the set of pages
  Tip(_),      \* the link a page leaves to the next one
  Linked(_, _) \* a page and the link it was written after

VARIABLES ledger, copy

ledgerVars == <<ledger, copy>>

LastTip(pages) == IF pages = <<>> THEN Blank ELSE Tip(pages[Len(pages)])

LedgerInit ==
  /\ ledger = [b \in Books |-> <<>>]
  /\ copy = [o \in Observers |-> <<>>]

Extend(b) ==
  LET page == ledger'[b][Len(ledger[b]) + 1] IN
    /\ Len(ledger'[b]) = Len(ledger[b]) + 1
    /\ ledger' = [ledger EXCEPT ![b] = Append(@, page)]
    /\ page \in Page
    /\ Linked(page, LastTip(ledger[b]))
    /\ UNCHANGED copy

Copied(o) ==
  \E n \in Len(copy[o]) .. Len(ledger[BookOf[o]]) :
    copy' = [copy EXCEPT ![o] = SubSeq(ledger[BookOf[o]], 1, n)]

LedgerNext ==
  \/ \E b \in Books : Extend(b)
  \/ \E o \in Observers : Copied(o) /\ UNCHANGED ledger

LedgerSpec == LedgerInit /\ [][LedgerNext]_ledgerVars

=============================================================================
