----------------------------- MODULE IntentLedger -----------------------------
(***************************************************************************)
(* What the outbox promises to the transactions that enqueue into it: a    *)
(* ledger with at most one entry per deduplication key, in which no entry  *)
(* is ever replaced, and receipts that all name the entry of their key.    *)
(***************************************************************************)
CONSTANTS Keys, None

VARIABLES
    ledger,     \* the entry of each key: an id and an intent, or None
    receipts    \* what committed transactions were told: key, id, intent

ledgerVars == <<ledger, receipts>>

LedgerInit == ledger = [k \in Keys |-> None] /\ receipts = {}

Confirmed(r, book) == book[r.key] = [id |-> r.id, intent |-> r.intent]

LedgerNext ==
    /\ \A k \in Keys : ledger[k] # None => ledger'[k] = ledger[k]
    /\ receipts \subseteq receipts'
    /\ \A r \in receipts' : Confirmed(r, ledger')

LedgerSpec == LedgerInit /\ [][LedgerNext]_ledgerVars
=============================================================================
