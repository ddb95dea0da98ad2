----------------------------- MODULE LedgerSums -----------------------------
(***************************************************************************)
(* The money tables collect_money and pay, and the totals the services     *)
(* compute over them.  A table is the sequence of its rows in primary-key   *)
(* order: keys are handed out in order and a row is never removed, only     *)
(* stamped as deleted, so the row with key i is element i of the sequence.  *)
(***************************************************************************)
EXTENDS Integers, Sequences

\* A row counts towards the total of clan c when it belongs to c and carries
\* no deletedAt: repository.find({ where: { clanId } }) returns live rows only.
Share(row, c) == IF row.clan = c /\ ~row.deleted THEN row.money ELSE 0

\* Sums of a weight function: SumTo(w)[n] = w[1] + ... + w[n].
SumTo(w) == LET s[n \in Nat] == IF n = 0 THEN 0 ELSE s[n-1] + w[n] IN s

Weights(table, c) ==
  [i \in Nat |-> IF i \in 1..Len(table) THEN Share(table[i], c) ELSE 0]

\* totalCollectMoney and getTotalPay: reduce((a, row) => a + row.money, 0).
Total(table, c) == SumTo(Weights(table, c))[Len(table)]
=============================================================================
