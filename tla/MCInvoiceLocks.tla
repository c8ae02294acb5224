---------------------------- MODULE MCInvoiceLocks ----------------------------
(* InvoiceLocks on a few threads, invoices and entry objects. *)
EXTENDS InvoiceLocks, TLC

Interchangeable == Permutations(Threads) \cup Permutations(Keys) \cup Permutations(Objs)

===============================================================================
