----------------------------- MODULE EvidenceMC -----------------------------
(* Instances of EvidenceStore for TLC: the receipts a command may write, one *)
(* that is right and one for each thing that can be wrong with it.           *)
EXTENDS EvidenceStore

Right == [sound |-> TRUE, verdict |-> TRUE, cleanup |-> "confirmed"]
SomeReceipts == {Right, [Right EXCEPT !.sound = FALSE], [Right EXCEPT !.verdict = FALSE],
                 [Right EXCEPT !.cleanup = "failed"]}
=============================================================================
