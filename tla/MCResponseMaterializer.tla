----------------------- MODULE MCResponseMaterializer -----------------------
(* ResponseMaterializer with a few requests and writes. *)
EXTENDS ResponseMaterializer, TLC

Interchangeable == Permutations(Readers) \cup Permutations(Writes)

===============================================================================
