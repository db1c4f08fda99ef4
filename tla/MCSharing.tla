----------------------------- MODULE MCSharing -----------------------------
(* Small instances of Sharing: requests are alike, and so are tokens. *)
EXTENDS Sharing, TLC

Symmetric == Permutations(Account \ {Owner}) \cup Permutations(Request) \cup Permutations(Token)
=============================================================================
