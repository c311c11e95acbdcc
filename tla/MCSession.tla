----------------------------- MODULE MCSession ------------------------------
EXTENDS Session, TLC

(* Requests, IDs and files are alike. *)
Alike == Permutations(Request) \cup Permutations(Id) \cup Permutations(Inode)
=============================================================================
