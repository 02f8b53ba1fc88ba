---------------------------- MODULE MCCartCache ----------------------------
(* Instance of CartCache for TLC: a user and a guest with every handler; a  *)
(* reader and the deletions owed overlap with each of them.                 *)
EXTENDS CartCache

TwoCopies == [v \in Variants |-> 2]
CachedHandlers == {"getCart", "add", "guestAdd", "update", "remove", "clear", "merge",
                   "checkout", "release", "purge", "expire"}
=============================================================================
