------------------------------ MODULE Storage -------------------------------
(***************************************************************************)
(* Storage items of the runtime.  An item that may be absent is None when  *)
(* it is; a map is a function on the keys it has.                          *)
(***************************************************************************)
CONSTANT None

\* StorageMap::insert and StorageMap::remove
Put(f, k, v) == [x \in DOMAIN f \cup {k} |-> IF x = k THEN v ELSE f[x]]
Drop(f, k) == [x \in DOMAIN f \ {k} |-> f[x]]

=============================================================================
