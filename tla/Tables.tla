-------------------------------- MODULE Tables --------------------------------
(* A table of sqlite, a bucket of leveldb, a map in memory: a partial        *)
(* function from keys to values.                                             *)

(* Rows are put over a table: INSERT OR REPLACE, or Put of every key.        *)
Over(rows, table) ==
  [k \in DOMAIN rows \cup DOMAIN table |->
     IF k \in DOMAIN rows THEN rows[k] ELSE table[k]]
Row(key, value) == [k \in {key} |-> value]

(* Keys are deleted.                                                         *)
Without(table, keys) == [k \in DOMAIN table \ keys |-> table[k]]
=============================================================================
