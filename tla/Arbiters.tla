------------------------------- MODULE Arbiters -------------------------------
(* The arbiter store (interface/store/arbiters.go): which arbiters sign from *)
(* which height on, and when the main chain changed its consensus.           *)
(*                                                                           *)
(* The bucket keys of leveldb are tuples, a database is a partial function   *)
(* from keys to values.  db is what has been written, b the batch being      *)
(* collected, mem the maps the store keeps in memory.  The operators take    *)
(* the state w = [b, mem] and return the next one: a batch reaches db only   *)
(* with the caller's commit, mem has changed by then.                        *)
(*                                                                           *)
(* A definition without a comment that stands just before another one is a   *)
(* plausible mistake in it; the specification does not use it.               *)
EXTENDS Lists, Tables, Integers, Sequences, TLC

CONSTANTS None,           \* nil, a key that is not there
          Error,          \* an error returned instead of a value
          OriginArbiters, \* arbiters in office before the first change
          ArbitersCount   \* heights a set stays in office past its own

ASSUME ArbitersAssumption == ArbitersCount \in Nat

(* leveldb (external): get and put of one key.                               *)
Lookup(db, key) == IF key \in DOMAIN db THEN db[key] ELSE None
Put(w, key, value) == [w EXCEPT !.b = Over(Row(key, value), @)]

ArbMem == [pos |-> <<>>, revertPos |-> <<>>, sets |-> <<>>]

(* The lists of heights are kept in ascending order: everything from the     *)
(* new height up is dropped, then it is appended.                            *)
PutHeightKeeps(list, height) == Append(Keep(list, 0 .. height), height)
PutHeight(list, height) == Append(Keep(list, 0 .. height - 1), height)

ListOf(db, key) == IF Lookup(db, key) = None THEN <<>> ELSE db[key]

getCurrentPositions(db) == ListOf(db, <<"arbpts">>)
getCurrentPosition(db) ==
  IF Lookup(db, <<"arbptn">>) = None THEN 0 ELSE db[<<"arbptn">>]
getCurrentRevertPositions(db) == ListOf(db, <<"revertps">>)
getCurrentRevertPosition(db) ==
  IF Lookup(db, <<"revertp">>) = None THEN 0 ELSE db[<<"revertp">>]

(* A value is a set of arbiters in full or, four bytes long, the height      *)
(* that has it in full.                                                      *)
Full(set) == [ref |-> FALSE, val |-> set]
Ref(height) == [ref |-> TRUE, val |-> height]

(* A set that has been put before is written as a reference to the height    *)
(* that has it; the map of known sets is read through to the database.       *)
PutSet(db, w, positions, height, set) ==
  LET known == IF set \in DOMAIN w.mem.sets THEN w.mem.sets[set]
               ELSE Lookup(db, <<"txheight", set>>)
      first == IF known = None THEN height ELSE known
      w1 == Put(Put(w, <<"arbptn">>, height), <<"arbpts">>, positions)
      w2 == IF known = None
            THEN Put(Put(w1, <<"arbdata", height>>, Full(set)),
                     <<"txheight", set>>, height)
            ELSE Put(w1, <<"arbdata", height>>, Ref(known))
  IN [w2 EXCEPT !.mem.pos = positions, !.mem.sets = Over(Row(set, first), @)]

(* batchPut: the positions come from the database, not from posCache.        *)
BatchPutFromCache(db, w, height, set) ==
  PutSet(db, w, PutHeight(w.mem.pos, height), height, set)
BatchPut(db, w, height, set) ==
  PutSet(db, w, PutHeight(getCurrentPositions(db), height), height, set)

(* get: one reference is followed; four bytes found behind it are taken for  *)
(* a list of keys, which they are not.                                       *)
getArbiters(db, height) ==
  LET val == Lookup(db, <<"arbdata", height>>) IN
  IF val = None THEN Error
  ELSE IF ~val.ref THEN val.val
  ELSE LET there == Lookup(db, <<"arbdata", val.val>>) IN
       IF there = None \/ there.ref THEN Error ELSE there.val

(* The position in force at a height, 0 for the arbiters of the start.       *)
findSlotAt(pos, height) ==
  IF pos = <<>> \/ pos[Len(pos)] + ArbitersCount < height THEN Error
  ELSE LET below == {i \in DOMAIN pos : pos[i] <= height} IN
       IF below = {} THEN 0
       ELSE pos[CHOOSE i \in below : \A j \in below : j <= i]
findSlot(pos, height) ==
  IF pos = <<>> \/ pos[Len(pos)] + ArbitersCount < height THEN Error
  ELSE LET below == {i \in DOMAIN pos : pos[i] < height} IN
       IF below = {} THEN 0
       ELSE pos[CHOOSE i \in below : \A j \in below : j <= i]

(* The positions a query works on: the cached ones, read again when there    *)
(* are none.                                                                 *)
FillPos(db, mem) ==
  [mem EXCEPT !.pos = IF @ = <<>> THEN getCurrentPositions(db) ELSE @]

GetByHeight(db, mem, height) ==
  LET slot == findSlot(FillPos(db, mem).pos, height) IN
  IF slot = Error THEN Error
  ELSE IF slot = 0 THEN OriginArbiters ELSE getArbiters(db, slot)

GetNext(db) ==
  LET at == getCurrentPosition(db)
  IN [workingHeight |-> at, arbiters |-> getArbiters(db, at)]

-----------------------------------------------------------------------------
(* Changes between proof of work and DPOS.                                   *)

RevertInfo(height, mode) == [workingHeight |-> height, mode |-> mode]

(* A change at or below the last one counts as a rollback: the position      *)
(* moves, the list stays.                                                    *)
BatchPutRevertTransaction(db, w, height, mode) ==
  LET w1 == Put(w, <<"revertp">>, height)
      below == [workingHeight : 0 .. height - 1, mode : {"POW", "DPOS"}]
      list == Append(Keep(getCurrentRevertPositions(db), below),
                     RevertInfo(height, mode))
  IN IF height <= getCurrentRevertPosition(db) THEN w1
     ELSE [Put(w1, <<"revertps">>, list) EXCEPT !.mem.revertPos = list]

FillRevertPos(db, mem) ==
  [mem EXCEPT !.revertPos =
     IF @ = <<>> THEN getCurrentRevertPositions(db) ELSE @]

GetRevertInfo(db, mem) == FillRevertPos(db, mem).revertPos

(* byte(DPOS) is zero, which is also the mode while nothing is recorded.     *)
GetConsensusAlgorithmByHeight(db, mem, height) ==
  LET info == GetRevertInfo(db, mem)
      passed == {i \in DOMAIN info :
                   \A j \in 1 .. i : info[j].workingHeight <= height}
  IN IF passed = {} THEN "DPOS"
     ELSE info[CHOOSE i \in passed : \A j \in passed : j <= i].mode
=============================================================================
