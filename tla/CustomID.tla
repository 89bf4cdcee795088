------------------------------- MODULE CustomID -------------------------------
(* The custom ID store (interface/store/customid.go) and the part of         *)
(* dataBatch.DeleteCustomID that undoes it: proposals of the main chain on   *)
(* reserved and received IDs and on the fee, and their results.              *)
(*                                                                           *)
(* State as in Arbiters: db, and w = [b, mem, err]; err is set once an       *)
(* operation returned an error, the rest of its loop is not run then.        *)
(*                                                                           *)
(* A definition without a comment that stands just before another one is a   *)
(* plausible mistake in it; the specification does not use it.               *)
EXTENDS Arbiters, SequencesExt

CONSTANT DefaultConfirmations  \* blocks of DPOS that confirm a result

ASSUME ConfirmationsAssumption == DefaultConfirmations \in Nat \ {0}

CidMem == [reserved |-> <<>>, received |-> <<>>, feePos |-> <<>>]

IsEmpty(map) == DOMAIN map = {}

(* What the database has: the approved IDs, and under the hash of a proposal *)
(* what was proposed.                                                        *)
getReservedCustomIDsFromDB(db) == ListOf(db, <<"rscid">>)
getReceivedCustomIDsFromDB(db) == ListOf(db, <<"rccid">>)
getCurrentCustomIDFeePositions(db) == ListOf(db, <<"cidfps">>)
getControversialReservedCustomIDsFromDB(db, proposal) ==
  Lookup(db, <<"rscid", proposal>>)
getControversialReceivedCustomIDsFromDB(db, proposal) ==
  Lookup(db, <<"rccid", proposal>>)
getControversialCustomIDFeeRateByProposalHash(db, proposal) ==
  Lookup(db, <<"ccidf", proposal>>)
getControversialCustomIDFeeRateByHeight(db, height) ==
  IF Lookup(db, <<"ccidfh", height>>) = None THEN Error ELSE db[<<"ccidfh", height>>]

(* An empty map in memory is taken for one that was not read yet.            *)
FillReserved(db, mem) ==
  [mem EXCEPT !.reserved =
     IF IsEmpty(@) THEN getReservedCustomIDsFromDB(db) ELSE @]
FillReceived(db, mem) ==
  [mem EXCEPT !.received =
     IF IsEmpty(@) THEN getReceivedCustomIDsFromDB(db) ELSE @]
FillFeePos(db, mem) ==
  [mem EXCEPT !.feePos =
     IF @ = <<>> THEN getCurrentCustomIDFeePositions(db) ELSE @]

(* CRCProposal transactions: the proposal is filed under its hash.           *)
BatchPutControversialReservedCustomIDs(w, proposal, ids) ==
  Put(w, <<"rscid", proposal>>, ids)
BatchPutControversialReceivedCustomIDs(w, proposal, ids, did) ==
  Put(w, <<"rccid", proposal>>, [id \in ids |-> did])
BatchPutControversialChangeCustomIDFee(w, proposal, rate, workingHeight) ==
  Put(w, <<"ccidf", proposal>>, [rate |-> rate, workingHeight |-> workingHeight])

(* ReturnSideChainDepositCoin transactions: the deposits of this side chain. *)
BatchPutRetSideChainDepositCoinTx(w, deposits) ==
  [w EXCEPT !.b = Over([k \in {<<"deposit", d>> : d \in deposits} |-> TRUE], @)]
HaveRetSideChainDepositCoinTx(db, deposit) ==
  Lookup(db, <<"deposit", deposit>>) # None

-----------------------------------------------------------------------------
(* batchPutCustomIDProposalResults, one result: the map in memory changes    *)
(* first and is then written as a whole.  A proposal that is not in the      *)
(* database is an error; a rejected one only fills the map.                  *)

batchPutReservedCustomIDs(w, all) == Put(w, <<"rscid">>, all)
batchPutReceivedCustomIDs(w, all) == Put(w, <<"rccid">>, all)
batchPutChangeCustomIDFee(db, w, rate, workingHeight) ==
  LET positions == PutHeight(getCurrentCustomIDFeePositions(db), workingHeight)
  IN [Put(Put(w, <<"cidfps">>, positions), <<"ccidfh", workingHeight>>, rate)
      EXCEPT !.mem.feePos = positions]

PutReserved(db, w, proposal, height) ==
  LET mem == FillReserved(db, w.mem)
      ids == getControversialReservedCustomIDsFromDB(db, proposal)
      all == Over([id \in ids |-> height], mem.reserved)
  IN IF ids = None THEN [w EXCEPT !.mem = mem, !.err = TRUE]
     ELSE [batchPutReservedCustomIDs(w, all)
           EXCEPT !.mem = [mem EXCEPT !.reserved = all]]

PutReceived(db, w, proposal, height) ==
  LET mem == FillReceived(db, w.mem)
      ids == getControversialReceivedCustomIDsFromDB(db, proposal)
      all == Over([id \in DOMAIN ids |-> [did |-> ids[id], height |-> height]],
                  mem.received)
  IN IF ids = None THEN [w EXCEPT !.mem = mem, !.err = TRUE]
     ELSE [batchPutReceivedCustomIDs(w, all)
           EXCEPT !.mem = [mem EXCEPT !.received = all]]

PutFee(db, w, proposal) ==
  LET fee == getControversialCustomIDFeeRateByProposalHash(db, proposal)
  IN IF fee = None THEN [w EXCEPT !.err = TRUE]
     ELSE batchPutChangeCustomIDFee(db, w, fee.rate, fee.workingHeight)

ResultOnce(db, w, r, height) ==
  CASE w.err -> w
    [] ~w.err /\ r.about = "Reserve" ->
         IF r.approved THEN PutReserved(db, w, r.proposal, height)
         ELSE [w EXCEPT !.mem = FillReserved(db, @)]
    [] ~w.err /\ r.about = "Receive" ->
         IF r.approved THEN PutReceived(db, w, r.proposal, height)
         ELSE [w EXCEPT !.mem = FillReceived(db, @)]
    [] ~w.err /\ r.about = "Fee" ->
         IF r.approved THEN PutFee(db, w, r.proposal) ELSE w

BatchPutCustomIDProposalResults(db, w, results, height) ==
  FoldLeft(LAMBDA acc, r : ResultOnce(db, acc, r, height), w, results)

-----------------------------------------------------------------------------
(* What a side chain asks for.                                               *)

(* A result counts once DefaultConfirmations blocks of one stretch of DPOS   *)
(* lie above it.  The loop walks the changes of consensus: each one above    *)
(* the proposal closes the stretch before it, at the height asked about if   *)
(* that comes first.  v = [mode, from, ended, began, yes].                   *)
ConfirmStep(current, proposal, v, r) ==
  LET until == IF current < r.workingHeight THEN current ELSE r.workingHeight
      since == IF proposal > v.from THEN proposal ELSE v.from
      above == proposal < r.workingHeight
  IN IF v.ended \/ v.yes THEN v
     ELSE [mode |-> r.mode, from |-> r.workingHeight,
           ended |-> above /\ current < r.workingHeight,
           began |-> v.began \/ above,
           yes |-> /\ above /\ v.mode = "DPOS"
                   /\ until - since >= DefaultConfirmations]

ConfirmedFromLastChange(current, proposal, info) ==
  LET v == FoldLeft(LAMBDA acc, r : ConfirmStep(current, proposal, acc, r),
                    [mode |-> "DPOS", from |-> 0, ended |-> FALSE,
                     began |-> FALSE, yes |-> FALSE], info)
  IN /\ current > proposal
     /\ \/ v.yes
        \/ /\ v.mode = "DPOS" /\ ~v.ended
           /\ current - v.from >= DefaultConfirmations
isProposalConfirmed(current, proposal, info) ==
  LET v == FoldLeft(LAMBDA acc, r : ConfirmStep(current, proposal, acc, r),
                    [mode |-> "DPOS", from |-> 0, ended |-> FALSE,
                     began |-> FALSE, yes |-> FALSE], info)
  IN /\ current > proposal
     /\ \/ v.yes
        \/ /\ v.mode = "DPOS" /\ ~v.began
           /\ current - proposal >= DefaultConfirmations
        \/ /\ v.mode = "DPOS" /\ v.began /\ ~v.ended
           /\ current - v.from >= DefaultConfirmations

GetReservedCustomIDs(db, mem, height, info) ==
  LET ids == FillReserved(db, mem).reserved
  IN {id \in DOMAIN ids : isProposalConfirmed(height, ids[id], info)}

GetReceivedCustomIDs(db, mem, height, info) ==
  LET ids == FillReceived(db, mem).received
  IN [id \in {i \in DOMAIN ids : isProposalConfirmed(height, ids[i].height, info)}
        |-> ids[id].did]

(* The last working height below the height asked about.                     *)
findCustomIDWorkingHeightByCurrentHeight(pos, height) ==
  LET below == {i \in DOMAIN pos : pos[i] < height}
  IN IF below = {} THEN 0
     ELSE pos[CHOOSE i \in below : \A j \in below : j <= i]

GetCustomIDFeeRate(db, mem, height) ==
  LET pos == FillFeePos(db, mem).feePos
      at == findCustomIDWorkingHeightByCurrentHeight(pos, height)
  IN IF pos = <<>> THEN Error
     ELSE getControversialCustomIDFeeRateByHeight(db, at)

-----------------------------------------------------------------------------
(* DeleteCustomID, for a transaction of a height that is rolled back.  Keys  *)
(* mapped to None are deletions.                                             *)

Delete(w, key) == Put(w, key, None)

UndoResult(db, w, r) ==
  LET ids == IF r.about = "Reserve"
             THEN getControversialReservedCustomIDsFromDB(db, r.proposal)
             ELSE getControversialReceivedCustomIDsFromDB(db, r.proposal)
      reserved == Without(FillReserved(db, w.mem).reserved, ids)
      received == Without(FillReceived(db, w.mem).received, DOMAIN ids)
  IN CASE w.err \/ r.about = "Fee" -> w
       [] ~w.err /\ r.about # "Fee" /\ r.approved /\ ids = None ->
            [w EXCEPT !.err = TRUE, !.mem = IF r.about = "Reserve"
                                            THEN FillReserved(db, @)
                                            ELSE FillReceived(db, @)]
       [] ~w.err /\ r.about = "Reserve" /\ r.approved /\ ids # None ->
            [batchPutReservedCustomIDs(w, reserved) EXCEPT !.mem.reserved = reserved]
       [] ~w.err /\ r.about = "Receive" /\ r.approved /\ ids # None ->
            [batchPutReceivedCustomIDs(w, received) EXCEPT !.mem.received = received]
       [] OTHER -> [w EXCEPT !.mem =
                      IF r.about = "Reserve" THEN FillReserved(db, @)
                      ELSE FillReceived(db, @)]

BatchDeleteRetSideChainDepositCoinTx(w, deposits) ==
  [w EXCEPT !.b = Over([k \in {<<"deposit", d>> : d \in deposits} |-> None], @)]

DeleteCustomID(db, w, id, tx) ==
  CASE tx.kind = "Deposit" -> BatchDeleteRetSideChainDepositCoinTx(w, tx.deposits)
    [] tx.kind = "Reserve" -> Delete(w, <<"rscid", id>>)
    [] tx.kind = "Receive" -> Delete(w, <<"rccid", id>>)
    [] tx.kind = "Fee"     -> Delete(w, <<"ccidf", id>>)
    [] tx.kind = "Result"  ->
         FoldLeft(LAMBDA acc, r : UndoResult(db, acc, r), w, tx.results)
    [] OTHER -> w
=============================================================================
