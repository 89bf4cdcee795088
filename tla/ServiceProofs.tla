---------------------------- MODULE ServiceProofs ----------------------------
(***************************************************************************)
(* The channels blockProcessed and txProcessed are shared by all peers and *)
(* hold one answer each.  Proved for any number of peers, callers and any  *)
(* capacity: answers and waiting peers balance, so a reply of the manager  *)
(* finds a peer that waits for one, and a peer that waits has an answer on *)
(* its way unless the manager has gone into its drain.                     *)
(***************************************************************************)
EXTENDS Service, FiniteSetTheorems, SequenceTheorems, FunctionTheorems, TLAPS

Shared == {"block", "tx"}
Place == {"idle", "queue", "send", "done", "wait", "report", "notify", "inv", "post",
          "sendPost", "ask", "askSend", "answer", "answerSend"}
Message == [kind : Shared \cup {"current", "post"}, from : Threads]

(* What the balance needs to know of the types: one buffered answer at     *)
(* most on a channel, and the manager at work has a block or transaction.  *)
Types ==
  /\ at \in [Threads -> Place]
  /\ kind \in [Handlers -> Shared]
  /\ msgChan \in Seq(Message)
  /\ processed \in [Shared -> {0, 1}]
  /\ manager \in {"idle", "handle", "reply", "drain", "gone"}
  /\ manager \in {"handle", "reply"} => cur \in Message /\ cur.kind \in Shared

IInv == Types /\ AnswersBalance

One(condition) == IF condition THEN 1 ELSE 0

-----------------------------------------------------------------------------
(* Counting.                                                               *)

LEMMA QueuedFinite ==
  ASSUME NEW s \in Seq(Message), NEW k
  PROVE  IsFiniteSet(Queued(s, k)) /\ Cardinality(Queued(s, k)) \in Nat
<1>1. DOMAIN s = 1 .. Len(s) /\ Len(s) \in Nat
  OBVIOUS
<1>2. IsFiniteSet(1 .. Len(s))
  BY <1>1, FS_Interval
<1>3. Queued(s, k) \in SUBSET (1 .. Len(s))
  BY <1>1 DEF Queued
<1> QED BY <1>2, <1>3, FS_Subset, FS_CardinalityType

(* A message sent counts as one more of its kind.                          *)
LEMMA QueuedAppend ==
  ASSUME NEW s \in Seq(Message), NEW m \in Message, NEW k
  PROVE  Cardinality(Queued(Append(s, m), k))
           = Cardinality(Queued(s, k)) + One(m.kind = k)
<1> DEFINE n == Len(s)
<1>1. n \in Nat /\ DOMAIN s = 1 .. n
  OBVIOUS
<1>2. /\ DOMAIN Append(s, m) = 1 .. n + 1
      /\ \A i \in 1 .. n : Append(s, m)[i] = s[i]
      /\ Append(s, m)[n + 1] = m
  OBVIOUS
<1>3. IsFiniteSet(Queued(s, k)) /\ Cardinality(Queued(s, k)) \in Nat
  BY QueuedFinite
<1> HIDE DEF n
<1>4. CASE m.kind = k
  <2>1. Queued(Append(s, m), k) = Queued(s, k) \cup {n + 1}
    BY <1>1, <1>2, <1>4 DEF Queued
  <2>2. n + 1 \notin Queued(s, k)
    BY <1>1 DEF Queued
  <2> QED BY <1>3, <1>4, <2>1, <2>2, FS_AddElement DEF One
<1>5. CASE m.kind # k
  <2>1. Queued(Append(s, m), k) = Queued(s, k)
    BY <1>1, <1>2, <1>5 DEF Queued
  <2> QED BY <1>3, <1>5, <2>1 DEF One
<1> QED BY <1>4, <1>5

(* A message received counts as one less: the positions of the others move *)
(* down by one.                                                            *)
LEMMA QueuedTail ==
  ASSUME NEW s \in Seq(Message), s # <<>>, NEW k
  PROVE  Cardinality(Queued(s, k))
           = Cardinality(Queued(Tail(s), k)) + One(Head(s).kind = k)
<1> DEFINE n == Len(s)
           A == Queued(Tail(s), k)
           B == Queued(s, k) \ {1}
           up == [i \in A |-> i + 1]
<1>1. n \in Nat /\ n >= 1 /\ DOMAIN s = 1 .. n /\ Head(s) = s[1]
  OBVIOUS
<1>2. Tail(s) \in Seq(Message) /\ DOMAIN Tail(s) = 1 .. n - 1
  OBVIOUS
<1>3. \A i \in 1 .. n - 1 : Tail(s)[i] = s[i + 1]
  OBVIOUS
<1>4. IsFiniteSet(A) /\ IsFiniteSet(Queued(s, k))
      /\ Cardinality(Queued(s, k)) \in Nat
  BY <1>2, QueuedFinite
<1> HIDE DEF n
<1>5. up \in Bijection(A, B)
  <2>1. \A i \in A : i \in Int /\ i + 1 \in B
    BY <1>1, <1>2, <1>3 DEF Queued
  <2>2. \A j \in B : j - 1 \in A /\ up[j - 1] = j
    BY <1>1, <1>2, <1>3 DEF Queued
  <2>3. up \in [A -> B] /\ \A i, j \in A : up[i] = up[j] => i = j
    BY <2>1
  <2>4. \A j \in B : \E i \in A : up[i] = j
    BY <2>2
  <2> QED BY <2>3, <2>4, Fun_IsBij
<1>6. Cardinality(A) = Cardinality(B)
  BY <1>4, <1>5, FS_Bijection, Fun_ExistsBij
<1>7. 1 \in Queued(s, k) <=> Head(s).kind = k
  BY <1>1 DEF Queued
<1>8. Cardinality(B) = IF 1 \in Queued(s, k) THEN Cardinality(Queued(s, k)) - 1
                       ELSE Cardinality(Queued(s, k))
  BY <1>4, FS_RemoveElement
<1> HIDE DEF A, B
<1>9. CASE Head(s).kind = k
  BY <1>4, <1>6, <1>7, <1>8, <1>9 DEF One, A
<1>10. CASE Head(s).kind # k
  BY <1>4, <1>6, <1>7, <1>8, <1>10 DEF One, A
<1> QED BY <1>9, <1>10

LEMMA WaitingFinite ==
  ASSUME NEW k
  PROVE  IsFiniteSet(Waiting(k)) /\ Cardinality(Waiting(k)) \in Nat
<1>1. Waiting(k) \in SUBSET Handlers
  BY DEF Waiting
<1> QED BY <1>1, ServiceAssumption, FS_Subset, FS_CardinalityType

(* A peer begins to wait on the channel of what it works on.               *)
LEMMA WaitingGrows ==
  ASSUME Types, NEW h \in Handlers, NEW from, from # "wait",
         Go(h, from, "wait"), kind' = kind, NEW k
  PROVE  Cardinality(Waiting(k)') = Cardinality(Waiting(k)) + One(kind[h] = k)
<1>1. IsFiniteSet(Waiting(k)) /\ Cardinality(Waiting(k)) \in Nat
  BY WaitingFinite
<1>2. h \notin Waiting(k)
  BY DEF Waiting, Go
<1>3. \A x \in Handlers : x \in Waiting(k)' <=> x \in Waiting(k) \/ (x = h /\ kind[h] = k)
  BY DEF Waiting, Go, Types, Threads
<1>4. Waiting(k)' = IF kind[h] = k THEN Waiting(k) \cup {h} ELSE Waiting(k)
  BY <1>3 DEF Waiting
<1>5. CASE kind[h] = k
  <2>1. Cardinality(Waiting(k) \cup {h}) = Cardinality(Waiting(k)) + 1
    BY <1>1, <1>2, FS_AddElement
  <2> QED BY <1>4, <1>5, <2>1 DEF One
<1>6. CASE kind[h] # k
  BY <1>1, <1>4, <1>6 DEF One
<1> QED BY <1>5, <1>6

(* A peer takes an answer.                                                 *)
LEMMA WaitingShrinks ==
  ASSUME Types, NEW h \in Handlers, NEW to, to # "wait",
         Go(h, "wait", to), kind' = kind, NEW k
  PROVE  Cardinality(Waiting(k)) = Cardinality(Waiting(k)') + One(kind[h] = k)
<1>1. IsFiniteSet(Waiting(k)) /\ Cardinality(Waiting(k)) \in Nat
  BY WaitingFinite
<1>2. h \in Waiting(k) <=> kind[h] = k
  BY DEF Waiting, Go
<1>3. \A x \in Handlers : x \in Waiting(k)' <=> x \in Waiting(k) /\ x # h
  BY DEF Waiting, Go, Types, Threads
<1>4. Waiting(k)' = Waiting(k) \ {h}
  BY <1>3 DEF Waiting
<1>5. CASE kind[h] = k
  <2>1. Cardinality(Waiting(k) \ {h}) = Cardinality(Waiting(k)) - 1
    BY <1>1, <1>2, <1>5, FS_RemoveElement
  <2> QED BY <1>1, <1>4, <1>5, <2>1 DEF One
<1>6. CASE kind[h] # k
  <2>1. Waiting(k)' = Waiting(k)
    BY <1>2, <1>4, <1>6
  <2> QED BY <1>1, <1>6, <2>1 DEF One
<1> QED BY <1>5, <1>6

(* A goroutine that goes from one place to another, neither of them the    *)
(* wait, leaves the waiting ones as they are.                              *)
LEMMA WaitingSame ==
  ASSUME Types, NEW t \in Threads, NEW from, NEW to, from # "wait", to # "wait",
         Go(t, from, to), NEW k,
         \A h \in Handlers : kind'[h] = kind[h] \/ h = t
  PROVE  Waiting(k)' = Waiting(k)
BY DEF Waiting, Go, Types, Threads
-----------------------------------------------------------------------------
(* The steps.                                                              *)

LEMMA InitIInv == Init => IInv
<1> SUFFICES ASSUME Init PROVE IInv
  OBVIOUS
<1>1. Types
  BY DEF Init, Types, Shared, Message, Place
<1>2. ASSUME NEW k \in Shared
      PROVE  Owed(k) = 0 /\ Cardinality(Waiting(k)) = 0
  <2>1. Queued(msgChan, k) = {} /\ Waiting(k) = {}
    BY DEF Init, Queued, Waiting, Threads
  <2>2. processed[k] = 0 /\ InHand(k) = 0
    BY <1>2 DEF Init, Shared, InHand
  <2> QED BY <2>1, <2>2, FS_EmptySet DEF Owed
<1> QED BY <1>1, <1>2 DEF IInv, AnswersBalance, Shared

LEMMA NextTypes ==
  ASSUME Types, [Next]_vars
  PROVE  Types'
<1> USE DEF Types
<1>1. ASSUME NEW h \in Handlers, OnBlockOrTx(h) PROVE Types'
  BY <1>1 DEF OnBlockOrTx, Go, Place, channels, managerVars, Threads, Shared
<1>2. ASSUME NEW t \in Callers, Begin(t) PROVE Types'
  BY <1>2 DEF Begin, Go, Place, channels, managerVars
<1>3. ASSUME NEW t \in Threads, NEW m \in Shared \cup {"current", "post"}, SendMsg(m, t)
      PROVE  msgChan' \in Seq(Message)
  BY <1>3 DEF SendMsg, Message
<1>4. ASSUME NEW h \in Handlers, HandlerStep(h) PROVE Types'
  <2>1. CASE CheckShutdown(h)
    BY <2>1 DEF CheckShutdown, Go, Place, channels, managerVars
  <2>2. CASE QueueMsg(h)
    BY <2>2, <1>3 DEF QueueMsg, Go, Place, managerVars, Threads
  <2>3. CASE QueueDone(h)
    BY <2>3 DEF QueueDone, Go, Place, managerVars
  <2>4. CASE TakeAnswer(h)
    BY <2>4 DEF TakeAnswer, Go, Place, managerVars
  <2>5. CASE BlockCommitted(h)
    BY <2>5 DEF BlockCommitted, Go, Place, channels, managerVars, Shared
  <2> QED BY <1>4, <2>1, <2>2, <2>3, <2>4, <2>5 DEF HandlerStep
<1>5. ASSUME NEW t \in Threads, Post(t) \/ SendPost(t) \/ AskCurrent(t) \/ Report(t)
      PROVE  Types'
  <2>1. CASE Post(t)
    BY <2>1 DEF Post, Go, Place, channels, managerVars
  <2>2. CASE SendPost(t)
    BY <2>2, <1>3 DEF SendPost, Go, Place, managerVars
  <2>3. CASE AskCurrent(t)
    BY <2>3, <1>3 DEF AskCurrent, Go, Place, managerVars
  <2>4. CASE Report(t)
    BY <2>4 DEF Report, Go, Place, managerVars
  <2> QED BY <1>5, <2>1, <2>2, <2>3, <2>4
<1>6. CASE ManagerWork
  <2>1. CASE TakePost
    BY <2>1 DEF TakePost, others
  <2>2. CASE AnswerCurrent
    <3>1. at' \in [Threads -> Place]
      BY <2>2 DEF AnswerCurrent, Go, Place
    <3> QED BY <3>1, <2>2 DEF AnswerCurrent, managerVars
  <2>3. CASE TakeWork
    <3>1. Head(msgChan) \in Message
      BY <2>3 DEF TakeWork
    <3> QED BY <3>1, <2>3 DEF TakeWork, others, Shared
  <2>4. CASE HandleWork
    BY <2>4 DEF HandleWork, others
  <2>5. CASE Reply
    BY <2>5 DEF Reply, others
  <2> QED BY <1>6, <2>1, <2>2, <2>3, <2>4, <2>5 DEF ManagerWork
<1>7. CASE ManagerQuit \/ ManagerDrain
  BY <1>7 DEF ManagerQuit, ManagerDrain, others
<1>8. CASE HandleTxMsg \/ TxHandlerQuit \/ Stop
  BY <1>8 DEF HandleTxMsg, TxHandlerQuit, Stop, managerVars
<1>9. CASE UNCHANGED vars
  BY <1>9 DEF vars
<1> QED BY <1>1, <1>2, <1>4, <1>5, <1>6, <1>7, <1>8, <1>9 DEF Next, Continue

LEMMA OwedNat ==
  ASSUME Types, NEW k \in Shared
  PROVE  Owed(k) \in Nat
<1>1. msgChan \in Seq(Message) /\ processed[k] \in Nat /\ InHand(k) \in Nat
  BY DEF Types, InHand
<1>2. Cardinality(Queued(msgChan, k)) \in Nat
  BY <1>1, QueuedFinite
<1> QED BY <1>1, <1>2 DEF Owed

(* The sums stay equal, or within the bound, when both change by the same. *)
LEMMA SameChange ==
  ASSUME IInv, Types',
         \A k \in Shared : \E n \in {-1, 0, 1} :
            /\ Owed(k)' = Owed(k) + n
            /\ Cardinality(Waiting(k)') = Cardinality(Waiting(k)) + n,
         manager' \notin {"drain", "gone"} => manager \notin {"drain", "gone"}
  PROVE  AnswersBalance'
<1> SUFFICES ASSUME NEW k \in Shared
             PROVE  /\ Owed(k)' <= Cardinality(Waiting(k)')
                    /\ manager' \notin {"drain", "gone"} =>
                         Owed(k)' = Cardinality(Waiting(k)')
  BY DEF AnswersBalance, Shared
<1>1. /\ Owed(k) <= Cardinality(Waiting(k))
      /\ manager \notin {"drain", "gone"} => Owed(k) = Cardinality(Waiting(k))
  BY DEF IInv, AnswersBalance, Shared
<1>2. Owed(k) \in Nat
  BY OwedNat DEF IInv
<1>3. Cardinality(Waiting(k)) \in Nat
  BY WaitingFinite
<1> QED BY <1>1, <1>2, <1>3

(* A step that touches neither side.                                       *)
LEMMA NoChange ==
  ASSUME IInv, Types', \A k \in Shared : Waiting(k)' = Waiting(k),
         \A k \in Shared : Owed(k)' = Owed(k),
         manager' \notin {"drain", "gone"} => manager \notin {"drain", "gone"}
  PROVE  AnswersBalance'
<1>1. \A k \in Shared : Owed(k) \in Nat
  BY OwedNat DEF IInv
<1>2. \A k \in Shared : Cardinality(Waiting(k)) \in Nat
  BY WaitingFinite
<1>3. \A k \in Shared : /\ Owed(k)' = Owed(k) + 0
                        /\ Cardinality(Waiting(k)') = Cardinality(Waiting(k)) + 0
  BY <1>1, <1>2
<1> QED BY <1>3, SameChange

(* A message without an answer is sent by a goroutine that does not wait.  *)
LEMMA SendOther ==
  ASSUME Types, NEW t, NEW m \in {"current", "post"}, SendMsg(m, t), t \in Threads,
         NEW k \in Shared, UNCHANGED <<processed, managerVars>>
  PROVE  Owed(k)' = Owed(k)
<1> DEFINE msg == [kind |-> m, from |-> t]
<1>1. msg \in Message /\ msg.kind # k
  BY DEF Message, Shared
<1>2. Cardinality(Queued(msgChan', k)) = Cardinality(Queued(msgChan, k)) + One(msg.kind = k)
  BY <1>1, QueuedAppend DEF SendMsg, Types
<1>3. Cardinality(Queued(msgChan, k)) \in Nat
  BY QueuedFinite DEF Types
<1> QED BY <1>1, <1>2, <1>3 DEF One, Owed, InHand, managerVars

(* The manager takes a message that has no answer.                         *)
LEMMA TakeOther ==
  ASSUME Types, msgChan # <<>>, Head(msgChan).kind \notin Shared,
         msgChan' = Tail(msgChan), NEW k \in Shared,
         UNCHANGED <<processed, managerVars>>
  PROVE  Owed(k)' = Owed(k)
<1>1. Tail(msgChan) \in Seq(Message)
  BY DEF Types
<1>2. Cardinality(Queued(Tail(msgChan), k)) \in Nat
  BY <1>1, QueuedFinite
<1>3. Cardinality(Queued(msgChan, k)) = Cardinality(Queued(Tail(msgChan), k))
  BY <1>2, QueuedTail DEF One, Types
<1> QED BY <1>3 DEF Owed, InHand, managerVars

(* The steps of a peer's handler: the three that change the sums change    *)
(* both.                                                                   *)
LEMMA HandlerBalance ==
  ASSUME IInv, Types', NEW h \in Handlers, HandlerStep(h)
  PROVE  AnswersBalance'
<1>0. Types /\ h \in Threads /\ kind[h] \in Shared
  BY DEF IInv, Types, Threads
<1>1. CASE CheckShutdown(h) \/ BlockCommitted(h)
  <2>1. \A k \in Shared : Waiting(k)' = Waiting(k)
    BY <1>0, <1>1, WaitingSame DEF CheckShutdown, BlockCommitted, Types
  <2>2. \A k \in Shared : Owed(k)' = Owed(k)
    BY <1>1 DEF CheckShutdown, BlockCommitted, Owed, InHand, channels, managerVars
  <2>3. manager' = manager
    BY <1>1 DEF CheckShutdown, BlockCommitted, managerVars
  <2> QED BY <2>1, <2>2, <2>3, NoChange
<1>2. CASE QueueMsg(h)
  <2> DEFINE msg == [kind |-> kind[h], from |-> h]
  <2>1. msg \in Message /\ msg.kind = kind[h]
    BY <1>0 DEF Message
  <2>2. /\ msgChan' = Append(msgChan, msg) /\ processed' = processed
        /\ manager' = manager /\ cur' = cur /\ kind' = kind /\ Go(h, "send", "wait")
    BY <1>2 DEF QueueMsg, SendMsg, managerVars
  <2>3. ASSUME NEW k \in Shared
        PROVE  /\ Owed(k)' = Owed(k) + One(kind[h] = k)
               /\ Cardinality(Waiting(k)') = Cardinality(Waiting(k)) + One(kind[h] = k)
    <3>1. Cardinality(Queued(msgChan', k))
            = Cardinality(Queued(msgChan, k)) + One(kind[h] = k)
      BY <1>0, <2>1, <2>2, QueuedAppend DEF Types
    <3>2. Cardinality(Queued(msgChan, k)) \in Nat
      BY <1>0, QueuedFinite DEF Types
    <3>3. InHand(k)' = InHand(k) /\ InHand(k) \in Nat /\ processed[k] \in Nat
      BY <1>0, <2>2 DEF InHand, Types
    <3>4. Cardinality(Waiting(k)') = Cardinality(Waiting(k)) + One(kind[h] = k)
      BY <1>0, <2>2, WaitingGrows
    <3> QED BY <2>2, <3>1, <3>2, <3>3, <3>4 DEF Owed, One
  <2> QED BY <2>2, <2>3, SameChange DEF One
<1>3. CASE QueueDone(h)
  <2>1. /\ processed' = [processed EXCEPT ![kind[h]] = 1] /\ processed[kind[h]] = 0
        /\ msgChan' = msgChan /\ manager' = manager /\ cur' = cur /\ kind' = kind
        /\ Go(h, "done", "wait")
    BY <1>3 DEF QueueDone, managerVars
  <2>2. ASSUME NEW k \in Shared
        PROVE  /\ Owed(k)' = Owed(k) + One(kind[h] = k)
               /\ Cardinality(Waiting(k)') = Cardinality(Waiting(k)) + One(kind[h] = k)
    <3>1. processed'[k] = processed[k] + One(kind[h] = k) /\ processed[k] \in Nat
      BY <1>0, <2>1 DEF One, Types
    <3>2. Cardinality(Queued(msgChan, k)) \in Nat
      BY <1>0, QueuedFinite DEF Types
    <3>3. InHand(k)' = InHand(k) /\ InHand(k) \in Nat
      BY <1>0, <2>1 DEF InHand, Types
    <3>4. Cardinality(Waiting(k)') = Cardinality(Waiting(k)) + One(kind[h] = k)
      BY <1>0, <2>1, WaitingGrows
    <3> QED BY <2>1, <3>1, <3>2, <3>3, <3>4 DEF Owed, One
  <2> QED BY <2>1, <2>2, SameChange DEF One
<1>4. CASE TakeAnswer(h)
  <2> DEFINE to == IF kind[h] = "block" THEN "report" ELSE "idle"
  <2>1. /\ processed' = [processed EXCEPT ![kind[h]] = 0] /\ processed[kind[h]] = 1
        /\ msgChan' = msgChan /\ manager' = manager /\ cur' = cur /\ kind' = kind
        /\ Go(h, "wait", to) /\ to # "wait"
    BY <1>4 DEF TakeAnswer, managerVars
  <2>2. ASSUME NEW k \in Shared
        PROVE  /\ Owed(k)' = Owed(k) - One(kind[h] = k)
               /\ Cardinality(Waiting(k)') = Cardinality(Waiting(k)) - One(kind[h] = k)
    <3>1. processed'[k] = processed[k] - One(kind[h] = k) /\ processed[k] \in Nat
      BY <1>0, <2>1 DEF One, Types
    <3>2. Cardinality(Queued(msgChan, k)) \in Nat
      BY <1>0, QueuedFinite DEF Types
    <3>3. InHand(k)' = InHand(k) /\ InHand(k) \in Nat
      BY <1>0, <2>1 DEF InHand, Types
    <3>4. Cardinality(Waiting(k)) = Cardinality(Waiting(k)') + One(kind[h] = k)
      BY <1>0, <2>1, WaitingShrinks
    <3>5. Waiting(k)' \subseteq Handlers
      BY <2>1 DEF Waiting
    <3>6. Cardinality(Waiting(k)') \in Nat
      BY <3>5, ServiceAssumption, FS_Subset, FS_CardinalityType
    <3> QED BY <2>1, <3>1, <3>2, <3>3, <3>4, <3>6 DEF Owed, One
  <2>3. ASSUME NEW k \in Shared
        PROVE  \E n \in {-1, 0, 1} :
                 /\ Owed(k)' = Owed(k) + n
                 /\ Cardinality(Waiting(k)') = Cardinality(Waiting(k)) + n
    BY <1>0, <2>2, OwedNat, WaitingFinite DEF One
  <2> QED BY <2>1, <2>3, SameChange
<1> QED BY <1>1, <1>2, <1>3, <1>4 DEF HandlerStep

(* The manager takes a block or transaction, works on it and replies: what *)
(* it owes moves from the channel to its hand and into the buffer.         *)
LEMMA ManagerBalance ==
  ASSUME IInv, Types', TakeWork \/ HandleWork \/ Reply
  PROVE  AnswersBalance'
<1>0. Types
  BY DEF IInv
<1>1. \A k \in Shared : Waiting(k)' = Waiting(k)
  BY DEF TakeWork, HandleWork, Reply, others, Waiting
<1>2. manager \notin {"drain", "gone"}
  BY DEF TakeWork, HandleWork, Reply
<1>3. ASSUME NEW k \in Shared PROVE Owed(k)' = Owed(k)
  <2>1. CASE TakeWork
    <3>1. /\ msgChan # <<>> /\ msgChan' = Tail(msgChan) /\ cur' = Head(msgChan)
          /\ manager = "idle" /\ manager' = "handle" /\ processed' = processed
      BY <2>1 DEF TakeWork
    <3>2. InHand(k) = 0 /\ InHand(k)' = One(Head(msgChan).kind = k)
      BY <3>1 DEF InHand, One
    <3>3. Cardinality(Queued(msgChan, k))
            = Cardinality(Queued(Tail(msgChan), k)) + One(Head(msgChan).kind = k)
      BY <1>0, <3>1, QueuedTail DEF Types
    <3>4. Tail(msgChan) \in Seq(Message)
      BY <1>0, <3>1 DEF Types
    <3>5. Cardinality(Queued(Tail(msgChan), k)) \in Nat
      BY <3>4, QueuedFinite
    <3> QED BY <3>1, <3>2, <3>3, <3>5 DEF Owed, One
  <2>2. CASE HandleWork
    BY <2>2 DEF HandleWork, others, Owed, InHand
  <2>3. CASE Reply
    <3>1. /\ manager = "reply" /\ processed[cur.kind] = 0 /\ manager' = "idle"
          /\ processed' = [processed EXCEPT ![cur.kind] = 1] /\ msgChan' = msgChan
      BY <2>3 DEF Reply
    <3>2. InHand(k) = One(cur.kind = k) /\ InHand(k)' = 0
      BY <3>1 DEF InHand, One
    <3>3. processed'[k] = processed[k] + One(cur.kind = k) /\ processed[k] \in Nat
      BY <1>0, <3>1 DEF Types, One
    <3>4. Cardinality(Queued(msgChan, k)) \in Nat
      BY <1>0, QueuedFinite DEF Types
    <3> QED BY <3>1, <3>2, <3>3, <3>4 DEF Owed, One
  <2> QED BY <2>1, <2>2, <2>3
<1> QED BY <1>1, <1>2, <1>3, NoChange

LEMMA NextIInv == IInv /\ [Next]_vars => IInv'
<1> SUFFICES ASSUME IInv, [Next]_vars PROVE AnswersBalance'
  BY NextTypes DEF IInv
<1>0. Types /\ Types' /\ Handlers \subseteq Threads /\ Callers \subseteq Threads
  BY NextTypes DEF IInv, Threads
<1>1. ASSUME UNCHANGED <<msgChan, processed, managerVars>>,
             \A k \in Shared : Waiting(k)' = Waiting(k)
      PROVE  AnswersBalance'
  <2>1. \A k \in Shared : Owed(k)' = Owed(k)
    BY <1>1 DEF Owed, InHand, managerVars
  <2> QED BY <1>0, <1>1, <2>1, NoChange DEF managerVars
<1>2. ASSUME NEW h \in Handlers, OnBlockOrTx(h) PROVE AnswersBalance'
  <2>1. \A k \in Shared : Waiting(k)' = Waiting(k)
    BY <1>0, <1>2, WaitingSame DEF OnBlockOrTx, Types
  <2> QED BY <1>1, <1>2, <2>1 DEF OnBlockOrTx, channels
<1>3. ASSUME NEW t \in Callers, Begin(t) PROVE AnswersBalance'
  <2>1. PICK to \in {"ask", "askSend", "post", "report"} : Go(t, "idle", to)
    BY <1>3 DEF Begin
  <2>2. to # "wait"
    OBVIOUS
  <2>3. \A k \in Shared : Waiting(k)' = Waiting(k)
    BY <1>0, <1>3, <2>1, <2>2, WaitingSame DEF Begin
  <2> QED BY <1>1, <1>3, <2>3 DEF Begin, channels
<1>4. ASSUME NEW h \in Handlers, HandlerStep(h) PROVE AnswersBalance'
  BY <1>0, <1>4, HandlerBalance
<1>5. ASSUME NEW t \in Threads, Post(t) \/ Report(t) PROVE AnswersBalance'
  <2>1. PICK from, to : from # "wait" /\ to # "wait" /\ Go(t, from, to)
    BY <1>5 DEF Post, Report
  <2>2. \A k \in Shared : Waiting(k)' = Waiting(k)
    BY <1>0, <1>5, <2>1, WaitingSame DEF Post, Report
  <2> QED BY <1>1, <1>5, <2>2 DEF Post, Report, channels
<1>6. ASSUME NEW t \in Threads, SendPost(t) \/ AskCurrent(t) PROVE AnswersBalance'
  <2>1. PICK from, to : from # "wait" /\ to # "wait" /\ Go(t, from, to)
    BY <1>6 DEF SendPost, AskCurrent
  <2>2. \A k \in Shared : Waiting(k)' = Waiting(k)
    BY <1>0, <1>6, <2>1, WaitingSame DEF SendPost, AskCurrent
  <2>3. \A k \in Shared : Owed(k)' = Owed(k)
    BY <1>0, <1>6, SendOther DEF SendPost, AskCurrent
  <2>4. manager' = manager
    BY <1>6 DEF SendPost, AskCurrent, managerVars
  <2> QED BY <1>0, <2>2, <2>3, <2>4, NoChange
<1>7. CASE TakePost
  <2>1. \A k \in Shared : Waiting(k)' = Waiting(k)
    BY <1>7 DEF TakePost, others, Waiting
  <2>2. \A k \in Shared : Owed(k)' = Owed(k)
    BY <1>0, <1>7, TakeOther DEF TakePost, managerVars, Shared
  <2> QED BY <1>0, <1>7, <2>1, <2>2, NoChange DEF TakePost
<1>8. CASE AnswerCurrent
  <2>1. Head(msgChan) \in Message
    BY <1>0, <1>8 DEF AnswerCurrent, Types
  <2>5. Head(msgChan).from \in Threads
    BY <2>1 DEF Message
  <2>2. PICK from, to : from # "wait" /\ to # "wait" /\ Go(Head(msgChan).from, from, to)
    BY <1>8 DEF AnswerCurrent
  <2>3. \A k \in Shared : Waiting(k)' = Waiting(k)
    BY <1>0, <1>8, <2>5, <2>2, WaitingSame DEF AnswerCurrent
  <2>4. \A k \in Shared : Owed(k)' = Owed(k)
    BY <1>0, <1>8, TakeOther DEF AnswerCurrent, Shared
  <2> QED BY <1>0, <1>8, <2>3, <2>4, NoChange DEF AnswerCurrent, managerVars
<1>9. CASE TakeWork \/ HandleWork \/ Reply
  BY <1>0, <1>9, ManagerBalance
<1>10. CASE ManagerQuit
  <2>1. \A k \in Shared : Owed(k)' = Owed(k) /\ Waiting(k)' = Waiting(k)
    BY <1>10 DEF ManagerQuit, others, Owed, InHand, Waiting
  <2> QED BY <1>0, <1>10, <2>1, NoChange DEF ManagerQuit
<1>11. CASE ManagerDrain
  <2>1. manager' \in {"drain", "gone"} /\ manager = "drain"
    BY <1>11 DEF ManagerDrain
  <2>2. ASSUME NEW k \in Shared PROVE Owed(k)' <= Owed(k) /\ Waiting(k)' = Waiting(k)
    <3>1. Waiting(k)' = Waiting(k) /\ processed' = processed /\ processed[k] \in Nat
      BY <1>0, <1>11 DEF ManagerDrain, others, Waiting, Types
    <3>2. InHand(k) = 0 /\ InHand(k)' = 0
      BY <2>1 DEF InHand
    <3>3. Cardinality(Queued(msgChan, k)) \in Nat
      BY <1>0, QueuedFinite DEF Types
    <3>4. CASE msgChan # <<>> /\ msgChan' = Tail(msgChan)
      <4>1. Tail(msgChan) \in Seq(Message)
        BY <1>0, <3>4 DEF Types
      <4>2. Cardinality(Queued(Tail(msgChan), k)) \in Nat
        BY <4>1, QueuedFinite
      <4>3. Cardinality(Queued(msgChan, k))
              = Cardinality(Queued(Tail(msgChan), k)) + One(Head(msgChan).kind = k)
        BY <1>0, <3>4, QueuedTail DEF Types
      <4> QED BY <3>1, <3>2, <3>3, <3>4, <4>2, <4>3 DEF Owed, One
    <3>5. CASE msgChan' = msgChan
      BY <3>1, <3>2, <3>3, <3>5 DEF Owed
    <3> QED BY <1>11, <3>1, <3>4, <3>5 DEF ManagerDrain
  <2>3. ASSUME NEW k \in Shared PROVE Owed(k)' <= Cardinality(Waiting(k)')
    <3>1. Owed(k) \in Nat /\ Owed(k)' \in Nat /\ Cardinality(Waiting(k)) \in Nat
      <4>1. Owed(k) \in Nat /\ Cardinality(Waiting(k)) \in Nat
        BY <1>0, OwedNat, WaitingFinite
      <4>2. msgChan' \in Seq(Message) /\ processed'[k] \in Nat /\ InHand(k)' \in Nat
        BY <1>0, <2>1 DEF Types, InHand
      <4>3. Cardinality(Queued(msgChan', k)) \in Nat
        BY <4>2, QueuedFinite
      <4> QED BY <4>1, <4>2, <4>3 DEF Owed
    <3>2. Owed(k) <= Cardinality(Waiting(k))
      BY DEF IInv, AnswersBalance, Shared
    <3> QED BY <2>2, <3>1, <3>2
  <2> QED BY <2>1, <2>3 DEF AnswersBalance, Shared
<1>12. CASE HandleTxMsg \/ TxHandlerQuit \/ Stop
  <2>1. \A k \in Shared : Waiting(k)' = Waiting(k)
    BY <1>12 DEF HandleTxMsg, TxHandlerQuit, Stop, Waiting
  <2> QED BY <1>1, <1>12, <2>1 DEF HandleTxMsg, TxHandlerQuit, Stop, managerVars
<1>13. CASE UNCHANGED vars
  <2>1. \A k \in Shared : Waiting(k)' = Waiting(k)
    BY <1>13 DEF vars, Waiting
  <2> QED BY <1>1, <1>13, <2>1 DEF vars, managerVars
<1> QED BY <1>2, <1>3, <1>4, <1>5, <1>6, <1>7, <1>8, <1>9, <1>10, <1>11, <1>12, <1>13
        DEF Next, Continue, ManagerWork

(* The peers that wait for a block or a transaction to be processed and    *)
(* the answers on their way are equal in number until the manager drains   *)
(* its channel, and never more answers than peers (sync/manager.go:602,    *)
(* 671-692; sdk/service.go:416-429): for any number of peers on the shared *)
(* channels.                                                               *)
THEOREM AnswersAlwaysBalance == Spec => []AnswersBalance
<1>1. IInv => AnswersBalance
  BY DEF IInv
<1> QED BY InitIInv, NextIInv, <1>1, PTL DEF Spec

(* The manager never replies into the void: while it has a block or a      *)
(* transaction in hand, a peer waits for an answer on that very channel    *)
(* (msg.reply <- struct{}{}, sync/manager.go:613, 617), who will make room *)
(* for the reply if the channel is full.                                   *)
THEOREM ReplyIsAwaited ==
  Spec => [](manager \in {"handle", "reply"} => Waiting(cur.kind) # {})
<1>1. ASSUME IInv, manager \in {"handle", "reply"} PROVE Waiting(cur.kind) # {}
  <2>1. Types /\ cur.kind \in Shared
    BY <1>1 DEF IInv, Types
  <2>2. processed[cur.kind] \in Nat /\ InHand(cur.kind) = 1
    BY <1>1, <2>1 DEF Types, InHand
  <2>3. Cardinality(Queued(msgChan, cur.kind)) \in Nat
    BY <2>1, QueuedFinite DEF Types
  <2>4. Owed(cur.kind) <= Cardinality(Waiting(cur.kind))
    BY <1>1, <2>1 DEF IInv, AnswersBalance, Shared
  <2>5. Cardinality(Waiting(cur.kind)) \in Nat /\ IsFiniteSet(Waiting(cur.kind))
    BY WaitingFinite
  <2>6. Cardinality(Waiting(cur.kind)) # 0
    BY <2>2, <2>3, <2>4, <2>5 DEF Owed
  <2> QED BY <2>5, <2>6, FS_EmptySet
<1>2. IInv => (manager \in {"handle", "reply"} => Waiting(cur.kind) # {})
  BY <1>1
<1> QED BY InitIInv, NextIInv, <1>2, PTL DEF Spec
=============================================================================
