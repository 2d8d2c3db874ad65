------------------------------ MODULE IbdProofs -----------------------------
(***************************************************************************)
(* Initial block download, for any number of peers, any chain, any batch   *)
(* size and any amount of gossip, loss and timeouts.                        *)
(*                                                                         *)
(* The loop repeats a request after every frame that is not an answer, so   *)
(* several answers to one request may be under way when the first arrives.  *)
(* What saves it is the order of the connection: the answers come in the    *)
(* order of the requests, a request lags at most one batch behind           *)
(* from_height, and one that lags gets a full batch, as the first answer to *)
(* it was full and the peer's chain has not shrunk since.  Queues says so.  *)
(***************************************************************************)
EXTENDS Ibd, SumProofs

Running == pc \in {"connect", "request", "await"}

Frames == {Push} \cup [kind : {"blocks"}, from : Nat, to : Nat]

IsBlocks(m) == m.kind = "blocks"

\* A request on the connection asks for the next batch or for the one before.
Asked(f) == f \in Nat \ {0} /\ (f = from_height \/ f = from_height - BatchSize)

\* An answer holds blocks the peers have, at most one batch; one that is not
\* full went to the end of the chain, one that lags is full.
Answer(f, t) ==
    /\ Asked(f) /\ t \in Nat
    /\ f - 1 <= t /\ t <= f + BatchSize - 1 /\ t <= network
    /\ t < f + BatchSize - 1 => t >= StartHeight
    /\ f # from_height => t = f + BatchSize - 1

\* What is on the connection, in the order in which it arrives.
QueueTypes == requests \in Seq(Nat) /\ inbox \in Seq(Frames)

AllAsked == \A i \in 1..Len(requests) : Asked(requests[i])

AskedInOrder == \A i, j \in 1..Len(requests) : i <= j => requests[i] <= requests[j]

AllAnswers == \A i \in 1..Len(inbox) : IsBlocks(inbox[i]) => Answer(inbox[i].from, inbox[i].to)

AnswersInOrder ==
    \A i, j \in 1..Len(inbox) : i <= j /\ IsBlocks(inbox[i]) /\ IsBlocks(inbox[j]) =>
        inbox[i].from <= inbox[j].from /\ inbox[i].to <= inbox[j].to

AnswersFirst ==
    \A i \in 1..Len(inbox), j \in 1..Len(requests) :
        IsBlocks(inbox[i]) => inbox[i].from <= requests[j]

Queues == QueueTypes /\ AllAsked /\ AskedInOrder /\ AllAnswers /\ AnswersInOrder /\ AnswersFirst

\* The inductive invariant.
IbdInv ==
    /\ TypeOK /\ AppliedOnce /\ ContinuesTip /\ SyncedWhenDone
    /\ tip <= network
    /\ Running => Queues
    /\ pc = "connect" => requests = <<>> /\ inbox = <<>>
    /\ pc \in {"request", "await"} => peer_idx <= NumPeers

-----------------------------------------------------------------------------
\* The blocks of a batch that get in are its first ones, up to some height,
\* and none of them had been applied (validate_block stops at the first block
\* it refuses).
LEMMA AcceptedPrefix ==
  ASSUME TypeOK, NEW f \in Nat, NEW t \in Nat, f - 1 <= t
  PROVE  \E m \in f - 1 .. t :
            /\ Accepted(f, t) = f..m
            /\ \A h \in (f..m) \cap WithTx : applied[h] = 0
            /\ Accepted(f, t) # {} => f - 1 \in stored /\ f + Cardinality(Accepted(f, t)) - 1 = m
  <1> DEFINE Refused == {h \in f..t : h \in WithTx /\ applied[h] # 0}
             ok      == Accepted(f, t)
  <1>1. \E m \in f - 1 .. t : /\ ok = f..m /\ (f - 1 \notin stored => m = f - 1)
                              /\ \A h \in (f..m) \cap WithTx : applied[h] = 0
    <2>1. CASE f - 1 \notin stored
      BY <2>1 DEF Accepted
    <2>2. CASE f - 1 \in stored /\ Refused = {}
      <3>1. ok = f..t
        BY <2>2 DEF Accepted
      <3> QED BY <2>2, <3>1
    <2>3. CASE f - 1 \in stored /\ Refused # {}
      <3>1. PICK r \in Refused : \A k \in Refused : r <= k
        <4>1. Refused \in SUBSET Nat
          OBVIOUS
        <4> HIDE DEF Refused
        <4> QED BY <4>1, <2>3, LeastNat
      <3>2. r \in f..t /\ r \in WithTx /\ applied[r] # 0
        OBVIOUS
      <3>3. \A k \in f..r - 1 : k \in WithTx => applied[k] = 0
        BY <3>1, <3>2
      <3>4. \A h \in f..t : (\A k \in f..h : k \in WithTx => applied[k] = 0) <=> h < r
        BY <3>2, <3>3
      <3>5. ok = f..r - 1
        BY <2>3, <3>2, <3>4 DEF Accepted
      <3> QED BY <2>3, <3>2, <3>3, <3>5
    <2> QED BY <2>1, <2>2, <2>3
  <1>2. PICK m \in f - 1 .. t : /\ ok = f..m /\ (f - 1 \notin stored => m = f - 1)
                              /\ \A h \in (f..m) \cap WithTx : applied[h] = 0
    BY <1>1
  <1>3. Cardinality(f..m) = IF f > m THEN 0 ELSE m - f + 1
    BY FS_Interval
  <1> QED BY <1>2, <1>3

-----------------------------------------------------------------------------
\* The numbers a step compares.
LEMMA Numbers ==
  ASSUME TypeOK
  PROVE  /\ network \in Nat /\ from_height \in Nat /\ from_height >= 1 /\ BatchSize \in Nat
         /\ BatchSize >= 1 /\ tip \in Nat /\ StartHeight \in Nat /\ StartHeight <= network
  BY IbdAssumption DEF TypeOK

\* A step that leaves the connection and from_height alone keeps the queues'
\* order: the chain the peers serve does not shrink.
LEMMA QueuesStay ==
  ASSUME TypeOK, Queues, UNCHANGED <<requests, inbox, from_height>>,
         network' \in Nat, network' >= network
  PROVE  Queues'
  <1>1. QueueTypes' /\ AskedInOrder' /\ AnswersInOrder' /\ AnswersFirst'
    BY DEF Queues, QueueTypes, AskedInOrder, AnswersInOrder, AnswersFirst
  <1>2. AllAsked'
    BY DEF Queues, AllAsked, Asked
  <1>3. AllAnswers'
    <2> SUFFICES ASSUME NEW i \in 1..Len(inbox), IsBlocks(inbox[i])
                 PROVE  Answer(inbox[i].from, inbox[i].to)'
      BY DEF AllAnswers
    <2>1. Answer(inbox[i].from, inbox[i].to)
      BY DEF Queues, AllAnswers
    <2> QED BY <2>1, Numbers DEF Answer, Asked, QueueTypes
  <1> QED BY <1>1, <1>2, <1>3 DEF Queues

\* One more request joins at the end.
LEMMA QueuesAsk ==
  ASSUME TypeOK, Queues, requests' = Append(requests, from_height),
         UNCHANGED <<network, from_height, inbox>>
  PROVE  Queues'
  <1>n. from_height \in Nat /\ from_height >= 1 /\ BatchSize \in Nat /\ BatchSize >= 1
    BY Numbers
  <1>0. requests \in Seq(Nat) /\ \A i \in 1..Len(requests) : requests[i] \in Nat /\ requests[i] <= from_height
    <2>1. requests \in Seq(Nat) /\ \A i \in 1..Len(requests) : Asked(requests[i])
      BY DEF Queues, QueueTypes, AllAsked
    <2>2. \A f : Asked(f) => f \in Nat /\ f <= from_height
      BY <1>n DEF Asked
    <2> QED BY <2>1, <2>2
  <1>1. /\ requests' \in Seq(Nat) /\ Len(requests') = Len(requests) + 1
        /\ \A i \in 1..Len(requests) : requests'[i] = requests[i]
        /\ requests'[Len(requests) + 1] = from_height
    BY <1>0, <1>n
  <1>2. AllAnswers' /\ AnswersInOrder' /\ QueueTypes'
    BY <1>1 DEF Queues, AllAnswers, AnswersInOrder, Answer, Asked, QueueTypes
  <1>3. AllAsked'
    BY <1>n, <1>0, <1>1 DEF Queues, AllAsked, Asked
  <1>4. AskedInOrder'
    BY <1>n, <1>0, <1>1 DEF Queues, AskedInOrder
  <1>5. AnswersFirst'
    <2>1. \A i \in 1..Len(inbox) : IsBlocks(inbox[i]) => inbox[i].from <= from_height
      BY <1>n DEF Queues, AllAnswers, Answer, Asked
    <2> SUFFICES ASSUME NEW i \in 1..Len(inbox), NEW j \in 1..Len(requests'), IsBlocks(inbox[i])
                 PROVE  inbox[i].from <= requests'[j]
      BY DEF AnswersFirst
    <2>2. CASE j \in 1..Len(requests)
      BY <1>1, <2>2 DEF Queues, AnswersFirst
    <2>3. CASE j = Len(requests) + 1
      BY <1>1, <2>1, <2>3
    <2> QED BY <1>0, <1>1, <2>2, <2>3
  <1> QED BY <1>2, <1>3, <1>4, <1>5 DEF Queues

\* What is left of a queue when its first element leaves.
LEMMA TailOf ==
  ASSUME NEW S, NEW s \in Seq(S), s # <<>>
  PROVE  /\ Tail(s) \in Seq(S) /\ Len(Tail(s)) = Len(s) - 1 /\ Len(s) \in Nat
         /\ 1 \in 1..Len(s) /\ Head(s) = s[1]
         /\ \A i \in 1..Len(Tail(s)) : i + 1 \in 1..Len(s) /\ Tail(s)[i] = s[i + 1]
  OBVIOUS

\* The first frame leaves, and from_height stays.
LEMMA QueuesSkip ==
  ASSUME TypeOK, Queues, inbox # <<>>, inbox' = Tail(inbox),
         UNCHANGED <<network, from_height, requests>>
  PROVE  Queues'
  <1>0. inbox \in Seq(Frames)
    BY DEF Queues, QueueTypes
  <1>1. /\ inbox' \in Seq(Frames) /\ Len(inbox') = Len(inbox) - 1 /\ Len(inbox) \in Nat
        /\ \A i \in 1..Len(inbox') : i + 1 \in 1..Len(inbox) /\ inbox'[i] = inbox[i + 1]
    BY <1>0, TailOf
  <1>2. QueueTypes' /\ AllAsked' /\ AskedInOrder'
    BY <1>1 DEF Queues, QueueTypes, AllAsked, AskedInOrder, Asked
  <1>3. AllAnswers'
    BY <1>1 DEF Queues, AllAnswers, Answer, Asked
  <1>4. AnswersInOrder'
    BY <1>1 DEF Queues, AnswersInOrder
  <1>5. AnswersFirst'
    BY <1>1 DEF Queues, AnswersFirst
  <1> QED BY <1>2, <1>3, <1>4, <1>5 DEF Queues

\* A frame that is no answer joins at the end.
LEMMA QueuesPush ==
  ASSUME TypeOK, Queues, inbox' = Append(inbox, Push),
         UNCHANGED <<network, from_height, requests>>
  PROVE  Queues'
  <1>1. /\ inbox' \in Seq(Frames) /\ Len(inbox') = Len(inbox) + 1 /\ Len(inbox) \in Nat
        /\ \A i \in 1..Len(inbox) : inbox'[i] = inbox[i]
        /\ inbox'[Len(inbox) + 1] = Push
    BY DEF Queues, QueueTypes, Frames
  <1>2. ~IsBlocks(Push)
    BY DEF IsBlocks, Push
  <1>3. \A i \in 1..Len(inbox') : IsBlocks(inbox'[i]) => i \in 1..Len(inbox) /\ inbox'[i] = inbox[i]
    BY <1>1, <1>2
  <1>4. QueueTypes' /\ AllAsked' /\ AskedInOrder'
    BY <1>1 DEF Queues, QueueTypes, AllAsked, AskedInOrder, Asked
  <1>5. AllAnswers'
    BY <1>3 DEF Queues, AllAnswers, Answer, Asked
  <1>6. AnswersInOrder'
    BY <1>3 DEF Queues, AnswersInOrder
  <1>7. AnswersFirst'
    BY <1>3 DEF Queues, AnswersFirst
  <1> QED BY <1>4, <1>5, <1>6, <1>7 DEF Queues
\* The peer answers the first request with what it has, or the answer is lost.
LEMMA QueuesReply ==
  ASSUME TypeOK, Queues, from_height <= network + 1, Reply
  PROVE  Queues'
  <1> DEFINE f == Head(requests)
             t == IF network < f + BatchSize - 1 THEN network ELSE f + BatchSize - 1
             m == Blocks(f, t)
  <1>n. /\ from_height \in Nat /\ from_height >= 1 /\ BatchSize \in Nat /\ BatchSize >= 1
        /\ network \in Nat /\ StartHeight \in Nat /\ StartHeight <= network
    BY Numbers
  <1>0. /\ requests \in Seq(Nat) /\ requests # <<>> /\ requests' = Tail(requests)
        /\ inbox' = Append(inbox, m) \/ inbox' = inbox
        /\ UNCHANGED <<network, from_height>>
    BY DEF Reply, Queues, QueueTypes, loopVars
  <1>1. /\ requests' \in Seq(Nat) /\ Len(requests') = Len(requests) - 1 /\ Len(requests) \in Nat
        /\ 1 \in 1..Len(requests) /\ f = requests[1]
        /\ \A i \in 1..Len(requests') : i + 1 \in 1..Len(requests) /\ requests'[i] = requests[i + 1]
    BY <1>0, TailOf
  <1>2. Asked(f) /\ \A i \in 1..Len(requests) : f <= requests[i]
    BY <1>1 DEF Queues, AllAsked, AskedInOrder
  <1>3. f \in Nat /\ f >= 1 /\ f <= from_height /\ (f = from_height \/ f = from_height - BatchSize)
    BY <1>n, <1>2 DEF Asked
  <1>4. Answer(f, t) /\ t \in Nat
    BY <1>n, <1>0, <1>2, <1>3 DEF Answer
  <1>5. IsBlocks(m) /\ m \in Frames /\ m.from = f /\ m.to = t
    BY <1>3, <1>4 DEF IsBlocks, Blocks, Frames
  <1>6. AllAsked' /\ AskedInOrder'
    BY <1>0, <1>1 DEF Queues, AllAsked, AskedInOrder, Asked
  <1>7. CASE inbox' = inbox
    <2>1. QueueTypes' /\ AllAnswers' /\ AnswersInOrder'
      BY <1>0, <1>1, <1>7 DEF Queues, QueueTypes, AllAnswers, AnswersInOrder, Answer, Asked
    <2>2. AnswersFirst'
      BY <1>1, <1>7 DEF Queues, AnswersFirst
    <2> QED BY <1>6, <2>1, <2>2 DEF Queues
  <1>8. CASE inbox' = Append(inbox, m)
    <2> HIDE DEF f, t, m
    <2>1. /\ inbox' \in Seq(Frames) /\ Len(inbox') = Len(inbox) + 1 /\ Len(inbox) \in Nat
          /\ \A i \in 1..Len(inbox) : inbox'[i] = inbox[i]
          /\ inbox'[Len(inbox) + 1] = m
      BY <1>8, <1>5 DEF Queues, QueueTypes
    <2>2. \A i \in 1..Len(inbox') : \/ i \in 1..Len(inbox) /\ inbox'[i] = inbox[i]
                                    \/ i = Len(inbox) + 1 /\ inbox'[i] = m
      BY <2>1
    <2>3. QueueTypes'
      BY <1>1, <2>1 DEF QueueTypes
    <2>4. AllAnswers'
      BY <1>0, <1>4, <1>5, <2>2 DEF Queues, AllAnswers, Answer, Asked
    <2>5. \A i \in 1..Len(inbox) : IsBlocks(inbox[i]) =>
             inbox[i].from \in Nat /\ inbox[i].to \in Nat /\ inbox[i].from <= f /\ inbox[i].to <= t
      <3> SUFFICES ASSUME NEW i \in 1..Len(inbox), IsBlocks(inbox[i])
                   PROVE  inbox[i].from \in Nat /\ inbox[i].to \in Nat /\ inbox[i].from <= f /\ inbox[i].to <= t
        OBVIOUS
      <3>1. Answer(inbox[i].from, inbox[i].to) /\ inbox[i].from <= f
        BY <1>1 DEF Queues, AllAnswers, AnswersFirst
      <3> QED BY <3>1, <1>n, <1>3 DEF Answer, Asked, t
    <2>6. AnswersInOrder'
      <3> SUFFICES ASSUME NEW i \in 1..Len(inbox'), NEW j \in 1..Len(inbox'), i <= j,
                          IsBlocks(inbox'[i]), IsBlocks(inbox'[j])
                   PROVE  inbox'[i].from <= inbox'[j].from /\ inbox'[i].to <= inbox'[j].to
        BY DEF AnswersInOrder
      <3>1. CASE j \in 1..Len(inbox)
        BY <2>1, <2>2, <3>1 DEF Queues, AnswersInOrder
      <3>2. CASE j = Len(inbox) + 1 /\ i \in 1..Len(inbox)
        BY <2>1, <2>5, <3>2, <1>5
      <3>3. CASE j = Len(inbox) + 1 /\ i = Len(inbox) + 1
        BY <2>1, <3>3, <1>5, <1>3, <1>4
      <3> QED BY <2>1, <2>2, <3>1, <3>2, <3>3
    <2>7. AnswersFirst'
      <3> SUFFICES ASSUME NEW i \in 1..Len(inbox'), NEW j \in 1..Len(requests'), IsBlocks(inbox'[i])
                   PROVE  inbox'[i].from <= requests'[j]
        BY DEF AnswersFirst
      <3>1. CASE i \in 1..Len(inbox)
        BY <1>1, <2>1, <3>1 DEF Queues, AnswersFirst
      <3>2. CASE i = Len(inbox) + 1
        BY <1>1, <1>2, <1>5, <2>1, <3>2
      <3> QED BY <2>1, <3>1, <3>2
    <2> QED BY <1>6, <2>3, <2>4, <2>6, <2>7 DEF Queues
  <1> QED BY <1>0, <1>7, <1>8
\* A full batch is stored: what is still on the connection asks for the batch
\* just stored, or is an answer to it, and those answers are full too.
LEMMA QueuesReceive ==
  ASSUME TypeOK, Queues, inbox # <<>>, IsBlocks(Head(inbox)), inbox' = Tail(inbox),
         from_height' = Head(inbox).to + 1,
         Head(inbox).to = Head(inbox).from + BatchSize - 1,
         UNCHANGED <<network, requests>>
  PROVE  Queues'
  <1> DEFINE f == Head(inbox).from
             t == Head(inbox).to
  <1>n. from_height \in Nat /\ from_height >= 1 /\ BatchSize \in Nat /\ BatchSize >= 1 /\ network \in Nat
    BY Numbers
  <1>0. inbox \in Seq(Frames) /\ requests \in Seq(Nat)
    BY DEF Queues, QueueTypes
  <1>1. /\ inbox' \in Seq(Frames) /\ Len(inbox') = Len(inbox) - 1 /\ Len(inbox) \in Nat
        /\ 1 \in 1..Len(inbox) /\ Head(inbox) = inbox[1]
        /\ \A i \in 1..Len(inbox') : i + 1 \in 1..Len(inbox) /\ inbox'[i] = inbox[i + 1]
    BY <1>0, TailOf
  <1>2. Answer(f, t)
    BY <1>1 DEF Queues, AllAnswers
  <1>3. /\ f \in Nat /\ t \in Nat /\ f >= 1 /\ from_height' = f + BatchSize
        /\ f = from_height \/ from_height = f + BatchSize
    BY <1>2, <1>n DEF Answer, Asked
  <1>4. ASSUME NEW g, Asked(g), f <= g PROVE Asked(g)' /\ (g # f => g = from_height' /\ from_height' = from_height)
    BY <1>n, <1>3, <1>4 DEF Asked
  <1>5. \A i \in 1..Len(inbox) : IsBlocks(inbox[i]) =>
           /\ Answer(inbox[i].from, inbox[i].to)
           /\ f <= inbox[i].from /\ t <= inbox[i].to
    BY <1>1 DEF Queues, AllAnswers, AnswersInOrder
  <1> HIDE DEF f, t
  <1>6. ASSUME NEW g, NEW u, Answer(g, u), f <= g, t <= u PROVE Answer(g, u)'
    <2>1. Asked(g)'
      BY <1>4, <1>6 DEF Answer
    <2>2. CASE g = f
      BY <1>n, <1>3, <1>6, <2>1, <2>2 DEF Answer, Asked, t, f
    <2>3. CASE g # f
      BY <1>n, <1>3, <1>4, <1>6, <2>1, <2>3 DEF Answer
    <2> QED BY <2>2, <2>3
  <1>7. AllAnswers'
    BY <1>1, <1>5, <1>6 DEF AllAnswers
  <1>8. AllAsked'
    <2>1. \A i \in 1..Len(requests) : Asked(requests[i]) /\ f <= requests[i]
      BY <1>1 DEF Queues, AllAsked, AnswersFirst, f
    <2> QED BY <2>1, <1>4 DEF AllAsked
  <1>9. QueueTypes' /\ AskedInOrder'
    BY <1>0, <1>1 DEF Queues, QueueTypes, AskedInOrder
  <1>10. AnswersInOrder'
    BY <1>1 DEF Queues, AnswersInOrder
  <1>11. AnswersFirst'
    BY <1>1 DEF Queues, AnswersFirst
  <1> QED BY <1>7, <1>8, <1>9, <1>10, <1>11 DEF Queues
-----------------------------------------------------------------------------
\* A batch is stored, in full or up to the first block refused: whichever
\* request it answers, the store stays the chain up to the tip.
LEMMA ReceiveKeeps ==
  ASSUME IbdInv, ReceiveBlocks
  PROVE  IbdInv'
  <1> DEFINE f  == Head(inbox).from
             t  == Head(inbox).to
             ok == Accepted(f, t)
  <1>n. /\ from_height \in Nat /\ from_height >= 1 /\ BatchSize \in Nat /\ BatchSize >= 1
        /\ network \in Nat /\ tip \in Nat /\ StartHeight \in Nat
        /\ MaxHeight \in Nat /\ network <= MaxHeight
    BY Numbers, IbdAssumption DEF IbdInv, TypeOK
  <1>0. /\ pc = "await" /\ inbox # <<>> /\ IsBlocks(Head(inbox)) /\ inbox' = Tail(inbox)
        /\ Queues /\ stored = 0..tip /\ from_height = tip + 1 /\ tip <= network
        /\ peer_idx <= NumPeers
    BY DEF ReceiveBlocks, IbdInv, IsBlocks, Running, ContinuesTip
  <1>1. Answer(f, t)
    <2>1. inbox \in Seq(Frames)
      BY <1>0 DEF Queues, QueueTypes
    <2>2. 1 \in 1..Len(inbox) /\ Head(inbox) = inbox[1]
      BY <1>0, <2>1, TailOf
    <2> QED BY <1>0, <2>2 DEF Queues, AllAnswers
  <1>2. /\ f \in Nat /\ t \in Nat /\ f >= 1 /\ f - 1 <= t /\ t <= f + BatchSize - 1 /\ t <= network
        /\ f = tip + 1 \/ (t = tip /\ f + BatchSize = tip + 1)
        /\ t < f + BatchSize - 1 => t >= StartHeight
    BY <1>n, <1>0, <1>1 DEF Answer, Asked
  <1>3. PICK m \in f - 1 .. t :
            /\ ok = f..m
            /\ \A h \in (f..m) \cap WithTx : applied[h] = 0
            /\ ok # {} => f + Cardinality(ok) - 1 = m
    BY <1>2, AcceptedPrefix DEF IbdInv
  <1>4. /\ stored' = stored \cup ok
        /\ applied' = [h \in WithTx |-> IF h \in ok THEN applied[h] + 1 ELSE applied[h]]
        /\ tip' = IF ok = {} THEN tip ELSE m
        /\ ok = f..t => /\ from_height' = IF t < f THEN from_height ELSE t + 1
                       /\ pc' = IF t - f + 1 < BatchSize THEN "done" ELSE "request"
        /\ ok # f..t => pc' = "aborted" /\ from_height' = from_height
        /\ timeouts' = 0 /\ UNCHANGED <<network, gossip, peer_idx, retries, initial, requests>>
    BY <1>3 DEF ReceiveBlocks, AfterBatch
  <1> HIDE DEF f, t, ok
  <1>5. m \in Int /\ f - 1 <= m /\ m <= t /\ (ok = {} <=> m = f - 1) /\ (ok = f..t <=> m = t)
    BY <1>2, <1>3
  <1>6. AppliedOnce' /\ applied' \in [WithTx -> Nat]
    <2>1. \A h \in WithTx : applied[h] \in Nat /\ applied[h] <= 1
      BY DEF IbdInv, TypeOK, AppliedOnce
    <2>2. \A h \in WithTx : h \in ok => applied[h] = 0
      BY <1>3
    <2> QED BY <1>4, <2>1, <2>2 DEF AppliedOnce
  <1>7. stored' \subseteq 0..MaxHeight /\ tip' \in stored' /\ tip' <= network'
    BY <1>n, <1>0, <1>2, <1>3, <1>4, <1>5
  <1>8. ASSUME m = t
        PROVE  /\ stored' = 0..tip' /\ from_height' = tip' + 1 /\ tip' = t
               /\ t < f => pc' = "done" /\ t >= StartHeight
    <2>1. CASE t < f
      <3>1. t = f - 1 /\ f = tip + 1 /\ ok = {} /\ tip' = tip /\ from_height' = from_height
        BY <1>n, <1>2, <1>4, <1>5, <1>8, <2>1
      <3>2. pc' = "done" /\ t >= StartHeight
        BY <1>n, <1>2, <1>4, <1>5, <1>8, <3>1
      <3> QED BY <1>0, <1>4, <1>n, <1>2, <3>1, <3>2
    <2>2. CASE t >= f
      <3>1. tip' = t /\ from_height' = t + 1
        BY <1>n, <1>2, <1>4, <1>5, <1>8, <2>2
      <3>2. 0..tip \cup f..t = 0..t
        BY <1>n, <1>2, <2>2
      <3>3. stored' = 0..t
        BY <1>0, <1>3, <1>4, <1>8, <3>2
      <3>4. ~(t < f)
        BY <1>2, <2>2
      <3> QED BY <3>1, <3>3, <3>4
    <2> QED BY <1>2, <2>1, <2>2
  <1>9. CASE m # t
    <2>1. pc' = "aborted" /\ from_height' = from_height
      BY <1>4, <1>5, <1>9
    <2> QED BY <1>4, <1>6, <1>7, <2>1, IbdAssumption
            DEF IbdInv, TypeOK, ContinuesTip, SyncedWhenDone, Running
  <1>10. CASE m = t
    <2>1. pc' \in {"done", "request"} /\ (pc' = "done" => tip' >= StartHeight)
      BY <1>n, <1>2, <1>4, <1>5, <1>8, <1>10
    <2>2. ContinuesTip' /\ SyncedWhenDone'
      BY <1>8, <1>10, <2>1 DEF ContinuesTip, SyncedWhenDone
    <2>3. TypeOK'
      <3>1. from_height' \in 1..MaxHeight + 1 /\ timeouts' \in 0..MaxTimeouts - 1
        BY <1>n, <1>2, <1>4, <1>8, <1>10, IbdAssumption
      <3> QED BY <1>4, <1>6, <1>7, <2>1, <3>1 DEF IbdInv, TypeOK
    <2>4. CASE pc' = "done"
      BY <1>6, <1>7, <2>2, <2>3, <2>4 DEF IbdInv, Running
    <2>5. CASE pc' = "request"
      <3>1. t = f + BatchSize - 1 /\ from_height' = t + 1
        BY <1>n, <1>2, <1>4, <1>5, <1>8, <1>10, <2>5
      <3>2. Queues'
        BY <1>0, <1>4, <3>1, QueuesReceive DEF f, t, IbdInv
      <3> QED BY <1>0, <1>4, <1>6, <1>7, <2>2, <2>3, <2>5, <3>2 DEF IbdInv
    <2> QED BY <2>1, <2>4, <2>5
  <1> QED BY <1>9, <1>10
\* The other steps of the loop, and the peers', store nothing; each leaves the
\* connection empty, as it was, or in order.
LEMMA LoopKeeps ==
  ASSUME IbdInv, UNCHANGED storeVars, TypeOK', network' >= network, SyncedWhenDone',
         pc # "aborted" => from_height' = from_height, pc = "aborted" <=> pc' = "aborted",
         Running' => Queues',
         pc' = "connect" => requests' = <<>> /\ inbox' = <<>>,
         pc' \in {"request", "await"} => peer_idx' <= NumPeers
  PROVE  IbdInv'
  <1>1. tip' <= network'
    BY Numbers, IbdAssumption DEF IbdInv, TypeOK, storeVars
  <1>2. AppliedOnce' /\ ContinuesTip'
    BY DEF IbdInv, AppliedOnce, ContinuesTip, storeVars
  <1> QED BY <1>1, <1>2 DEF IbdInv

\* A new connection holds nothing but the peer's push of its tip.
Fresh == requests = <<>> /\ (inbox = <<>> \/ inbox = <<Push>>)

\* A new connection is in order.
LEMMA QueuesFresh == Fresh => Queues
  <1> SUFFICES ASSUME Fresh PROVE Queues
    OBVIOUS
  <1>1. Push \in Frames /\ ~IsBlocks(Push)
    BY DEF Frames, IsBlocks, Push
  <1>2. requests \in Seq(Nat) /\ Len(requests) = 0
    BY DEF Fresh
  <1>3. inbox \in Seq(Frames) /\ \A i \in 1..Len(inbox) : inbox[i] = Push
    <2>1. CASE inbox = <<>>
      BY <2>1
    <2>2. CASE inbox = <<Push>>
      <3> HIDE DEF Push, Frames
      <3>1. \A i \in 1..1 : <<Push>>[i] = Push
        OBVIOUS
      <3>2. <<Push>> \in Seq(Frames) /\ Len(<<Push>>) = 1
        BY <1>1
      <3> QED BY <2>2, <3>1, <3>2
    <2> QED BY <2>1, <2>2 DEF Fresh
  <1> QED BY <1>1, <1>2, <1>3
          DEF Queues, QueueTypes, AllAsked, AskedInOrder, AllAnswers, AnswersInOrder, AnswersFirst

\* Every step keeps the invariant.
LEMMA IbdStep ==
  ASSUME IbdInv, [Next]_vars
  PROVE  IbdInv'
  <1> USE IbdAssumption
  <1>q. ASSUME Running PROVE Queues /\ from_height <= network + 1
    BY <1>q, Numbers DEF IbdInv, Running, ContinuesTip
  <1>n. TypeOK /\ network \in Nat
    BY Numbers DEF IbdInv
  <1>f. Fresh' => Queues'
    BY QueuesFresh, PTL
  <1>1. CASE Connect
    <2>1. TypeOK' /\ SyncedWhenDone' /\ UNCHANGED storeVars /\ network' >= network
      BY <1>1, <1>n DEF Connect, TypeOK, SyncedWhenDone, loopVars, storeVars, connVars
    <2>2. Queues'
      <3>1. requests' = <<>> /\ (inbox' = <<>> \/ inbox' = <<Push>>)
        BY <1>1 DEF Connect, IbdInv, connVars
      <3> QED BY <3>1, <1>f DEF Fresh
    <2> QED BY <1>1, <2>1, <2>2, LoopKeeps DEF Connect, IbdInv, connVars, loopVars
  <1>2. CASE OutOfPeers
    <2>1. TypeOK' /\ SyncedWhenDone' /\ UNCHANGED storeVars /\ network' >= network
      BY <1>2, <1>n DEF OutOfPeers, TypeOK, SyncedWhenDone, storeVars, connVars
    <2>2. Running' => Queues'
      BY <1>2, <1>n, <1>q, QueuesStay DEF OutOfPeers, Running, connVars
    <2> QED BY <1>2, <2>1, <2>2, LoopKeeps DEF OutOfPeers, IbdInv, connVars
  <1>3. CASE Request
    <2>1. TypeOK' /\ SyncedWhenDone' /\ UNCHANGED storeVars /\ network' >= network
      BY <1>3, <1>n DEF Request, TypeOK, SyncedWhenDone, storeVars, loopVars
    <2>2. Queues'
      BY <1>3, <1>n, <1>q, QueuesAsk DEF Request, Running, loopVars
    <2> QED BY <1>3, <2>1, <2>2, LoopKeeps DEF Request, loopVars, IbdInv
  <1>4. CASE Timeout
    <2>1. TypeOK' /\ SyncedWhenDone' /\ UNCHANGED storeVars /\ network' >= network
      <3>1. /\ pc \in {"request", "await"} /\ pc' \in {"connect", "request"}
            /\ timeouts' \in 0..MaxTimeouts - 1 /\ UNCHANGED <<network, storeVars>>
        BY <1>4, <1>n DEF Timeout, NextPeer, TypeOK
      <3>2. peer_idx <= NumPeers
        BY <3>1 DEF IbdInv
      <3> QED BY <1>4, <1>n, <3>1, <3>2 DEF Timeout, NextPeer, TypeOK, SyncedWhenDone, storeVars
    <2>2. Queues'
      <3>1. CASE timeouts + 1 >= MaxTimeouts
        BY <1>4, <3>1, <1>f DEF Timeout, NextPeer, Fresh
      <3>2. CASE ~(timeouts + 1 >= MaxTimeouts)
        BY <1>4, <1>n, <1>q, <3>2, QueuesStay DEF Timeout, Running, connVars
      <3> QED BY <3>1, <3>2
    <2> QED BY <1>4, <2>1, <2>2, LoopKeeps DEF Timeout, NextPeer, IbdInv
  <1>5. CASE Disconnect
    <2>1. TypeOK' /\ SyncedWhenDone' /\ UNCHANGED storeVars /\ network' >= network
      <3>1. /\ pc \in {"request", "await"} /\ pc' \in {"connect", "request"}
            /\ timeouts' \in 0..MaxTimeouts - 1 /\ UNCHANGED <<network, storeVars>>
        BY <1>5, <1>n DEF Disconnect, NextPeer, TypeOK
      <3>2. peer_idx <= NumPeers
        BY <3>1 DEF IbdInv
      <3> QED BY <1>5, <1>n, <3>1, <3>2 DEF Disconnect, NextPeer, TypeOK, SyncedWhenDone, storeVars
    <2>2. Queues'
      BY <1>5, <1>f DEF Disconnect, NextPeer, Fresh
    <2> QED BY <1>5, <2>1, <2>2, LoopKeeps DEF Disconnect, NextPeer
  <1>6. CASE SkipFrame
    <2>1. TypeOK' /\ SyncedWhenDone' /\ UNCHANGED storeVars /\ network' >= network
      BY <1>6, <1>n DEF SkipFrame, TypeOK, SyncedWhenDone, storeVars
    <2>2. Queues'
      BY <1>6, <1>n, <1>q, QueuesSkip DEF SkipFrame, Running
    <2> QED BY <1>6, <2>1, <2>2, LoopKeeps DEF SkipFrame, IbdInv
  <1>7. CASE ReceiveBlocks
    BY <1>7, ReceiveKeeps
  <1>8. CASE Reply
    <2>1. TypeOK' /\ SyncedWhenDone' /\ UNCHANGED storeVars /\ network' >= network
      <3>1. UNCHANGED <<network, gossip, stored, tip, applied, from_height, peer_idx, timeouts,
                        retries, initial, pc>>
        BY <1>8 DEF Reply, storeVars, loopVars
      <3>2. TypeOK' /\ network' >= network
        BY <1>n, <3>1 DEF TypeOK
      <3>3. SyncedWhenDone'
        BY <3>1 DEF IbdInv, SyncedWhenDone
      <3> QED BY <3>1, <3>2, <3>3 DEF storeVars
    <2>2. Running' => Queues'
      BY <1>8, <1>n, <1>q, QueuesReply DEF Reply, Running
    <2> QED BY <1>8, <2>1, <2>2, LoopKeeps DEF Reply, loopVars, IbdInv
  <1>9. CASE PushGossip
    <2>1. TypeOK' /\ SyncedWhenDone' /\ UNCHANGED storeVars /\ network' >= network
      BY <1>9, <1>n DEF PushGossip, TypeOK, SyncedWhenDone, storeVars, loopVars
    <2>2. Queues'
      BY <1>9, <1>n, <1>q, QueuesPush DEF PushGossip, Running, loopVars
    <2> QED BY <1>9, <2>1, <2>2, LoopKeeps DEF PushGossip, loopVars, IbdInv
  <1>10. CASE Grow \/ UNCHANGED vars
    <2>1. TypeOK' /\ SyncedWhenDone' /\ UNCHANGED storeVars /\ network' >= network
      <3>1. /\ UNCHANGED <<gossip, stored, tip, applied, from_height, peer_idx, timeouts, retries,
                           initial, pc>>
            /\ network' \in StartHeight..MaxHeight /\ network' >= network
        BY <1>10, <1>n DEF Grow, vars, TypeOK, storeVars, loopVars
      <3>2. TypeOK' /\ UNCHANGED storeVars
        BY <1>n, <3>1 DEF TypeOK, storeVars
      <3>3. SyncedWhenDone'
        BY <3>1 DEF IbdInv, SyncedWhenDone
      <3> QED BY <3>1, <3>2, <3>3
    <2>2. Running' => Queues'
      BY <1>10, <1>n, <1>q, <2>1, QueuesStay DEF Grow, vars, Running, connVars, loopVars
    <2> QED BY <1>10, <2>1, <2>2, LoopKeeps DEF Grow, vars, loopVars, connVars, IbdInv
  <1> QED BY <1>1, <1>2, <1>3, <1>4, <1>5, <1>6, <1>7, <1>8, <1>9, <1>10 DEF Next, Local

\* The loop starts from a store that holds the genesis block alone.
LEMMA IbdStart == ASSUME Init PROVE IbdInv
  <1>1. TypeOK /\ AppliedOnce /\ tip <= network
    BY IbdAssumption DEF Init, TypeOK, AppliedOnce
  <1>2. ContinuesTip /\ SyncedWhenDone
    BY DEF Init, ContinuesTip, SyncedWhenDone
  <1>3. Queues
    BY QueuesFresh DEF Init, Fresh
  <1> QED BY <1>1, <1>2, <1>3 DEF Init, IbdInv

\* The download's invariant holds throughout, for any number of peers, batch
\* size, chain, gossip, lost replies, timeouts and disconnects (run_ibd).
THEOREM IbdSafety == Spec => []IbdInv
  <1>1. Init => IbdInv
    BY IbdStart
  <1>2. IbdInv /\ [Next]_vars => IbdInv'
    BY IbdStep
  <1> QED BY <1>1, <1>2, PTL DEF Spec

\* The download's state always has its type.
THEOREM IbdTypeCorrect == Spec => []TypeOK
  <1>1. IbdInv => TypeOK
    BY DEF IbdInv
  <1> QED BY <1>1, IbdSafety, PTL

\* No block is ever applied to the UTXO set twice by the download, even when
\* a repeated request is answered twice (run_ibd).
THEOREM IbdAppliedOnce == Spec => []AppliedOnce
  <1>1. IbdInv => AppliedOnce
    BY DEF IbdInv
  <1> QED BY <1>1, IbdSafety, PTL

\* Until the download fails, the store is the chain up to the tip and the
\* next request continues it (run_ibd).
THEOREM IbdContinuesTip == Spec => []ContinuesTip
  <1>1. IbdInv => ContinuesTip
    BY DEF IbdInv
  <1> QED BY <1>1, IbdSafety, PTL

\* A download ended by a batch that is not full reached the height the
\* network had when the node started (run_ibd).
THEOREM IbdSynced == Spec => []SyncedWhenDone
  <1>1. IbdInv => SyncedWhenDone
    BY DEF IbdInv
  <1> QED BY <1>1, IbdSafety, PTL
=============================================================================
