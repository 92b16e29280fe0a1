----------------------------- MODULE DeliveryProofs -----------------------------
(***************************************************************************)
(* Proofs about Delivery for any number of connections and runs, any lines *)
(* of the clients and any number of them.                                  *)
(*                                                                         *)
(* The client reads what is on the wire and then what the queue of the     *)
(* send lock writes, and both grow at the end only.  The order of any two  *)
(* messages is thus decided when the later one is sent: every pair of what *)
(* was said on a connection fits (OrderInv), because what was said earlier *)
(* tells how far a run was then (SaidInv), and a run never goes back.  The *)
(* answers are a ledger of each connection: what is owed is on the wire,   *)
(* in order, and one more at most waits for the lock or for a cancelled    *)
(* run (AccountInv).                                                       *)
(***************************************************************************)
EXTENDS Delivery, FiniteSetTheorems, SequenceTheorems, TLAPS

(* What may be read in the order m, n. *)
Fits(m, n) ==
    /\ (m.kind \in NoticeKinds /\ n.kind \in NoticeKinds \cup {"accepted"} /\ m.run = n.run)
         => m.kind \notin Outcomes /\ n.kind # "accepted"
    /\ (m.kind \in Outcomes /\ n.kind = "attached")
         => m.run \notin n.active /\ (m.kind = "completed" => m.run \in n.history)

(* The wire w, and then the queue q, whose first message is on the wire. *)
InOrder(w, q) ==
    /\ \A i, j \in DOMAIN w : i < j => Fits(w[i], w[j])
    /\ \A i \in DOMAIN w, j \in DOMAIN q : 1 < j => Fits(w[i], q[j][2])
    /\ \A i, j \in DOMAIN q : 1 < i /\ i < j => Fits(q[i][2], q[j][2])

Said(c) == {wire[c][i] : i \in DOMAIN wire[c]} \cup {lock[c][i][2] : i \in DOMAIN lock[c]}

(* The client has m on its wire, or it will have. *)
Arrives(c, s, m) ==
    \/ \E i \in DOMAIN wire[c] : wire[c][i] = m
    \/ \E i \in DOMAIN lock[c] : 1 < i /\ lock[c][i] = <<s, m>>

-----------------------------------------------------------------------------
(* How far a run is. *)
StageOf(r) ==
    /\ stage[r] # "none" => state[r] # "none"
    /\ state[r] # "none" => initiator[r] \in Conns
    /\ stage[r] \in {"stopping", "outcome"} => state[r] \in Outcomes
    /\ stage[r] = "done" => state[r] \notin {"none", "running"}
    /\ stage[r] = "answered" \/ state[r] = "completed" => r \in history
    /\ beat[r] \in {"idle", "telling"} => stage[r] \in {"user_message", "answered"}

(* The run that a connection accepts. *)
Accepting(c) ==
    then[c] = "create" =>
        /\ reader[c] = "answering"
        /\ pending[c] \in Runs
        /\ stage[pending[c]] = "accepting"
        /\ initiator[pending[c]] = c

StageInv == (\A r \in Runs : StageOf(r)) /\ (\A c \in Conns : Accepting(c))

(* What a message tells about its run. *)
SaidInv ==
    /\ \A c \in Conns : \A m \in Said(c) :
        /\ m.kind \in NoticeKinds => state[m.run] # "none"
        /\ m.kind \in Outcomes => stage[m.run] \in {"outcome", "done"} /\ state[m.run] = m.kind
    /\ \A c \in Conns, r \in Runs : stage[r] = "outcome" /\ c \in left[Task(r)] =>
        Notice(state[r], r) \notin Said(c)

ReaderInv ==
    \A c, d \in Conns : \A i \in DOMAIN lock[d] :
        lock[d][i][1] = Reader(c) => reader[c] = "answering"

(* Only the read loop answers. *)
WhoInv ==
    \A c \in Conns : \A i \in DOMAIN lock[c] :
        IsAnswer(lock[c][i][2]) => lock[c][i][1] = Reader(c)

OrderInv == \A c \in Conns : InOrder(wire[c], lock[c])

(* Where the outcome of a run is, for an endpoint that is not closed. *)
EndInv ==
    \A r \in Runs : stage[r] \in {"outcome", "done"} /\ state[r] \in Outcomes =>
        \A c \in sinks \ closed :
            \/ stage[r] = "outcome" /\ c \in left[Task(r)]
            \/ stage[r] = "outcome" /\ Arrives(c, Task(r), Notice(state[r], r))
            \/ \E i \in DOMAIN wire[c] : wire[c][i] = Notice(state[r], r)
            \/ r \in ended[c]

(* The answers on one connection: what is owed, what is on the wire, and   *)
(* what waits for the send lock.  The answers of the queue q that are not  *)
(* written:                                                                *)
Unwritten(q) == {q[i][2] : i \in {j \in DOMAIN q : 1 < j /\ IsAnswer(q[j][2])}}

Matches(w, o) == \A i \in Places(w) : Upto(w, i) <= Len(o) /\ w[i].id = o[Upto(w, i)]

(* Everything is answered, or one answer is still to be written. *)
Ledger(w, u, o) ==
    /\ Matches(w, o)
    /\ \/ u = {} /\ Len(o) = Cardinality(Places(w))
       \/ \E m : u = {m} /\ Len(o) = Cardinality(Places(w)) + 1 /\ m.id = o[Len(o)]

(* The answer with this id is still to be sent. *)
Debt(w, u, o, id) ==
    /\ Matches(w, o)
    /\ u = {} /\ Len(o) = Cardinality(Places(w)) + 1 /\ id = o[Len(o)]

(* detach with an id waits for the run that it has cancelled. *)
Owing(c) == reader[c] = "detaching" /\ then[c] = "answer"

AccountAt(c) ==
    /\ c \in closed => wire[c] = <<>>
    /\ c \notin closed /\ Owing(c) => Debt(wire[c], Unwritten(lock[c]), owed[c], lines[c])
    /\ c \notin closed /\ ~Owing(c) => Ledger(wire[c], Unwritten(lock[c]), owed[c])

AccountInv == \A c \in Conns : AccountAt(c)

Inv ==
    /\ DeliveryTypeOK
    /\ StageInv
    /\ SaidInv
    /\ ReaderInv
    /\ WhoInv
    /\ OrderInv
    /\ EndInv
    /\ AccountInv

-----------------------------------------------------------------------------
(* The coroutines that send are different, and so are their messages. *)

LEMMA SpeakersDiffer ==
  /\ \A c \in Conns : Reader(c) \in Speakers
  /\ \A r \in Runs : Task(r) \in Speakers /\ Pulse(r) \in Speakers
  /\ \A c, d \in Conns : Reader(c) = Reader(d) => c = d
  /\ \A r, t \in Runs : (Task(r) = Task(t) \/ Pulse(r) = Pulse(t)) => r = t
  /\ \A r, t \in Runs : Task(r) # Pulse(t)
  /\ \A c \in Conns, r \in Runs : Reader(c) # Task(r) /\ Reader(c) # Pulse(r)
  /\ \A r \in Runs : Task(r) \in {"run", "beat"} \X Runs /\ Pulse(r) \in {"run", "beat"} \X Runs
  BY DEF Reader, Task, Pulse, Speakers

(* Removing one element moves those behind it. *)
LEMMA RemoveAtElements ==
  ASSUME NEW S, NEW q \in Seq(S), NEW i \in 1 .. Len(q)
  PROVE  /\ RemoveAt(q, i) \in Seq(S)
         /\ Len(RemoveAt(q, i)) = Len(q) - 1
         /\ \A j \in 1 .. Len(q) - 1 : RemoveAt(q, i)[j] = IF j < i THEN q[j] ELSE q[j + 1]
<1> DEFINE a == SubSeq(q, 1, i - 1)
           b == SubSeq(q, i + 1, Len(q))
<1>1. /\ a \in Seq(S) /\ Len(a) = i - 1
      /\ \A j \in 1 .. i - 1 : a[j] = q[j]
  OBVIOUS
<1>2. /\ b \in Seq(S) /\ Len(b) = Len(q) - i
      /\ \A j \in 1 .. Len(q) - i : b[j] = q[i + j]
  OBVIOUS
<1>3. RemoveAt(q, i) = a \o b
  BY DEF RemoveAt
<1> HIDE DEF a, b
<1>4. a \o b \in Seq(S) /\ Len(a \o b) = Len(q) - 1
  <2>1. a \o b \in Seq(S) /\ Len(a \o b) = Len(a) + Len(b)
    BY <1>1, <1>2, ConcatProperties
  <2>2. Len(q) \in Nat
    OBVIOUS
  <2> QED
    BY <1>1, <1>2, <2>1, <2>2
<1>5. ASSUME NEW j \in 1 .. Len(q) - 1
      PROVE  (a \o b)[j] = IF j < i THEN q[j] ELSE q[j + 1]
  <2>1. CASE j < i
    BY <1>1, <1>2, <2>1
  <2>2. CASE ~(j < i)
    <3>1. (a \o b)[j] = b[j - (i - 1)]
      BY <1>1, <1>2, <2>2
    <3>2. b[j - (i - 1)] = q[i + (j - (i - 1))] /\ i + (j - (i - 1)) = j + 1
      BY <1>2, <2>2
    <3> QED
      BY <2>2, <3>1, <3>2
  <2> QED
    BY <2>1, <2>2
<1> QED
  BY <1>3, <1>4, <1>5

(* The same for one more at the end. *)
LEMMA AppendElements ==
  ASSUME NEW S, NEW q \in Seq(S), NEW e \in S, NEW p, p = Append(q, e)
  PROVE  /\ p \in Seq(S) /\ DOMAIN p = 1 .. Len(q) + 1 /\ Len(p) = Len(q) + 1
         /\ Len(q) + 1 \in DOMAIN p /\ p[Len(q) + 1] = e
         /\ \A j \in DOMAIN q : j \in DOMAIN p /\ p[j] = q[j]
         /\ \A j \in DOMAIN p : (j \in DOMAIN q /\ p[j] = q[j]) \/ (j = Len(q) + 1 /\ p[j] = e)
<1>1. DOMAIN q = 1 .. Len(q) /\ Len(q) \in Nat
  OBVIOUS
<1> QED
  BY <1>1, AppendProperties

-----------------------------------------------------------------------------
(* What a wire and its queue do to the order of the messages *)

Waiting == Speakers \X Messages

(* Everything on the wire w comes before the queue q. *)
AllInOrder(w, q) ==
    /\ \A i, j \in DOMAIN w : i < j => Fits(w[i], w[j])
    /\ \A i \in DOMAIN w, j \in DOMAIN q : Fits(w[i], q[j][2])
    /\ \A i, j \in DOMAIN q : i < j => Fits(q[i][2], q[j][2])

(* The first of the queue is gone ... *)
LEMMA ShiftInOrder ==
  ASSUME NEW w \in Seq(Messages), NEW q \in Seq(Waiting), NEW p \in Seq(Waiting),
         Len(p) = Len(q) - 1, \A j \in 1 .. Len(q) - 1 : p[j] = q[j + 1],
         InOrder(w, q)
  PROVE  AllInOrder(w, p)
<1>1. DOMAIN q = 1 .. Len(q) /\ DOMAIN p = 1 .. Len(q) - 1 /\ Len(q) \in Nat
  OBVIOUS
<1>2. /\ \A j \in DOMAIN p : j + 1 \in DOMAIN q /\ 1 < j + 1 /\ p[j] = q[j + 1]
      /\ \A i, j \in DOMAIN p : i < j => i + 1 < j + 1
  BY <1>1
<1> QED
  BY <1>2 DEF InOrder, AllInOrder

(* ... and the next one is written. *)
LEMMA WriteNextInOrder ==
  ASSUME NEW w \in Seq(Messages), NEW p \in Seq(Waiting), p # <<>>, AllInOrder(w, p)
  PROVE  InOrder(Append(w, p[1][2]), p)
<1> DEFINE m == p[1][2]
           v == Append(w, m)
<1>1. 1 \in DOMAIN p /\ m \in Messages
  BY DEF Waiting
<1>2. DOMAIN p = 1 .. Len(p) /\ Len(p) \in Nat
  OBVIOUS
<1>3. \A i \in DOMAIN w : Fits(w[i], m)
  BY <1>1 DEF AllInOrder
<1>4. \A j \in DOMAIN p : 1 < j => Fits(m, p[j][2])
  BY <1>1 DEF AllInOrder
<1> HIDE DEF m
<1>5. DOMAIN w = 1 .. Len(w) /\ DOMAIN v = 1 .. Len(w) + 1 /\ Len(w) \in Nat
  BY <1>1
<1>6. \A j \in DOMAIN v : (j \in DOMAIN w /\ v[j] = w[j]) \/ (j = Len(w) + 1 /\ v[j] = m)
  BY <1>1, <1>5
<1> HIDE DEF v
<1>7. \A i, j \in DOMAIN v : i < j => Fits(v[i], v[j])
  <2> SUFFICES ASSUME NEW i \in DOMAIN v, NEW j \in DOMAIN v, i < j
               PROVE  Fits(v[i], v[j])
    OBVIOUS
  <2>1. i \in DOMAIN w /\ v[i] = w[i]
    BY <1>5, <1>6
  <2>2. CASE j \in DOMAIN w /\ v[j] = w[j]
    BY <2>1, <2>2 DEF AllInOrder
  <2>3. CASE j = Len(w) + 1 /\ v[j] = m
    BY <2>1, <2>3, <1>3
  <2> QED
    BY <2>2, <2>3, <1>6
<1>8. \A i \in DOMAIN v, j \in DOMAIN p : 1 < j => Fits(v[i], p[j][2])
  <2> SUFFICES ASSUME NEW i \in DOMAIN v, NEW j \in DOMAIN p, 1 < j
               PROVE  Fits(v[i], p[j][2])
    OBVIOUS
  <2>1. CASE i \in DOMAIN w /\ v[i] = w[i]
    BY <2>1 DEF AllInOrder
  <2>2. CASE v[i] = m
    BY <2>2, <1>4
  <2> QED
    BY <2>1, <2>2, <1>6
<1>9. \A i, j \in DOMAIN p : 1 < i /\ i < j => Fits(p[i][2], p[j][2])
  BY DEF AllInOrder
<1>10. InOrder(v, p)
  BY <1>7, <1>8, <1>9 DEF InOrder
<1> QED
  BY <1>10 DEF v, m

(* One that waits is gone. *)
LEMMA RemoveInOrder ==
  ASSUME NEW w \in Seq(Messages), NEW q \in Seq(Waiting), NEW k \in 2 .. Len(q),
         InOrder(w, q)
  PROVE  InOrder(w, RemoveAt(q, k))
<1> DEFINE p == RemoveAt(q, k)
           to(j) == IF j < k THEN j ELSE j + 1
<1>1. /\ p \in Seq(Waiting) /\ Len(p) = Len(q) - 1
      /\ \A j \in 1 .. Len(q) - 1 : p[j] = IF j < k THEN q[j] ELSE q[j + 1]
  BY RemoveAtElements
<1>2. DOMAIN q = 1 .. Len(q) /\ DOMAIN p = 1 .. Len(q) - 1 /\ Len(q) \in Nat
  BY <1>1
<1> HIDE DEF p
<1>3. ASSUME NEW j \in DOMAIN p
      PROVE  to(j) \in DOMAIN q /\ p[j] = q[to(j)] /\ (1 < j => 1 < to(j))
  <2>1. j \in 1 .. Len(q) - 1
    BY <1>2
  <2>2. to(j) \in 1 .. Len(q) /\ (1 < j => 1 < to(j))
    BY <1>2, <2>1
  <2>3. p[j] = q[to(j)]
    BY <1>1, <2>1
  <2> QED
    BY <1>2, <2>2, <2>3
<1>4. \A i, j \in DOMAIN p : i < j => to(i) < to(j)
  BY <1>2
<1> HIDE DEF to
<1>5. \A i \in DOMAIN w, j \in DOMAIN p : 1 < j => Fits(w[i], p[j][2])
  BY <1>3 DEF InOrder
<1>6. \A i, j \in DOMAIN p : 1 < i /\ i < j => Fits(p[i][2], p[j][2])
  <2> SUFFICES ASSUME NEW i \in DOMAIN p, NEW j \in DOMAIN p, 1 < i, i < j
               PROVE  Fits(p[i][2], p[j][2])
    OBVIOUS
  <2>1. to(i) \in DOMAIN q /\ to(j) \in DOMAIN q /\ 1 < to(i) /\ to(i) < to(j)
    BY <1>3, <1>4
  <2>2. Fits(q[to(i)][2], q[to(j)][2])
    BY <2>1 DEF InOrder
  <2> QED
    BY <1>3, <2>2
<1>7. InOrder(w, p)
  BY <1>5, <1>6 DEF InOrder
<1> QED
  BY <1>7 DEF p

(* The last of the queue has something new to say. *)
LEMMA AppendInOrder ==
  ASSUME NEW w \in Seq(Messages), NEW q \in Seq(Waiting), NEW e \in Waiting, q # <<>>,
         InOrder(w, q),
         \A i \in DOMAIN w : Fits(w[i], e[2]),
         \A i \in DOMAIN q : Fits(q[i][2], e[2])
  PROVE  InOrder(w, Append(q, e))
<1> DEFINE p == Append(q, e)
<1>1. DOMAIN q = 1 .. Len(q) /\ DOMAIN p = 1 .. Len(q) + 1 /\ Len(q) \in Nat
  OBVIOUS
<1>2. \A j \in DOMAIN p : (j \in DOMAIN q /\ p[j] = q[j]) \/ (j = Len(q) + 1 /\ p[j] = e)
  BY <1>1
<1> HIDE DEF p
<1>3. \A i \in DOMAIN w, j \in DOMAIN p : 1 < j => Fits(w[i], p[j][2])
  BY <1>2 DEF InOrder
<1>4. \A i, j \in DOMAIN p : 1 < i /\ i < j => Fits(p[i][2], p[j][2])
  <2> SUFFICES ASSUME NEW i \in DOMAIN p, NEW j \in DOMAIN p, 1 < i, i < j
               PROVE  Fits(p[i][2], p[j][2])
    OBVIOUS
  <2>1. i \in DOMAIN q /\ p[i] = q[i]
    BY <1>1, <1>2
  <2>2. CASE j \in DOMAIN q /\ p[j] = q[j]
    BY <2>1, <2>2 DEF InOrder
  <2>3. CASE p[j] = e
    BY <2>1, <2>3
  <2> QED
    BY <2>2, <2>3, <1>2
<1>5. InOrder(w, p)
  BY <1>3, <1>4 DEF InOrder
<1> QED
  BY <1>5 DEF p

(* Nobody waits, and the message is written at once. *)
LEMMA WriteInOrder ==
  ASSUME NEW w \in Seq(Messages), NEW e \in Waiting, InOrder(w, <<>>),
         \A i \in DOMAIN w : Fits(w[i], e[2])
  PROVE  InOrder(Append(w, e[2]), <<e>>)
<1> DEFINE v == Append(w, e[2])
<1>1. e[2] \in Messages
  BY DEF Waiting
<1>2. DOMAIN w = 1 .. Len(w) /\ DOMAIN v = 1 .. Len(w) + 1 /\ Len(w) \in Nat
  BY <1>1
<1>3. \A j \in DOMAIN v : (j \in DOMAIN w /\ v[j] = w[j]) \/ (j = Len(w) + 1 /\ v[j] = e[2])
  BY <1>1, <1>2
<1>4. DOMAIN <<e>> = {1}
  OBVIOUS
<1> HIDE DEF v
<1>5. \A i, j \in DOMAIN v : i < j => Fits(v[i], v[j])
  <2> SUFFICES ASSUME NEW i \in DOMAIN v, NEW j \in DOMAIN v, i < j
               PROVE  Fits(v[i], v[j])
    OBVIOUS
  <2>1. i \in DOMAIN w /\ v[i] = w[i]
    BY <1>2, <1>3
  <2>2. CASE j \in DOMAIN w /\ v[j] = w[j]
    BY <2>1, <2>2 DEF InOrder
  <2>3. CASE v[j] = e[2]
    BY <2>1, <2>3
  <2> QED
    BY <2>2, <2>3, <1>3
<1>6. InOrder(v, <<e>>)
  BY <1>4, <1>5 DEF InOrder
<1> QED
  BY <1>6 DEF v

-----------------------------------------------------------------------------
(* What a queue does to the answers that wait in it *)

LEMMA ShiftUnwritten ==
  ASSUME NEW q \in Seq(Waiting), NEW p \in Seq(Waiting),
         Len(p) = Len(q) - 1, \A j \in 1 .. Len(q) - 1 : p[j] = q[j + 1],
         \A i, j \in DOMAIN q : IsAnswer(q[i][2]) /\ IsAnswer(q[j][2]) => i = j
  PROVE  IF p # <<>> /\ IsAnswer(p[1][2])
         THEN Unwritten(q) = {p[1][2]} /\ Unwritten(p) = {}
         ELSE Unwritten(p) = Unwritten(q)
<1>1. DOMAIN q = 1 .. Len(q) /\ DOMAIN p = 1 .. Len(q) - 1 /\ Len(q) \in Nat /\ Len(p) \in Nat
  OBVIOUS
<1>2. \A j \in DOMAIN p : j + 1 \in DOMAIN q /\ 1 < j + 1 /\ p[j] = q[j + 1] /\ j \in Nat
  BY <1>1
<1>3. ASSUME NEW i \in DOMAIN q, 1 < i PROVE \E j \in DOMAIN p : j + 1 = i /\ p[j] = q[i]
  <2>1. i - 1 \in DOMAIN p /\ (i - 1) + 1 = i
    BY <1>1, <1>3
  <2> QED
    BY <1>2, <2>1
<1>4. ASSUME p = <<>> PROVE Unwritten(p) = {} /\ Unwritten(q) = {}
  BY <1>3, <1>4 DEF Unwritten
<1>5. p # <<>> => 1 \in DOMAIN p
  BY <1>1, EmptySeq
<1>6. Unwritten(p) \subseteq Unwritten(q)
  BY <1>2 DEF Unwritten
<1>7. ASSUME p # <<>>, ~IsAnswer(p[1][2]) PROVE Unwritten(q) \subseteq Unwritten(p)
  <2> SUFFICES ASSUME NEW i \in DOMAIN q, 1 < i, IsAnswer(q[i][2]) PROVE q[i][2] \in Unwritten(p)
    BY DEF Unwritten
  <2>1. PICK j \in DOMAIN p : j + 1 = i /\ p[j] = q[i]
    BY <1>3
  <2>2. 1 < j
    BY <1>1, <1>7, <2>1
  <2> QED
    BY <2>1, <2>2 DEF Unwritten
<1>8. ASSUME p # <<>>, IsAnswer(p[1][2])
      PROVE  Unwritten(q) = {p[1][2]} /\ Unwritten(p) = {}
  <2>1. 2 \in DOMAIN q /\ p[1] = q[2] /\ IsAnswer(q[2][2]) /\ 1 \in DOMAIN p
    BY <1>2, <1>5, <1>8
  <2>2. \A i \in DOMAIN q : IsAnswer(q[i][2]) => i = 2
    BY <2>1
  <2>3. Unwritten(q) = {q[2][2]}
    BY <2>1, <2>2 DEF Unwritten
  <2>4. ASSUME NEW j \in DOMAIN p, 1 < j PROVE ~IsAnswer(p[j][2])
    <3>1. j + 1 \in DOMAIN q /\ p[j] = q[j + 1] /\ j + 1 # 2
      BY <1>2, <2>4
    <3> QED
      BY <2>2, <3>1
  <2> QED
    BY <2>1, <2>3, <2>4 DEF Unwritten
<1>9. CASE p = <<>>
  BY <1>4, <1>9
<1>10. CASE p # <<>> /\ ~IsAnswer(p[1][2])
  <2>1. Unwritten(p) = Unwritten(q)
    BY <1>6, <1>7, <1>10
  <2> QED
    BY <1>10, <2>1
<1>11. CASE p # <<>> /\ IsAnswer(p[1][2])
  BY <1>8, <1>11
<1> QED
  BY <1>9, <1>10, <1>11

LEMMA RemoveUnwritten ==
  ASSUME NEW q \in Seq(Waiting), NEW k \in 2 .. Len(q), ~IsAnswer(q[k][2])
  PROVE  Unwritten(RemoveAt(q, k)) = Unwritten(q)
<1> DEFINE p == RemoveAt(q, k)
<1>1. /\ p \in Seq(Waiting) /\ Len(p) = Len(q) - 1 /\ Len(q) \in Nat
      /\ \A j \in 1 .. Len(q) - 1 : p[j] = IF j < k THEN q[j] ELSE q[j + 1]
  BY RemoveAtElements
<1>2. DOMAIN q = 1 .. Len(q) /\ DOMAIN p = 1 .. Len(q) - 1
  BY <1>1
<1> HIDE DEF p
<1>3. ASSUME NEW j \in DOMAIN p, 1 < j PROVE \E i \in DOMAIN q : 1 < i /\ p[j] = q[i]
  <2>1. CASE j < k
    BY <1>1, <1>2, <1>3, <2>1
  <2>2. CASE ~(j < k)
    <3>1. j + 1 \in DOMAIN q /\ 1 < j + 1 /\ p[j] = q[j + 1]
      BY <1>1, <1>2, <1>3, <2>2
    <3> QED
      BY <3>1
  <2> QED
    BY <2>1, <2>2
<1>4. ASSUME NEW i \in DOMAIN q, 1 < i, i # k PROVE \E j \in DOMAIN p : 1 < j /\ p[j] = q[i]
  <2>1. CASE i < k
    BY <1>1, <1>2, <1>4, <2>1
  <2>2. CASE k < i
    <3>1. i - 1 \in DOMAIN p /\ 1 < i - 1 /\ (i - 1) + 1 = i /\ ~(i - 1 < k)
      BY <1>1, <1>2, <1>4, <2>2
    <3>2. p[i - 1] = q[(i - 1) + 1]
      BY <1>1, <1>2, <3>1
    <3> QED
      BY <3>1, <3>2
  <2> QED
    BY <1>2, <1>4, <2>1, <2>2
<1>5. Unwritten(p) = Unwritten(q)
  BY <1>3, <1>4 DEF Unwritten
<1> QED
  BY <1>5 DEF p

LEMMA AppendUnwritten ==
  ASSUME NEW q \in Seq(Waiting), NEW e \in Waiting, q # <<>>, NEW p, p = Append(q, e)
  PROVE  Unwritten(p) = Unwritten(q) \cup (IF IsAnswer(e[2]) THEN {e[2]} ELSE {})
<1>1. /\ Len(q) + 1 \in DOMAIN p /\ p[Len(q) + 1] = e /\ 1 < Len(q) + 1
      /\ \A j \in DOMAIN q : j \in DOMAIN p /\ p[j] = q[j]
      /\ \A j \in DOMAIN p : (j \in DOMAIN q /\ p[j] = q[j]) \/ (j = Len(q) + 1 /\ p[j] = e)
  BY AppendElements, EmptySeq
<1> QED
  BY <1>1 DEF Unwritten

LEMMA NoneUnwritten == Unwritten(<<>>) = {} /\ \A e : Unwritten(<<e>>) = {}
  BY DEF Unwritten

-----------------------------------------------------------------------------
(* What a step does to the messages on one connection *)

(* Nothing new is said on c, and nobody new waits for its lock. *)
Kept(c) ==
    /\ lock'[c] \in Seq(Waiting) /\ wire'[c] \in Seq(Messages)
    /\ \A m \in Said(c)' : m \in Said(c)
    /\ InOrder(wire[c], lock[c]) => InOrder(wire'[c], lock'[c])
    /\ \A i \in DOMAIN lock'[c] : \E j \in DOMAIN lock[c] : lock'[c][i] = lock[c][j]
    /\ \A i, j \in DOMAIN lock'[c] : lock'[c][i][1] = lock'[c][j][1] => i = j

(* The coroutine s says m on c. *)
Spoken(c, s, m) ==
    /\ lock'[c] \in Seq(Waiting) /\ wire'[c] \in Seq(Messages)
    /\ \A n \in Said(c)' : n \in Said(c) \/ n = m
    /\ InOrder(wire[c], lock[c]) /\ (\A n \in Said(c) : Fits(n, m))
         => InOrder(wire'[c], lock'[c])
    /\ \A i \in DOMAIN lock'[c] :
           \/ lock'[c][i][1] = s /\ lock'[c][i][2] = m
           \/ \E j \in DOMAIN lock[c] : lock'[c][i] = lock[c][j]
    /\ \A i, j \in DOMAIN lock'[c] : lock'[c][i][1] = lock'[c][j][1] => i = j

(* What is on the wire of c stays there, and what s waits to say arrives. *)
Lasts(c, s) ==
    /\ \A i \in DOMAIN wire[c] : i \in DOMAIN wire'[c] /\ wire'[c][i] = wire[c][i]
    /\ \A m \in Messages : Arrives(c, s, m) => Arrives(c, s, m)'

(* What the wire and the queue of c do to its answers: nothing, or what    *)
(* waits is written ...                                                    *)
Carried(c) ==
    \/ wire'[c] = wire[c] /\ Unwritten(lock'[c]) = Unwritten(lock[c])
    \/ \E m \in Messages :
         /\ wire'[c] = Append(wire[c], m)
         /\ IF IsAnswer(m)
            THEN Unwritten(lock[c]) = {m} /\ Unwritten(lock'[c]) = {}
            ELSE Unwritten(lock'[c]) = Unwritten(lock[c])

(* ... or the answer m is sent: it waits, or is written at once. *)
Sent(c, m) ==
    \/ wire'[c] = wire[c] /\ Unwritten(lock'[c]) = Unwritten(lock[c]) \cup {m}
    \/ wire'[c] = Append(wire[c], m) /\ Unwritten(lock'[c]) = Unwritten(lock[c])

(* One answer at most is in the queue of c. *)
AnswerOnce(c) ==
    \A i, j \in DOMAIN lock[c] : IsAnswer(lock[c][i][2]) /\ IsAnswer(lock[c][j][2]) => i = j

LEMMA SpeechType ==
  ASSUME DeliveryTypeOK, NEW c \in Conns
  PROVE  /\ lock[c] \in Seq(Waiting) /\ wire[c] \in Seq(Messages)
         /\ DOMAIN lock[c] = 1 .. Len(lock[c]) /\ DOMAIN wire[c] = 1 .. Len(wire[c])
         /\ Len(lock[c]) \in Nat /\ Len(wire[c]) \in Nat
         /\ \A i, j \in DOMAIN lock[c] : lock[c][i][1] = lock[c][j][1] => i = j
<1>1. lock[c] \in Seq(Waiting) /\ wire[c] \in Seq(Messages)
  BY DEF DeliveryTypeOK, Waiting
<1>2. \A i, j \in DOMAIN lock[c] : lock[c][i][1] = lock[c][j][1] => i = j
  BY DEF DeliveryTypeOK
<1> QED
  BY <1>1, <1>2

LEMMA SameKept ==
  ASSUME DeliveryTypeOK, NEW c \in Conns, lock'[c] = lock[c], wire'[c] = wire[c]
  PROVE  Kept(c) /\ Carried(c) /\ \A s : Lasts(c, s)
  BY SpeechType DEF Kept, Carried, Lasts, Arrives, Said

(* The connection is closed: its wire is not read, its queue is dropped. *)
LEMMA EmptiedKept ==
  ASSUME DeliveryTypeOK, NEW c \in Conns, lock'[c] \in {lock[c], <<>>}, wire'[c] \in {wire[c], <<>>}
  PROVE  Kept(c)
<1>1. DOMAIN <<>> = {}
  OBVIOUS
<1>2. lock'[c] \in Seq(Waiting) /\ wire'[c] \in Seq(Messages)
  <2>1. <<>> \in Seq(Waiting) /\ <<>> \in Seq(Messages)
    OBVIOUS
  <2> QED
    BY <2>1, SpeechType
<1>3. DOMAIN lock'[c] \in {DOMAIN lock[c], {}} /\ DOMAIN wire'[c] \in {DOMAIN wire[c], {}}
  BY <1>1
<1>4. /\ \A i \in DOMAIN lock'[c] : i \in DOMAIN lock[c] /\ lock'[c][i] = lock[c][i]
      /\ \A i \in DOMAIN wire'[c] : i \in DOMAIN wire[c] /\ wire'[c][i] = wire[c][i]
  BY <1>1
<1>5. \A m \in Said(c)' : m \in Said(c)
  BY <1>4 DEF Said
<1>6. InOrder(wire[c], lock[c]) => InOrder(wire'[c], lock'[c])
  BY <1>4 DEF InOrder
<1> QED
  BY <1>2, <1>4, <1>5, <1>6, SpeechType DEF Kept

(* The first of the queue is gone. *)
LEMMA ShiftKept ==
  ASSUME DeliveryTypeOK, NEW c \in Conns, NEW q \in Seq(Waiting), lock[c] # <<>>,
         Len(q) = Len(lock[c]) - 1, \A j \in 1 .. Len(lock[c]) - 1 : q[j] = lock[c][j + 1],
         lock'[c] = q, wire'[c] = IF q = <<>> THEN wire[c] ELSE Append(wire[c], q[1][2])
  PROVE  Kept(c) /\ \A s : Lasts(c, s)
<1>1. /\ DOMAIN q = 1 .. Len(lock[c]) - 1
      /\ \A j \in DOMAIN q : j + 1 \in DOMAIN lock[c] /\ q[j] = lock[c][j + 1]
  BY SpeechType
<1>2. q # <<>> => 1 \in DOMAIN q /\ q[1][2] \in Messages
  BY DEF Waiting
<1>3. wire'[c] \in Seq(Messages)
  BY <1>2, SpeechType
<1>4. InOrder(wire[c], lock[c]) => InOrder(wire'[c], lock'[c])
  <2> SUFFICES ASSUME InOrder(wire[c], lock[c]) PROVE InOrder(wire'[c], lock'[c])
    OBVIOUS
  <2>1. AllInOrder(wire[c], q)
    BY SpeechType, ShiftInOrder
  <2>2. CASE q = <<>>
    BY <2>1, <2>2 DEF AllInOrder, InOrder
  <2>3. CASE q # <<>>
    BY <2>1, <2>3, SpeechType, WriteNextInOrder
  <2> QED
    BY <2>2, <2>3
<1>5. \A j \in DOMAIN wire'[c] : (j \in DOMAIN wire[c] /\ wire'[c][j] = wire[c][j])
                               \/ (q # <<>> /\ wire'[c][j] = q[1][2])
  <2>1. CASE q = <<>>
    BY <2>1
  <2>2. CASE q # <<>>
    <3> DEFINE m == q[1][2]
    <3>1. m \in Messages /\ wire'[c] = Append(wire[c], m)
      BY <1>2, <2>2
    <3> HIDE DEF m
    <3>2. \A j \in DOMAIN wire'[c] : (j \in DOMAIN wire[c] /\ wire'[c][j] = wire[c][j])
                                   \/ wire'[c][j] = m
      <4> DEFINE w == wire[c]
                 v == wire'[c]
      <4>1. w \in Seq(Messages) /\ v = Append(w, m)
        BY <3>1, SpeechType
      <4> HIDE DEF w, v
      <4>2. \A j \in DOMAIN v : (j \in DOMAIN w /\ v[j] = w[j]) \/ v[j] = m
        BY <3>1, <4>1, AppendElements
      <4> QED
        BY <4>2 DEF v, w
    <3> QED
      BY <2>2, <3>2 DEF m
  <2> QED
    BY <2>1, <2>2
<1>6. \A m \in Said(c)' : m \in Said(c)
  <2>1. \A i \in DOMAIN q : q[i][2] \in Said(c)
    BY <1>1 DEF Said
  <2>2. \A j \in DOMAIN wire'[c] : wire'[c][j] \in Said(c)
    BY <1>2, <1>5, <2>1 DEF Said
  <2> QED
    BY <2>1, <2>2 DEF Said
<1>7. \A i, j \in DOMAIN q : q[i][1] = q[j][1] => i = j
  <2>1. \A i, j \in DOMAIN q : i + 1 = j + 1 => i = j
    BY <1>1, SpeechType
  <2> QED
    BY <1>1, <2>1, SpeechType
<1>8. Kept(c)
  BY <1>1, <1>3, <1>4, <1>6, <1>7 DEF Kept
<1>9. \A i \in DOMAIN wire[c] : i \in DOMAIN wire'[c] /\ wire'[c][i] = wire[c][i]
  <2>1. CASE q = <<>>
    BY <2>1
  <2>2. CASE q # <<>>
    <3> DEFINE n == q[1][2]
    <3>1. n \in Messages /\ wire'[c] = Append(wire[c], n)
      BY <1>2, <2>2
    <3> HIDE DEF n
    <3> QED
      BY <3>1, SpeechType
  <2> QED
    BY <2>1, <2>2
<1>10. ASSUME NEW s, NEW m \in Messages, Arrives(c, s, m) PROVE Arrives(c, s, m)'
  <2>1. CASE \E i \in DOMAIN wire[c] : wire[c][i] = m
    BY <1>9, <2>1 DEF Arrives
  <2>2. ASSUME NEW i \in DOMAIN lock[c], 1 < i, lock[c][i] = <<s, m>>
        PROVE  Arrives(c, s, m)'
    <3>1. i - 1 \in DOMAIN q /\ q[i - 1] = <<s, m>>
      BY <1>1, <2>2, SpeechType
    <3>2. CASE 1 < i - 1
      BY <3>1, <3>2 DEF Arrives
    <3>3. CASE i - 1 = 1
      <4>1. q # <<>> /\ q[1][2] = m
        BY <3>1, <3>3
      <4>2. wire'[c] = Append(wire[c], m)
        BY <4>1
      <4> DEFINE w == wire[c]
                 v == wire'[c]
      <4>3. w \in Seq(Messages) /\ v = Append(w, m)
        BY <4>2, SpeechType
      <4> HIDE DEF w, v
      <4>4. \E j \in DOMAIN v : v[j] = m
        BY <4>3, AppendElements
      <4> QED
        BY <4>4 DEF Arrives, v
    <3> QED
      BY <1>1, <2>2, <3>2, <3>3, SpeechType
  <2> QED
    BY <1>10, <2>1, <2>2 DEF Arrives
<1> QED
  BY <1>8, <1>9, <1>10 DEF Lasts

LEMMA ShiftCarried ==
  ASSUME DeliveryTypeOK, NEW c \in Conns, AnswerOnce(c), NEW q \in Seq(Waiting), lock[c] # <<>>,
         Len(q) = Len(lock[c]) - 1, \A j \in 1 .. Len(lock[c]) - 1 : q[j] = lock[c][j + 1],
         lock'[c] = q, wire'[c] = IF q = <<>> THEN wire[c] ELSE Append(wire[c], q[1][2])
  PROVE  Carried(c)
<1>1. IF q # <<>> /\ IsAnswer(q[1][2])
      THEN Unwritten(lock[c]) = {q[1][2]} /\ Unwritten(q) = {}
      ELSE Unwritten(q) = Unwritten(lock[c])
  BY SpeechType, ShiftUnwritten DEF AnswerOnce
<1>2. q # <<>> => q[1][2] \in Messages
  BY DEF Waiting
<1> QED
  BY <1>1, <1>2 DEF Carried

(* One that waits is gone. *)
LEMMA RemoveKept ==
  ASSUME DeliveryTypeOK, NEW c \in Conns, NEW k \in 2 .. Len(lock[c]),
         lock'[c] = RemoveAt(lock[c], k), wire'[c] = wire[c]
  PROVE  /\ Kept(c)
         /\ \A s : lock[c][k][1] # s => Lasts(c, s)
         /\ ~IsAnswer(lock[c][k][2]) => Carried(c)
<1> DEFINE q == lock[c]
           p == lock'[c]
           to(j) == IF j < k THEN j ELSE j + 1
<1>1. /\ p \in Seq(Waiting) /\ Len(p) = Len(q) - 1
      /\ \A j \in 1 .. Len(q) - 1 : p[j] = IF j < k THEN q[j] ELSE q[j + 1]
  <2>1. q \in Seq(Waiting) /\ k \in 1 .. Len(q) /\ p = RemoveAt(q, k)
    BY SpeechType
  <2> HIDE DEF p, q
  <2> QED
    BY <2>1, RemoveAtElements
<1>2. /\ DOMAIN q = 1 .. Len(q) /\ DOMAIN p = 1 .. Len(q) - 1 /\ Len(q) \in Nat
      /\ \A i, j \in DOMAIN q : q[i][1] = q[j][1] => i = j
  BY <1>1, SpeechType
<1>3. InOrder(wire[c], q) => InOrder(wire[c], p)
  BY SpeechType, RemoveInOrder
<1> HIDE DEF p, q
<1>4. /\ \A j \in DOMAIN p : to(j) \in DOMAIN q /\ p[j] = q[to(j)]
      /\ \A i, j \in DOMAIN p : to(i) = to(j) => i = j
  BY <1>1, <1>2
<1>5. \A i \in DOMAIN q : i = k \/ \E j \in DOMAIN p : to(j) = i /\ (1 < i => 1 < j)
  <2>1. ASSUME NEW i \in DOMAIN q, i < k PROVE i \in DOMAIN p /\ to(i) = i
    BY <1>2, <2>1 DEF q
  <2>2. ASSUME NEW i \in DOMAIN q, k < i PROVE i - 1 \in DOMAIN p /\ to(i - 1) = i /\ 1 < i - 1
    BY <1>2, <2>2 DEF q
  <2> QED
    BY <1>2, <2>1, <2>2 DEF q
<1> HIDE DEF to
<1>6. \A i \in DOMAIN p : \E j \in DOMAIN q : p[i] = q[j]
  BY <1>4
<1>7. \A i, j \in DOMAIN p : p[i][1] = p[j][1] => i = j
  BY <1>2, <1>4
<1>8. \A m \in Said(c)' : m \in Said(c)
  BY <1>6 DEF Said, p, q
<1>9. Kept(c)
  BY <1>1, <1>3, <1>6, <1>7, <1>8, SpeechType DEF Kept, p, q
<1>10. ASSUME NEW s, q[k][1] # s, NEW m, Arrives(c, s, m) PROVE Arrives(c, s, m)'
  <2>1. CASE \E i \in DOMAIN wire[c] : wire[c][i] = m
    BY <2>1 DEF Arrives
  <2>2. ASSUME NEW i \in DOMAIN q, 1 < i, q[i] = <<s, m>>
        PROVE  Arrives(c, s, m)'
    <3>1. i # k
      BY <1>10, <2>2
    <3>2. PICK j \in DOMAIN p : to(j) = i /\ 1 < j
      BY <1>5, <2>2, <3>1
    <3>3. p[j] = <<s, m>>
      BY <1>4, <2>2, <3>2
    <3> QED
      BY <3>2, <3>3 DEF Arrives, p
  <2> QED
    BY <1>10, <2>1, <2>2 DEF Arrives, q
<1>11. ~IsAnswer(q[k][2]) => Carried(c)
  BY SpeechType, RemoveUnwritten DEF Carried, q
<1> QED
  BY <1>9, <1>10, <1>11 DEF Lasts, q

(* Whoever waits does so once, and what is drained goes on to the next. *)
LEMMA DrainedKept ==
  ASSUME DeliveryTypeOK, NEW c \in Conns, Drained(c)
  PROVE  /\ lock' = [lock EXCEPT ![c] = lock'[c]] /\ wire' = [wire EXCEPT ![c] = wire'[c]]
         /\ Kept(c)
         /\ c \notin closed => (AnswerOnce(c) => Carried(c)) /\ \A s : Lasts(c, s)
         /\ c \in closed => wire'[c] = wire[c]
<1> DEFINE q == lock[c]
           p == Tail(lock[c])
<1>1. /\ lock' = [lock EXCEPT ![c] = Queue(c, p).lock]
      /\ wire' = [wire EXCEPT ![c] = Queue(c, p).wire]
      /\ lock[c] # <<>>
  BY DEF Drained, Set
<1>2. lock'[c] = Queue(c, p).lock /\ wire'[c] = Queue(c, p).wire
  BY <1>1 DEF DeliveryTypeOK
<1>3. /\ p \in Seq(Waiting) /\ Len(p) = Len(q) - 1
      /\ \A j \in 1 .. Len(q) - 1 : p[j] = q[j + 1]
  BY <1>1, SpeechType
<1>4. CASE c \in closed
  <2>1. lock'[c] = <<>> /\ wire'[c] = wire[c]
    BY <1>2, <1>4 DEF Queue
  <2> QED
    BY <1>1, <1>2, <1>4, <2>1, EmptiedKept
<1>5. CASE c \notin closed
  <2>1. ASSUME p # <<>> PROVE q[1] # p[1]
    <3>1. DOMAIN q = 1 .. Len(q) /\ Len(q) \in Nat
      BY SpeechType
    <3>2. \A i, j \in DOMAIN q : q[i][1] = q[j][1] => i = j
      BY SpeechType
    <3> HIDE DEF p, q
    <3>3. Len(p) \in Nat \ {0}
      BY <1>3, <2>1, EmptySeq
    <3>4. 1 \in DOMAIN q /\ 2 \in DOMAIN q /\ p[1] = q[2]
      BY <1>3, <3>1, <3>3
    <3>5. q[1][1] # q[2][1]
      BY <3>2, <3>4
    <3> QED
      BY <3>4, <3>5
  <2>2. /\ lock'[c] = p
        /\ wire'[c] = IF p = <<>> THEN wire[c] ELSE Append(wire[c], p[1][2])
    BY <1>2, <1>5, <2>1 DEF Queue
  <2>3. Kept(c) /\ \A s : Lasts(c, s)
    BY <1>1, <1>3, <2>2, ShiftKept
  <2>4. AnswerOnce(c) => Carried(c)
    BY <1>1, <1>3, <2>2, ShiftCarried
  <2> QED
    BY <1>1, <1>2, <1>5, <2>3, <2>4
<1> QED
  BY <1>4, <1>5

(* _send: the message is written, or it waits behind the others. *)
LEMMA SendSpeaks ==
  ASSUME DeliveryTypeOK, NEW c \in Conns, NEW s \in Speakers, NEW m \in Messages,
         Send(c, s, m), ~Sending(s)
  PROVE  /\ lock' = [lock EXCEPT ![c] = lock'[c]] /\ wire' = [wire EXCEPT ![c] = wire'[c]]
         /\ Spoken(c, s, m)
         /\ c \notin closed => Arrives(c, s, m)' /\ \A t : Lasts(c, t)
         /\ c \notin closed => IF IsAnswer(m) THEN Sent(c, m) ELSE Carried(c)
         /\ c \in closed => wire'[c] = wire[c]
<1> DEFINE w == wire[c]
           v == wire'[c]
           q == lock[c]
           p == lock'[c]
           e == <<s, m>>
<1>1. /\ q \in Seq(Waiting) /\ w \in Seq(Messages)
      /\ DOMAIN q = 1 .. Len(q) /\ Len(q) \in Nat
      /\ \A i, j \in DOMAIN q : q[i][1] = q[j][1] => i = j
      /\ e \in Waiting /\ e[1] = s /\ e[2] = m
      /\ \A i \in DOMAIN q : q[i][1] # s
  BY SpeechType DEF Sending, Waiting
<1>2. CASE q = <<>> /\ c \in closed
  <2>1. /\ lock' = [lock EXCEPT ![c] = <<>>]
        /\ wire' = [wire EXCEPT ![c] = wire[c]]
    BY <1>2 DEF Send, Set, Queue
  <2>2. lock'[c] = lock[c] /\ wire'[c] = wire[c]
    BY <1>2, <2>1 DEF DeliveryTypeOK
  <2>3. Kept(c)
    BY <2>2, SameKept
  <2> QED
    BY <1>2, <2>1, <2>2, <2>3 DEF Spoken, Kept
<1>3. CASE q = <<>> /\ c \notin closed
  <2>1. /\ lock' = [lock EXCEPT ![c] = <<e>>]
        /\ wire' = [wire EXCEPT ![c] = Append(wire[c], m)]
    BY <1>3 DEF Send, Set, Queue
  <2>2. p = <<e>> /\ v = Append(w, m)
    BY <1>3, <2>1 DEF DeliveryTypeOK
  <2> HIDE DEF w, v, q, p, e
  <2>3. DOMAIN p = {1} /\ p[1] = e /\ p \in Seq(Waiting)
    BY <1>1, <2>2
  <2>4. /\ v \in Seq(Messages)
        /\ \A j \in DOMAIN w : j \in DOMAIN v /\ v[j] = w[j]
        /\ \A j \in DOMAIN v : (j \in DOMAIN w /\ v[j] = w[j]) \/ v[j] = m
        /\ \E j \in DOMAIN v : v[j] = m
    BY <1>1, <2>2, AppendElements
  <2>5. \A n \in Said(c)' : n \in Said(c) \/ n = m
    BY <1>1, <2>3, <2>4 DEF Said, w, v, q, p
  <2>6. InOrder(w, q) /\ (\A n \in Said(c) : Fits(n, m)) => InOrder(v, p)
    <3> SUFFICES ASSUME InOrder(w, q), \A n \in Said(c) : Fits(n, m) PROVE InOrder(v, p)
      OBVIOUS
    <3>1. \A i \in DOMAIN w : Fits(w[i], m)
      BY DEF Said, w
    <3> QED
      BY <1>1, <1>3, <2>2, <3>1, WriteInOrder
  <2>7. Spoken(c, s, m)
    BY <1>1, <2>3, <2>4, <2>5, <2>6 DEF Spoken, w, v, q, p
  <2>8. ASSUME NEW t PROVE Lasts(c, t)
    BY <1>3, <2>4 DEF Lasts, Arrives, w, v, q
  <2>9. Arrives(c, s, m)'
    BY <2>4 DEF Arrives, v
  <2>10. IF IsAnswer(m) THEN Sent(c, m) ELSE Carried(c)
    <3>1. Unwritten(q) = {} /\ Unwritten(p) = {}
      BY <1>3, <2>2, NoneUnwritten
    <3> QED
      BY <2>2, <3>1 DEF Sent, Carried, w, v, q, p
  <2> QED
    BY <1>3, <2>1, <2>2, <2>7, <2>8, <2>9, <2>10 DEF p, v, w
<1>4. CASE q # <<>>
  <2>1. /\ lock' = [lock EXCEPT ![c] = Append(@, e)]
        /\ wire' = wire
    BY <1>4 DEF Send
  <2>2. p = Append(q, e) /\ v = w
    BY <2>1 DEF DeliveryTypeOK
  <2> HIDE DEF w, v, q, p, e
  <2>3. /\ p \in Seq(Waiting)
        /\ Len(q) + 1 \in DOMAIN p /\ p[Len(q) + 1] = e
        /\ \A j \in DOMAIN q : j \in DOMAIN p /\ p[j] = q[j]
        /\ \A j \in DOMAIN p : (j \in DOMAIN q /\ p[j] = q[j]) \/ (j = Len(q) + 1 /\ p[j] = e)
    BY <1>1, <2>2, AppendElements
  <2>4. \A n \in Said(c)' : n \in Said(c) \/ n = m
    BY <1>1, <2>2, <2>3 DEF Said, w, v, q, p
  <2>5. InOrder(w, q) /\ (\A n \in Said(c) : Fits(n, m)) => InOrder(v, p)
    <3> SUFFICES ASSUME InOrder(w, q), \A n \in Said(c) : Fits(n, m) PROVE InOrder(v, p)
      OBVIOUS
    <3>1. (\A i \in DOMAIN w : Fits(w[i], m)) /\ \A i \in DOMAIN q : Fits(q[i][2], m)
      BY DEF Said, w, q
    <3> QED
      BY <1>1, <1>4, <2>2, <3>1, AppendInOrder
  <2>6. \A i, j \in DOMAIN p : p[i][1] = p[j][1] => i = j
    BY <1>1, <2>3
  <2>7. Spoken(c, s, m)
    BY <1>1, <2>2, <2>3, <2>4, <2>5, <2>6 DEF Spoken, w, v, q, p
  <2>8. ASSUME NEW t PROVE Lasts(c, t)
    BY <2>2, <2>3 DEF Lasts, Arrives, w, v, q, p
  <2>9. Arrives(c, s, m)'
    <3>1. 1 < Len(q) + 1
      BY <1>1, <1>4, EmptySeq
    <3> QED
      BY <2>3, <3>1 DEF Arrives, p, e
  <2>10. IF IsAnswer(m) THEN Sent(c, m) ELSE Carried(c)
    <3>1. Unwritten(p) = Unwritten(q) \cup (IF IsAnswer(e[2]) THEN {e[2]} ELSE {})
      BY <1>1, <1>4, <2>2, AppendUnwritten
    <3>2. Unwritten(p) = IF IsAnswer(m) THEN Unwritten(q) \cup {m} ELSE Unwritten(q)
      BY <1>1, <3>1
    <3> QED
      BY <2>2, <3>2 DEF Sent, Carried, w, v, q, p
  <2> QED
    BY <2>1, <2>2, <2>7, <2>8, <2>9, <2>10 DEF p, q, e, v, w, DeliveryTypeOK
<1> QED
  BY <1>2, <1>3, <1>4

(* CancelledError takes s from the queues, and nobody else. *)
LEMMA SilenceKept ==
  ASSUME DeliveryTypeOK, NEW s, Silence(s), NEW c \in Conns
  PROVE  /\ Kept(c)
         /\ c \notin closed => \A t : t # s => Lasts(c, t)
         /\ c \notin closed /\ AnswerOnce(c)
              /\ (\A i \in DOMAIN lock[c] : lock[c][i][1] = s => ~IsAnswer(lock[c][i][2]))
            => Carried(c)
         /\ c \in closed => wire'[c] = wire[c]
<1> DEFINE q == lock[c]
           p == Without(lock[c], s)
<1>1. /\ lock'[c] = IF q = <<>> THEN <<>> ELSE Queue(c, p).lock
      /\ wire'[c] = IF q = <<>> THEN wire[c] ELSE Queue(c, p).wire
  BY DEF Silence
<1> DEFINE Silent == \A i \in DOMAIN lock[c] : lock[c][i][1] = s => ~IsAnswer(lock[c][i][2])
           Plain == AnswerOnce(c) /\ Silent
<1>0. c \in closed => wire'[c] = wire[c]
  BY <1>1 DEF Queue
<1> SUFFICES Kept(c) /\ (c \notin closed => (\A t : t # s => Lasts(c, t)) /\ (Plain => Carried(c)))
  BY <1>0
<1>2. CASE q = <<>>
  BY <1>1, <1>2, SameKept
<1>3. CASE q # <<>> /\ c \in closed
  <2>1. lock'[c] = <<>> /\ wire'[c] = wire[c]
    BY <1>1, <1>3 DEF Queue
  <2> QED
    BY <1>3, <2>1, EmptiedKept
<1>4. CASE q # <<>> /\ c \notin closed
  <2>1. /\ lock'[c] = p
        /\ wire'[c] = IF p = <<>> \/ q[1] = p[1] THEN wire[c] ELSE Append(wire[c], p[1][2])
    BY <1>1, <1>4 DEF Queue
  <2>2. CASE ~\E i \in DOMAIN q : q[i][1] = s
    <3>1. p = q
      BY <2>2 DEF Without
    <3> QED
      BY <2>1, <3>1, SameKept
  <2>3. CASE \E i \in DOMAIN q : q[i][1] = s
    <3> DEFINE k == CHOOSE i \in DOMAIN q : q[i][1] = s
    <3>1. k \in DOMAIN q /\ q[k][1] = s /\ p = RemoveAt(q, k)
      BY <2>3 DEF Without
    <3> HIDE DEF k
    <3>2. /\ q \in Seq(Waiting) /\ k \in 1 .. Len(q) /\ Len(q) \in Nat /\ DOMAIN q = 1 .. Len(q)
          /\ \A i, j \in DOMAIN q : q[i][1] = q[j][1] => i = j
      BY <3>1, SpeechType
    <3>7. Plain => ~IsAnswer(q[k][2])
      BY <3>1
    <3> HIDE DEF p, q, Plain
    <3>3. /\ p \in Seq(Waiting) /\ Len(p) = Len(q) - 1
          /\ \A j \in 1 .. Len(q) - 1 : p[j] = IF j < k THEN q[j] ELSE q[j + 1]
      BY <3>1, <3>2, RemoveAtElements
    <3>4. p # <<>> => 1 \in 1 .. Len(q) - 1 /\ 2 \in DOMAIN q /\ 1 \in DOMAIN q
      <4>1. p # <<>> => Len(p) \in Nat \ {0}
        BY <3>3, EmptySeq
      <4> QED
        BY <3>2, <3>3, <4>1
    <3>5. CASE k = 1
      <4>1. \A j \in 1 .. Len(q) - 1 : p[j] = q[j + 1]
        BY <3>3, <3>5
      <4>2. p # <<>> => p[1] = q[2] /\ q[1] # q[2]
        BY <3>2, <3>4, <4>1
      <4>3. wire'[c] = IF p = <<>> THEN wire[c] ELSE Append(wire[c], p[1][2])
        BY <2>1, <4>2
      <4>4. Kept(c) /\ \A t : Lasts(c, t)
        BY <1>4, <2>1, <3>3, <4>1, <4>3, ShiftKept DEF q
      <4>5. AnswerOnce(c) => Carried(c)
        BY <1>4, <2>1, <3>3, <4>1, <4>3, ShiftCarried DEF q
      <4> QED
        BY <4>4, <4>5 DEF Plain
    <3>6. CASE k # 1
      <4>1. k \in 2 .. Len(q)
        BY <3>2, <3>6
      <4>2. p # <<>> => p[1] = q[1]
        BY <3>3, <3>4, <4>1
      <4>3. wire'[c] = wire[c]
        BY <2>1, <4>2
      <4> QED
        BY <2>1, <3>1, <3>7, <4>1, <4>3, RemoveKept DEF q
    <3> QED
      BY <3>5, <3>6
  <2> QED
    BY <2>2, <2>3
<1> QED
  BY <1>2, <1>3, <1>4

-----------------------------------------------------------------------------
(* What a step says *)

(* The runs are as far as the message m that is said on c tells. *)
Fresh(c, m) ==
    \/ m.kind \notin NoticeKinds \cup {"accepted", "attached"}
    \/ m.kind = "accepted" /\ state[m.run] = "none"
    \/ m.kind = "attached" /\ m.history = history /\ m.active = {r \in Runs : state[r] = "running"}
    \/ \E r \in Runs :
         \/ m = Notice("user_message", r) /\ stage[r] = "user_message"
         \/ m = Notice("heartbeat", r) /\ beat[r] = "telling"
         \/ m = Notice(state[r], r) /\ stage[r] = "outcome" /\ c \in left[Task(r)] /\ c \notin left'[Task(r)]

Quiet == \A c \in Conns : Kept(c)

Speech(c, s, m) ==
    /\ Spoken(c, s, m)
    /\ ~Sending(s)
    /\ Fresh(c, m)
    /\ IsAnswer(m) => s = Reader(c)
    /\ \A d \in Conns : s = Reader(d) => reader'[d] = "answering"
    /\ \A d \in Conns \ {c} : Kept(d)

(* A step may cancel what s says. *)
Cancellable(s) == \E r \in Runs : s = Pulse(r) \/ (s = Task(r) /\ state[r] = "cancelled")

StepSpeech ==
    /\ lock' = [c \in Conns |-> lock'[c]] /\ wire' = [c \in Conns |-> wire'[c]]
    /\ Quiet \/ \E c \in Conns, s \in Speakers, m \in Messages : Speech(c, s, m)
    /\ \A c \in Conns \ (closed \cup closed') : \A s : ~Cancellable(s) => Lasts(c, s)

LEMMA QuietSpeech ==
  ASSUME DeliveryTypeOK, UNCHANGED sendVars
  PROVE  StepSpeech
<1>1. lock' = lock /\ wire' = wire
  BY DEF sendVars
<1>2. Quiet /\ \A c \in Conns : \A s : Lasts(c, s)
  BY <1>1, SameKept DEF Quiet
<1>3. lock = [c \in Conns |-> lock[c]] /\ wire = [c \in Conns |-> wire[c]]
  BY DEF DeliveryTypeOK
<1> QED
  BY <1>1, <1>2, <1>3 DEF StepSpeech

LEMMA SendSpeech ==
  ASSUME DeliveryTypeOK, NEW c \in Conns, NEW s \in Speakers, NEW m \in Messages,
         Send(c, s, m), ~Sending(s), Fresh(c, m), IsAnswer(m) => s = Reader(c),
         \A d \in Conns : s = Reader(d) => reader'[d] = "answering"
  PROVE  StepSpeech
<1>1. /\ lock' = [lock EXCEPT ![c] = lock'[c]] /\ wire' = [wire EXCEPT ![c] = wire'[c]]
      /\ Spoken(c, s, m)
      /\ c \notin closed => \A t : Lasts(c, t)
  BY SendSpeaks
<1>2. \A d \in Conns \ {c} : lock'[d] = lock[d] /\ wire'[d] = wire[d]
  BY <1>1 DEF DeliveryTypeOK
<1>3. \A d \in Conns \ {c} : Kept(d) /\ \A t : Lasts(d, t)
  BY <1>2, SameKept
<1>4. lock' = [d \in Conns |-> lock'[d]] /\ wire' = [d \in Conns |-> wire'[d]]
  BY <1>1 DEF DeliveryTypeOK
<1> QED
  BY <1>1, <1>3, <1>4 DEF StepSpeech, Speech

(* An answer of the read loop. *)
LEMMA ReplySpeech ==
  ASSUME DeliveryTypeOK, ReaderInv, NEW c \in Conns, reader[c] # "answering",
         NEW m \in Messages, NEW next, Reply(c, m, next), Fresh(c, m)
  PROVE  StepSpeech
<1>1. ~Sending(Reader(c))
  BY DEF Sending, ReaderInv
<1>2. reader'[c] = "answering" /\ Send(c, Reader(c), m)
  BY DEF Reply, DeliveryTypeOK
<1> QED
  BY <1>1, <1>2, SendSpeech, SpeakersDiffer

(* What the read loop answers is a message. *)
LEMMA AnswerTypes ==
  /\ \A line : \A what \in Dispatched(line), id \in Nat :
        /\ Answer(what, id) \in Messages
        /\ Answer(what, id).kind \notin NoticeKinds \cup {"accepted", "attached"}
  /\ \A id \in Nat :
        \A what \in {"parse_error", "invalid_request", "session_busy", "internal_error", "result"} :
            /\ Answer(what, id) \in Messages
            /\ Answer(what, id).kind \notin NoticeKinds \cup {"accepted", "attached"}
<1> DEFINE Errors == {"parse_error", "invalid_request", "session_busy", "internal_error",
                      "method_not_found", "invalid_params", "result"}
<1>1. ASSUME NEW id \in Nat, NEW what \in Errors
      PROVE  /\ Answer(what, id) \in Messages
             /\ Answer(what, id).kind \notin NoticeKinds \cup {"accepted", "attached"}
  <2>1. Answer(what, id) \in [kind : Errors, id : Nat] /\ Answer(what, id).kind = what
    BY DEF Answer
  <2> QED
    BY <2>1 DEF Messages, NoticeKinds
<1>2. ASSUME NEW line PROVE Dispatched(line) \subseteq Errors
  BY DEF Dispatched
<1> QED
  BY <1>1, <1>2

LEMMA ParseKinds ==
  ASSUME NEW line, Parse(line) # "request"
  PROVE  (IF Parse(line) = "response" THEN "invalid_request" ELSE Parse(line))
             \in {"parse_error", "invalid_request"}
  BY DEF Parse, ParseRequest, ParseResponse

LEMMA RunMessages ==
  ASSUME DeliveryTypeOK
  PROVE  /\ \A r \in Runs, id \in Nat : Accepted(r, id) \in Messages
         /\ \A id \in Nat : Snapshot(id) \in Messages
         /\ \A r \in Runs, what \in NoticeKinds :
                Notice(what, r) \in Messages /\ ~IsAnswer(Notice(what, r))
<1>1. \A r \in Runs, id \in Nat : Accepted(r, id) \in Messages
  BY DEF Accepted, Messages
<1>2. \A id \in Nat : Snapshot(id) \in Messages
  <2> TAKE id \in Nat
  <2>1. history \in SUBSET Runs /\ {r \in Runs : state[r] = "running"} \in SUBSET Runs
    BY DEF DeliveryTypeOK
  <2> QED
    BY <2>1 DEF Snapshot, Messages
<1>3. \A r \in Runs, what \in NoticeKinds : Notice(what, r) \in Messages /\ ~IsAnswer(Notice(what, r))
  BY DEF Notice, Messages, IsAnswer
<1> QED
  BY <1>1, <1>2, <1>3

(* Whoever closes a connection says nothing. *)
LEMMA CloseSpeech ==
  ASSUME DeliveryTypeOK, NEW c \in Conns,
         c \in closed', wire' = [wire EXCEPT ![c] = <<>>],
         lock' = lock \/ lock' = [lock EXCEPT ![c] = <<>>]
  PROVE  StepSpeech
<1>1. lock'[c] \in {lock[c], <<>>} /\ wire'[c] = <<>>
  BY DEF DeliveryTypeOK
<1>2. \A d \in Conns \ {c} : lock'[d] = lock[d] /\ wire'[d] = wire[d]
  BY DEF DeliveryTypeOK
<1>3. /\ \A d \in Conns : Kept(d)
      /\ \A d \in Conns \ {c} : \A s : Lasts(d, s)
  BY <1>1, <1>2, EmptiedKept, SameKept
<1>4. lock' = [d \in Conns |-> lock'[d]] /\ wire' = [d \in Conns |-> wire'[d]]
  BY DEF DeliveryTypeOK
<1> QED
  BY <1>3, <1>4 DEF StepSpeech, Quiet

LEMMA ReplyResultSpeech ==
  ASSUME DeliveryTypeOK, ReaderInv, NEW c \in Conns, reader[c] # "answering", NEW line,
         NEW m \in Messages, NEW next, ReplyResult(c, line, m, next), Fresh(c, m)
  PROVE  StepSpeech
<1>1. CASE Reply(c, m, next)
  BY <1>1, ReplySpeech
<1>2. CASE GoOn(c)
  BY <1>2, QuietSpeech DEF GoOn
<1> QED
  BY <1>1, <1>2 DEF ReplyResult

LEMMA ReadSpeech ==
  ASSUME DeliveryTypeOK, ReaderInv, NEW c \in Conns, NEW line, Read(c, line)
  PROVE  StepSpeech
<1>1. reader[c] # "answering" /\ lines[c] + 1 \in Nat /\ Id(c, line) \in Nat
  <2>1. reader[c] = "reading"
    BY DEF Read
  <2>2. lines[c] \in Nat
    BY DEF DeliveryTypeOK
  <2> QED
    BY <2>1, <2>2 DEF Id
<1>2. CASE Close(c)
  BY <1>2, CloseSpeech DEF Close, Unread
<1>3. CASE Reject(c, line)
  BY <1>1, <1>3, ReplySpeech, ParseKinds, AnswerTypes DEF Reject, Fresh
<1>4. CASE Dispatch(c, line)
  BY <1>1, <1>4, ReplyResultSpeech, AnswerTypes DEF Dispatch, Fresh
<1>5. CASE Attach(c, line)
  <2>1. Snapshot(lines[c] + 1) \in Messages /\ Fresh(c, Snapshot(lines[c] + 1))
    BY <1>1, RunMessages DEF Snapshot, Fresh
  <2> QED
    BY <1>1, <1>5, <2>1, ReplyResultSpeech DEF Attach
<1>6. CASE Refuse(c, line)
  BY <1>1, <1>6, ReplySpeech, AnswerTypes DEF Refuse, Fresh
<1>7. CASE CreateFails(c, line)
  BY <1>1, <1>7, ReplySpeech, AnswerTypes DEF CreateFails, Fresh
<1>8. ASSUME NEW r \in Runs, Accept(c, line, r) PROVE StepSpeech
  <2>1. Accepted(r, lines[c] + 1) \in Messages /\ Fresh(c, Accepted(r, lines[c] + 1))
    BY <1>1, <1>8, RunMessages DEF Accepted, Accept, Fresh
  <2>2. CASE line.id = "valid"
    BY <1>1, <1>8, <2>1, <2>2, ReplySpeech DEF Accept
  <2>3. CASE line.id # "valid"
    BY <1>8, <2>3, QuietSpeech DEF Accept, GoOn
  <2> QED
    BY <2>2, <2>3
<1>9. CASE Detach(c, line)
  <2>1. CASE pending'[c] = None
    BY <1>1, <1>9, <2>1, ReplyResultSpeech, AnswerTypes DEF Detach, Fresh
  <2>2. CASE pending'[c] # None
    BY <1>9, <2>2, QuietSpeech DEF Detach
  <2> QED
    BY <2>1, <2>2
<1>10. CASE Shutdown(c, line)
  BY <1>1, <1>10, ReplySpeech, AnswerTypes DEF Shutdown, Fresh
<1> QED
  BY <1>2, <1>3, <1>4, <1>5, <1>6, <1>7, <1>8, <1>9, <1>10 DEF Read, Request

(* The other steps of a connection, and what a run says. *)
LEMMA ConnectionSpeech ==
  ASSUME DeliveryTypeOK, ReaderInv, NEW c \in Conns,
         Disconnect(c) \/ BreaksDown(c) \/ Connection(c)
  PROVE  StepSpeech
<1>1. CASE Disconnect(c)
  BY <1>1, CloseSpeech DEF Disconnect, Close, Unread
<1>2. CASE BreaksDown(c)
  BY <1>2, CloseSpeech DEF BreaksDown, Unread
<1>3. CASE Drained(c)
  <2>1. /\ lock' = [lock EXCEPT ![c] = lock'[c]] /\ wire' = [wire EXCEPT ![c] = wire'[c]]
        /\ Kept(c)
        /\ c \notin closed => \A s : Lasts(c, s)
    BY <1>3, DrainedKept
  <2>2. \A d \in Conns \ {c} : lock'[d] = lock[d] /\ wire'[d] = wire[d]
    BY <2>1 DEF DeliveryTypeOK
  <2>3. lock' = [d \in Conns |-> lock'[d]] /\ wire' = [d \in Conns |-> wire'[d]]
    BY <2>1 DEF DeliveryTypeOK
  <2> QED
    BY <2>1, <2>2, <2>3, SameKept DEF StepSpeech, Quiet
<1>4. CASE Answered(c)
  <2>1. CASE Close(c)
    BY <2>1, CloseSpeech DEF Close, Unread
  <2> QED
    BY <1>4, <2>1, QuietSpeech DEF Answered, GoOn
<1>5. CASE CancelLanded(c)
  <2>1. reader[c] # "answering" /\ lines[c] \in Nat
    BY <1>5 DEF CancelLanded, DeliveryTypeOK
  <2>2. CASE Reply(c, Answer("result", lines[c]), "read")
    BY <2>1, <2>2, ReplySpeech, AnswerTypes DEF Fresh
  <2> QED
    BY <1>5, <2>2, QuietSpeech DEF CancelLanded, GoOn
<1> QED
  BY <1>1, <1>2, <1>3, <1>4, <1>5 DEF Connection

LEMMA SilenceSpeech ==
  ASSUME DeliveryTypeOK, NEW s, Silence(s), Cancellable(s)
  PROVE  StepSpeech
<1>1. lock' = [d \in Conns |-> lock'[d]] /\ wire' = [d \in Conns |-> wire'[d]]
  BY DEF Silence
<1> QED
  BY <1>1, SilenceKept DEF StepSpeech, Quiet

LEMMA TellSpeech ==
  ASSUME DeliveryTypeOK, NEW s \in Speakers, \A d \in Conns : s # Reader(d),
         s \in DOMAIN left, NEW m \in Messages, Tell(s, m), ~IsAnswer(m),
         \A c \in left[s] : c \notin left'[s] => Fresh(c, m)
  PROVE  StepSpeech
<1>1. PICK c \in left[s] : left' = [left EXCEPT ![s] = @ \ {c}] /\ Send(c, s, m)
  BY DEF Tell
<1>2. c \in Conns /\ c \notin left'[s]
  BY <1>1 DEF DeliveryTypeOK
<1> QED
  BY <1>1, <1>2, SendSpeech DEF Tell

LEMMA RunSpeech ==
  ASSUME DeliveryTypeOK, StageInv, NEW r \in Runs, Run(r) \/ HeartbeatStep(r) \/ Beat(r)
  PROVE  StepSpeech
<1>1. CASE Speak(r)
  <2>1. CASE stage[r] = "user_message"
    <3>1. Says(r) = Notice("user_message", r)
      BY <2>1 DEF Says
    <3>2. Says(r) \in Messages /\ ~IsAnswer(Says(r)) /\ \A c \in Conns : Fresh(c, Says(r))
      BY <2>1, <3>1, RunMessages DEF NoticeKinds, Fresh
    <3> QED
      BY <1>1, <3>2, TellSpeech, SpeakersDiffer DEF Speak, DeliveryTypeOK
  <2>2. CASE stage[r] = "outcome"
    <3>1. Says(r) = Notice(state[r], r) /\ state[r] \in Outcomes
      BY <2>2 DEF Says, StageInv, StageOf, Accepting
    <3>2. Says(r) \in Messages /\ ~IsAnswer(Says(r))
      BY <3>1, RunMessages DEF NoticeKinds, Outcomes
    <3>3. \A c \in left[Task(r)] : c \notin left'[Task(r)] => Fresh(c, Says(r))
      BY <2>2, <3>1 DEF Fresh
    <3> QED
      BY <1>1, <3>2, <3>3, TellSpeech, SpeakersDiffer DEF Speak, DeliveryTypeOK
  <2> QED
    BY <1>1, <2>1, <2>2 DEF Speak
<1>2. CASE SpeakBeat(r)
  <2>1. /\ Notice("heartbeat", r) \in Messages /\ ~IsAnswer(Notice("heartbeat", r))
        /\ \A c \in Conns : Fresh(c, Notice("heartbeat", r))
    BY <1>2, RunMessages DEF SpeakBeat, NoticeKinds, Fresh
  <2>2. /\ Pulse(r) \in Speakers /\ Pulse(r) \in DOMAIN left /\ left[Pulse(r)] \subseteq Conns
        /\ \A d \in Conns : Pulse(r) # Reader(d)
    BY SpeakersDiffer DEF DeliveryTypeOK
  <2>3. Tell(Pulse(r), Notice("heartbeat", r))
    BY <1>2 DEF SpeakBeat
  <2> QED
    BY <2>1, <2>2, <2>3, TellSpeech
<1>3. CASE CancelDelivered(r)
  BY <1>3, SilenceSpeech DEF CancelDelivered, Cancellable
<1>4. CASE BeatEnds(r)
  BY <1>4, SilenceSpeech DEF BeatEnds, Cancellable
<1>5. CASE Begin(r) \/ RecordTurn(r) \/ Finish(r) \/ BeginOutcome(r) \/ Done(r) \/ Unwound(r) \/ Beat(r)
  BY <1>5, QuietSpeech DEF Begin, RecordTurn, Finish, BeginOutcome, Done, Unwound, Beat
<1> QED
  BY <1>1, <1>2, <1>3, <1>4, <1>5 DEF Run, HeartbeatStep

LEMMA NextSpeech ==
  ASSUME DeliveryTypeOK, StageInv, ReaderInv, [Next]_vars
  PROVE  StepSpeech
<1>1. CASE UNCHANGED vars
  BY <1>1, QuietSpeech DEF vars
<1> QED
  BY <1>1, ReadSpeech, ConnectionSpeech, RunSpeech DEF Next, Client

-----------------------------------------------------------------------------
(* How far a step takes the runs *)

ControlTypeOK ==
    /\ reader \in [Conns -> {"reading", "answering", "detaching", "closing", "gone"}]
    /\ then \in [Conns -> {"read", "create", "quit", "answer"}]
    /\ pending \in [Conns -> Runs \cup {None}]
    /\ lines \in [Conns -> Nat]
    /\ closed \subseteq Conns
    /\ sinks \subseteq Conns
    /\ history \subseteq Runs
    /\ state \in [Runs -> {"none", "running", "completed", "failed", "cancelled"}]
    /\ initiator \in [Runs -> Conns \cup {None}]
    /\ stage \in [Runs -> {"none", "accepting", "scheduled", "user_message", "answered",
                          "stopping", "outcome", "unwind", "done"}]
    /\ beat \in [Runs -> {"off", "idle", "telling", "cancelled"}]
    /\ left \in [{"run", "beat"} \X Runs -> SUBSET Conns]
    /\ owed \in [Conns -> Seq(Nat)]
    /\ ended \in [Conns -> SUBSET Runs]

(* A run that is over stays so, and so does the history. *)
GoesOn ==
    /\ \A r \in Runs :
        /\ state[r] # "none" => state'[r] # "none"
        /\ stage[r] \in {"outcome", "done"} /\ state[r] \in Outcomes
             => stage'[r] \in {"outcome", "done"} /\ state'[r] = state[r]
    /\ history \subseteq history'

Controlled == ControlTypeOK' /\ StageInv' /\ GoesOn

LEMMA ControlType ==
  ASSUME DeliveryTypeOK
  PROVE  ControlTypeOK
  BY DEF DeliveryTypeOK, ControlTypeOK

(* The endpoint that leaves, and the run that nobody sees. *)
LEMMA LeaveControl ==
  ASSUME ControlTypeOK, NEW c \in Conns, NEW going \in BOOLEAN, Leave(c, going)
  PROVE  /\ sinks' = sinks \ {c}
         /\ state' \in [Runs -> {"none", "running", "completed", "failed", "cancelled"}]
         /\ \A r \in Runs : state'[r] = state[r] \/ (state[r] = "running" /\ state'[r] = "cancelled")
         /\ pending' \in [Conns -> Runs \cup {None}]
         /\ \A d \in Conns \ {c} : pending'[d] = pending[d]
<1> DEFINE unseen == {r \in Active : /\ sinks \ {c} = {}
                                     /\ c \in sinks \/ (going /\ initiator[r] = c)}
           p == IF \E r \in unseen : stage[r] # "accepting" THEN CHOOSE r \in unseen : TRUE ELSE None
<1>1. /\ sinks' = sinks \ {c}
      /\ state' = [r \in Runs |-> IF r \in unseen THEN "cancelled" ELSE state[r]]
      /\ pending' = [pending EXCEPT ![c] = p]
  BY DEF Leave
<1>2. \A r \in unseen : r \in Runs /\ state[r] = "running"
  BY DEF Active
<1>3. p \in Runs \cup {None}
  <2>1. CASE \E r \in unseen : stage[r] # "accepting"
    BY <1>2, <2>1
  <2> QED
    BY <2>1
<1> HIDE DEF unseen, p
<1> QED
  BY <1>1, <1>2, <1>3 DEF ControlTypeOK

(* A step that does nothing to the runs. *)
LEMMA IdleControl ==
  ASSUME ControlTypeOK, StageInv, UNCHANGED <<pending, history, runVars>>,
         UNCHANGED <<reader, then>>
           \/ \E c \in Conns : GoOn(c) \/ \E m : Reply(c, m, "read") \/ Reply(c, m, "quit")
  PROVE  /\ StageInv' /\ GoesOn
         /\ reader' \in [Conns -> {"reading", "answering", "detaching", "closing", "gone"}]
         /\ then' \in [Conns -> {"read", "create", "quit", "answer"}]
<1>1. GoesOn
  BY DEF GoesOn, runVars
<1>2. /\ reader' \in [Conns -> {"reading", "answering", "detaching", "closing", "gone"}]
      /\ then' \in [Conns -> {"read", "create", "quit", "answer"}]
      /\ \A c \in Conns : then'[c] = "create" => then[c] = "create" /\ reader'[c] = reader[c]
  <2>1. CASE UNCHANGED <<reader, then>>
    BY <2>1 DEF ControlTypeOK
  <2>2. ASSUME NEW d \in Conns, NEW next \in {"read", "quit"}, NEW place \in {"reading", "answering"},
               reader' = [reader EXCEPT ![d] = place], then' = [then EXCEPT ![d] = next]
        PROVE  /\ reader' \in [Conns -> {"reading", "answering", "detaching", "closing", "gone"}]
               /\ then' \in [Conns -> {"read", "create", "quit", "answer"}]
               /\ \A c \in Conns : then'[c] = "create" => then[c] = "create" /\ reader'[c] = reader[c]
    BY <2>2 DEF ControlTypeOK
  <2> QED
    BY <2>1, <2>2 DEF GoOn, Reply
<1>3. StageInv'
  BY <1>2 DEF StageInv, StageOf, Accepting, runVars, ControlTypeOK
<1> QED
  BY <1>1, <1>2, <1>3

LEMMA SubscribeControl ==
  ASSUME ControlTypeOK, NEW c \in Conns, Subscribe(c)
  PROVE  /\ sinks' = sinks \cup {c} /\ sinks' \subseteq Conns
         /\ ended' \in [Conns -> SUBSET Runs]
  BY DEF ControlTypeOK, Subscribe, Ended

LEMMA CloseControl ==
  ASSUME ControlTypeOK, StageInv, NEW c \in Conns, Close(c),
         reader[c] = "reading" \/ then[c] # "create",
         lines' \in [Conns -> Nat]
  PROVE  Controlled
<1>1. /\ closed' = closed \cup {c}
      /\ Leave(c, TRUE)
      /\ reader' = [reader EXCEPT ![c] = IF pending'[c] = None THEN "gone" ELSE "closing"]
      /\ then' = [then EXCEPT ![c] = "read"]
      /\ owed' = [owed EXCEPT ![c] = <<>>]
      /\ ended' = [ended EXCEPT ![c] = {}]
      /\ UNCHANGED <<history, initiator, stage, beat, left>>
  BY DEF Close, Unread
<1>2. /\ sinks' = sinks \ {c}
      /\ state' \in [Runs -> {"none", "running", "completed", "failed", "cancelled"}]
      /\ \A r \in Runs : state'[r] = state[r] \/ (state[r] = "running" /\ state'[r] = "cancelled")
      /\ pending' \in [Conns -> Runs \cup {None}]
      /\ \A d \in Conns \ {c} : pending'[d] = pending[d]
  BY <1>1, LeaveControl
<1>3. GoesOn
  BY <1>1, <1>2 DEF GoesOn, Outcomes
<1>4. ControlTypeOK'
  <2>1. owed' \in [Conns -> Seq(Nat)] /\ ended' \in [Conns -> SUBSET Runs]
    BY <1>1 DEF ControlTypeOK
  <2>2. closed' \subseteq Conns /\ sinks' \subseteq Conns
    BY <1>1, <1>2 DEF ControlTypeOK
  <2>3. /\ reader' \in [Conns -> {"reading", "answering", "detaching", "closing", "gone"}]
        /\ then' \in [Conns -> {"read", "create", "quit", "answer"}]
    BY <1>1 DEF ControlTypeOK
  <2> QED
    BY <1>1, <1>2, <2>1, <2>2, <2>3 DEF ControlTypeOK
<1>5. StageInv'
  BY <1>1, <1>2 DEF StageInv, StageOf, Accepting, ControlTypeOK, Outcomes
<1> QED
  BY <1>3, <1>4, <1>5 DEF Controlled

(* What the protocol owes for a line is a sequence of numbers. *)
LEMMA OwedType ==
  ASSUME ControlTypeOK, NEW c \in Conns, NEW line,
         owed' = [owed EXCEPT ![c] = IF c \in closed THEN <<>> ELSE @ \o Owed(c, line)]
  PROVE  owed' \in [Conns -> Seq(Nat)]
<1>1. Owed(c, line) \in Seq(Nat)
  <2>1. lines[c] + 1 \in Nat
    BY DEF ControlTypeOK
  <2> QED
    BY <2>1 DEF Owed
<1>2. owed[c] \in Seq(Nat)
  BY DEF ControlTypeOK
<1>3. owed[c] \o Owed(c, line) \in Seq(Nat)
  BY <1>1, <1>2
<1> QED
  BY <1>3 DEF ControlTypeOK

LEMMA ReadControl ==
  ASSUME ControlTypeOK, StageInv, NEW c \in Conns, NEW line, Read(c, line)
  PROVE  Controlled
<1>1. /\ reader[c] = "reading"
      /\ lines' = [lines EXCEPT ![c] = @ + 1]
  BY DEF Read
<1>2. then[c] # "create" /\ lines' \in [Conns -> Nat]
  BY <1>1 DEF ControlTypeOK, StageInv, StageOf, Accepting
<1>3. CASE Close(c)
  BY <1>1, <1>2, <1>3, CloseControl
<1> SUFFICES ASSUME ~Close(c) PROVE Controlled
  BY <1>3
<1>4. /\ owed' \in [Conns -> Seq(Nat)]
      /\ Reject(c, line) \/ Request(c, line)
  BY OwedType DEF Read
<1>5. ASSUME UNCHANGED <<pending, closed, history, runVars>>,
             GoOn(c) \/ \E m : Reply(c, m, "read") \/ Reply(c, m, "quit"),
             sinks' \subseteq Conns, ended' \in [Conns -> SUBSET Runs]
      PROVE  Controlled
  <2>1. /\ StageInv' /\ GoesOn
        /\ reader' \in [Conns -> {"reading", "answering", "detaching", "closing", "gone"}]
        /\ then' \in [Conns -> {"read", "create", "quit", "answer"}]
    BY <1>5, IdleControl
  <2>2. ControlTypeOK'
    BY <1>2, <1>4, <1>5, <2>1 DEF ControlTypeOK, runVars
  <2> QED
    BY <2>1, <2>2 DEF Controlled
<1>6. sinks \subseteq Conns /\ ended \in [Conns -> SUBSET Runs]
  BY DEF ControlTypeOK
<1>7. CASE Reject(c, line)
  BY <1>5, <1>6, <1>7 DEF Reject
<1>8. CASE Dispatch(c, line)
  BY <1>5, <1>6, <1>8 DEF Dispatch, ReplyResult
<1>9. CASE Attach(c, line)
  BY <1>5, <1>9, SubscribeControl DEF Attach, ReplyResult
<1>10. CASE Refuse(c, line)
  BY <1>5, <1>10, SubscribeControl DEF Refuse
<1>11. CASE CreateFails(c, line)
  BY <1>5, <1>11, SubscribeControl DEF CreateFails
<1>12. CASE Shutdown(c, line)
  BY <1>5, <1>6, <1>12 DEF Shutdown
<1>13. ASSUME NEW r \in Runs, Accept(c, line, r) PROVE Controlled
  <2>1. /\ state[r] = "none" /\ stage[r] = "none"
        /\ state' = [state EXCEPT ![r] = "running"]
        /\ initiator' = [initiator EXCEPT ![r] = c]
        /\ UNCHANGED <<closed, history, beat, left>>
    BY <1>13 DEF Accept, StageInv, StageOf, Accepting
  <2>2. sinks' \subseteq Conns /\ ended' \in [Conns -> SUBSET Runs]
    BY <1>13, SubscribeControl DEF Accept
  <2>3. CASE line.id = "valid"
    <3>1. /\ reader' = [reader EXCEPT ![c] = "answering"]
          /\ then' = [then EXCEPT ![c] = "create"]
          /\ stage' = [stage EXCEPT ![r] = "accepting"]
          /\ pending' = [pending EXCEPT ![c] = r]
      BY <1>13, <2>3 DEF Accept, Reply
    <3>2. ControlTypeOK'
      BY <1>2, <1>4, <2>1, <2>2, <3>1 DEF ControlTypeOK
    <3>3. StageInv'
      <4>1. ASSUME NEW d \in Conns PROVE Accepting(d)'
        <5>1. CASE d = c
          BY <2>1, <3>1, <5>1 DEF Accepting, ControlTypeOK
        <5>2. CASE d # c
          BY <2>1, <3>1, <5>2 DEF StageInv, Accepting, ControlTypeOK
        <5> QED
          BY <5>1, <5>2
      <4>2. ASSUME NEW t \in Runs PROVE StageOf(t)'
        BY <2>1, <3>1 DEF StageInv, StageOf, ControlTypeOK
      <4> QED
        BY <4>1, <4>2 DEF StageInv
    <3>4. GoesOn
      BY <2>1, <3>1 DEF GoesOn, ControlTypeOK, Outcomes
    <3> QED
      BY <3>2, <3>3, <3>4 DEF Controlled
  <2>4. CASE line.id # "valid"
    <3>1. /\ reader' = [reader EXCEPT ![c] = "reading"]
          /\ then' = [then EXCEPT ![c] = "read"]
          /\ stage' = [stage EXCEPT ![r] = "scheduled"]
          /\ pending' = pending
      BY <1>13, <2>4 DEF Accept, GoOn
    <3>2. ControlTypeOK'
      BY <1>2, <1>4, <2>1, <2>2, <3>1 DEF ControlTypeOK
    <3>3. StageInv'
      <4>1. ASSUME NEW d \in Conns PROVE Accepting(d)'
        <5>1. CASE d = c
          BY <2>1, <3>1, <5>1 DEF Accepting, ControlTypeOK
        <5>2. CASE d # c
          BY <2>1, <3>1, <5>2 DEF StageInv, Accepting, ControlTypeOK
        <5> QED
          BY <5>1, <5>2
      <4>2. ASSUME NEW t \in Runs PROVE StageOf(t)'
        BY <2>1, <3>1 DEF StageInv, StageOf, ControlTypeOK
      <4> QED
        BY <4>1, <4>2 DEF StageInv
    <3>4. GoesOn
      BY <2>1, <3>1 DEF GoesOn, ControlTypeOK, Outcomes
    <3> QED
      BY <3>2, <3>3, <3>4 DEF Controlled
  <2> QED
    BY <2>3, <2>4
<1>14. CASE Detach(c, line)
  <2>1. /\ sinks' = sinks \ {c}
        /\ state' \in [Runs -> {"none", "running", "completed", "failed", "cancelled"}]
        /\ \A r \in Runs : state'[r] = state[r] \/ (state[r] = "running" /\ state'[r] = "cancelled")
        /\ pending' \in [Conns -> Runs \cup {None}]
        /\ \A d \in Conns \ {c} : pending'[d] = pending[d]
    BY <1>14, LeaveControl DEF Detach
  <2>2. /\ UNCHANGED <<closed, history, initiator, stage, beat, left, ended>>
        /\ \E place \in {"reading", "answering", "detaching"}, next \in {"read", "answer"} :
             reader' = [reader EXCEPT ![c] = place] /\ then' = [then EXCEPT ![c] = next]
    BY <1>14 DEF Detach, ReplyResult, Reply, GoOn
  <2>3. GoesOn
    BY <2>1, <2>2 DEF GoesOn, Outcomes
  <2>4. ControlTypeOK'
    BY <1>2, <1>4, <2>1, <2>2 DEF ControlTypeOK
  <2>5. StageInv'
    BY <2>1, <2>2 DEF StageInv, StageOf, Accepting, ControlTypeOK, Outcomes
  <2> QED
    BY <2>3, <2>4, <2>5 DEF Controlled
<1> QED
  BY <1>4, <1>7, <1>8, <1>9, <1>10, <1>11, <1>12, <1>13, <1>14 DEF Request

LEMMA ConnectionControl ==
  ASSUME ControlTypeOK, StageInv, NEW c \in Conns,
         Disconnect(c) \/ BreaksDown(c) \/ Connection(c)
  PROVE  Controlled
<1>1. CASE Disconnect(c)
  BY <1>1, CloseControl DEF Disconnect, ControlTypeOK
<1>2. CASE BreaksDown(c) \/ Drained(c)
  <2>1. UNCHANGED <<reader, then, pending, lines, sinks, history, runVars>>
    BY <1>2 DEF BreaksDown, Drained, connVars
  <2>2. StageInv' /\ GoesOn
    BY <2>1, IdleControl DEF runVars
  <2>3. /\ closed' \subseteq Conns
        /\ owed' \in [Conns -> Seq(Nat)] /\ ended' \in [Conns -> SUBSET Runs]
    <3>1. CASE Drained(c)
      BY <3>1 DEF Drained, connVars, pastVars, ControlTypeOK
    <3>2. CASE BreaksDown(c)
      <4>1. /\ closed' = closed \cup {c}
            /\ owed' = [owed EXCEPT ![c] = <<>>] /\ ended' = [ended EXCEPT ![c] = {}]
        BY <3>2 DEF BreaksDown, Unread
      <4>2. owed' \in [Conns -> Seq(Nat)]
        BY <4>1 DEF ControlTypeOK
      <4> QED
        BY <4>1, <4>2 DEF ControlTypeOK
    <3> QED
      BY <1>2, <3>1, <3>2
  <2>4. ControlTypeOK'
    BY <2>1, <2>3 DEF ControlTypeOK, runVars
  <2> QED
    BY <2>2, <2>4 DEF Controlled
<1>3. CASE Answered(c)
  <2>1. CASE then[c] = "read" /\ GoOn(c)
    <3>1. UNCHANGED <<pending, lines, closed, sinks, history, runVars, pastVars>>
      BY <1>3, <2>1, CloseControl DEF Answered, ControlTypeOK
    <3>2. /\ StageInv' /\ GoesOn
          /\ reader' \in [Conns -> {"reading", "answering", "detaching", "closing", "gone"}]
          /\ then' \in [Conns -> {"read", "create", "quit", "answer"}]
      BY <2>1, <3>1, IdleControl
    <3>3. ControlTypeOK'
      BY <3>1, <3>2 DEF ControlTypeOK, runVars, pastVars
    <3> QED
      BY <3>2, <3>3 DEF Controlled
  <2>2. CASE then[c] = "create" /\ GoOn(c)
    <3> DEFINE r == pending[c]
    <3>1. /\ stage' = [stage EXCEPT ![r] = "scheduled"]
          /\ pending' = [pending EXCEPT ![c] = None]
          /\ reader' = [reader EXCEPT ![c] = "reading"]
          /\ then' = [then EXCEPT ![c] = "read"]
          /\ UNCHANGED <<closed, sinks, history, state, initiator, beat, left, pastVars, lines>>
      BY <1>3, <2>2 DEF Answered, GoOn
    <3>2. r \in Runs /\ stage[r] = "accepting" /\ initiator[r] = c
      BY <2>2 DEF StageInv, Accepting
    <3> HIDE DEF r
    <3>3. ControlTypeOK'
      BY <3>1, <3>2 DEF ControlTypeOK, pastVars
    <3>4. GoesOn
      BY <3>1, <3>2 DEF GoesOn, ControlTypeOK
    <3>5. ASSUME NEW d \in Conns PROVE Accepting(d)'
      <4>1. CASE d = c
        BY <3>1, <4>1 DEF Accepting, ControlTypeOK
      <4>2. CASE d # c
        BY <3>1, <3>2, <4>2 DEF StageInv, Accepting, ControlTypeOK
      <4> QED
        BY <4>1, <4>2
    <3>6. ASSUME NEW t \in Runs PROVE StageOf(t)'
      BY <3>1, <3>2 DEF StageInv, StageOf, ControlTypeOK
    <3> QED
      BY <3>3, <3>4, <3>5, <3>6 DEF Controlled, StageInv
  <2>3. CASE then[c] = "quit" /\ Close(c)
    BY <1>3, <2>3, CloseControl DEF Answered, ControlTypeOK
  <2> QED
    BY <1>3, <2>1, <2>2, <2>3 DEF Answered
<1>4. CASE CancelLanded(c)
  <2>1. /\ reader[c] \in {"detaching", "closing"}
        /\ pending' = [pending EXCEPT ![c] = None]
        /\ UNCHANGED <<lines, closed, sinks, history, runVars, pastVars>>
    BY <1>4 DEF CancelLanded
  <2>2. \E place \in {"answering", "reading", "gone"}, next \in {"read", then[c]} :
          reader' = [reader EXCEPT ![c] = place] /\ then' = [then EXCEPT ![c] = next]
    BY <1>4 DEF CancelLanded, Reply, GoOn, ControlTypeOK
  <2>3. then[c] # "create" /\ then[c] \in {"read", "create", "quit", "answer"}
    BY <2>1 DEF StageInv, Accepting, ControlTypeOK
  <2>4. ControlTypeOK'
    BY <2>1, <2>2, <2>3 DEF ControlTypeOK, runVars, pastVars
  <2>5. GoesOn
    BY <2>1 DEF GoesOn, runVars
  <2>6. ASSUME NEW d \in Conns PROVE Accepting(d)'
    <3>1. CASE d = c
      BY <2>2, <2>3, <3>1 DEF Accepting, ControlTypeOK
    <3>2. CASE d # c
      BY <2>1, <2>2, <3>2 DEF StageInv, Accepting, ControlTypeOK, runVars
    <3> QED
      BY <3>1, <3>2
  <2>7. ASSUME NEW t \in Runs PROVE StageOf(t)'
    BY <2>1 DEF StageInv, StageOf, runVars
  <2> QED
    BY <2>4, <2>5, <2>6, <2>7 DEF Controlled, StageInv
<1> QED
  BY <1>1, <1>2, <1>3, <1>4 DEF Connection

LEMMA RunControl ==
  ASSUME ControlTypeOK, StageInv, NEW r \in Runs, Run(r) \/ HeartbeatStep(r) \/ Beat(r)
  PROVE  Controlled
<1>1. UNCHANGED <<connVars, initiator, owed>>
  BY DEF Run, HeartbeatStep, Begin, Speak, Tell, RecordTurn, Finish, BeginOutcome, Done,
         CancelDelivered, Unwound, SpeakBeat, BeatEnds, Beat, pastVars
<1>2. stage[r] # "accepting" \/ UNCHANGED stage
  BY DEF Run, HeartbeatStep, Begin, Speak, Tell, RecordTurn, Finish, BeginOutcome, Done,
         CancelDelivered, Unwound, SpeakBeat, BeatEnds, Beat
<1>3. \A t \in Runs \ {r} : stage'[t] = stage[t] /\ state'[t] = state[t] /\ beat'[t] = beat[t]
  BY DEF Run, HeartbeatStep, Begin, Speak, Tell, RecordTurn, Finish, BeginOutcome, Done,
         CancelDelivered, Unwound, SpeakBeat, BeatEnds, Beat, StopHeartbeat, ControlTypeOK
<1>4. /\ stage' \in [Runs -> {"none", "accepting", "scheduled", "user_message", "answered",
                              "stopping", "outcome", "unwind", "done"}]
      /\ state' \in [Runs -> {"none", "running", "completed", "failed", "cancelled"}]
      /\ beat' \in [Runs -> {"off", "idle", "telling", "cancelled"}]
      /\ history \subseteq history' /\ history' \subseteq Runs
  <2> USE DEF Run, HeartbeatStep, Begin, Speak, Tell, RecordTurn, Finish, BeginOutcome, Done,
              CancelDelivered, Unwound, SpeakBeat, BeatEnds, Beat
  <2>1. stage' \in [Runs -> {"none", "accepting", "scheduled", "user_message", "answered",
                            "stopping", "outcome", "unwind", "done"}]
    <3>1. UNCHANGED stage \/ \E x \in {"user_message", "answered", "stopping", "outcome", "unwind", "done"} :
             stage' = [stage EXCEPT ![r] = x]
      OBVIOUS
    <3> HIDE DEF Run, HeartbeatStep
    <3> QED
      BY <3>1 DEF ControlTypeOK
  <2>2. state' \in [Runs -> {"none", "running", "completed", "failed", "cancelled"}]
    BY DEF ControlTypeOK
  <2>3. beat' \in [Runs -> {"off", "idle", "telling", "cancelled"}]
    <3>1. UNCHANGED beat \/ \E x \in {"off", "idle", "telling", "cancelled"} :
             beat' = [beat EXCEPT ![r] = x]
      BY DEF StopHeartbeat
    <3> QED
      BY <3>1 DEF ControlTypeOK
  <2>4. history \subseteq history' /\ history' \subseteq Runs
    BY DEF ControlTypeOK
  <2> QED
    BY <2>1, <2>2, <2>3, <2>4
<1>5. StageOf(r)'
  <2>1. CASE UNCHANGED <<stage, state, initiator, history, beat>>
    BY <2>1 DEF StageInv, StageOf
  <2>2. CASE Begin(r)
    BY <2>2 DEF StageInv, StageOf, Begin, ControlTypeOK
  <2>3. CASE RecordTurn(r)
    BY <2>3 DEF StageInv, StageOf, RecordTurn, ControlTypeOK, connVars
  <2>4. CASE Finish(r)
    BY <2>4 DEF StageInv, StageOf, Finish, StopHeartbeat, ControlTypeOK, Outcomes
  <2>5. CASE BeginOutcome(r)
    BY <2>5 DEF StageInv, StageOf, BeginOutcome, ControlTypeOK, Outcomes
  <2>6. CASE Done(r)
    BY <2>6 DEF StageInv, StageOf, Done, ControlTypeOK, Outcomes
  <2>7. CASE CancelDelivered(r)
    BY <2>7 DEF StageInv, StageOf, CancelDelivered, StopHeartbeat, ControlTypeOK, Outcomes
  <2>8. CASE Unwound(r)
    BY <2>8 DEF StageInv, StageOf, Unwound, ControlTypeOK, Outcomes
  <2>9. CASE BeatEnds(r)
    BY <2>9 DEF StageInv, StageOf, BeatEnds, ControlTypeOK
  <2>10. CASE Beat(r)
    BY <2>10 DEF StageInv, StageOf, Beat, ControlTypeOK
  <2>11. CASE Speak(r)
    BY <2>1, <2>11 DEF Speak, Tell
  <2>12. CASE SpeakBeat(r)
    BY <2>1, <2>12 DEF SpeakBeat, Tell
  <2> QED
    BY <2>2, <2>3, <2>4, <2>5, <2>6, <2>7, <2>8, <2>9, <2>10, <2>11, <2>12 DEF Run, HeartbeatStep
<1>6. \A t \in Runs \ {r} : StageOf(t)'
  BY <1>1, <1>3, <1>4 DEF StageInv, StageOf
<1>7. \A c \in Conns : Accepting(c)'
  BY <1>1, <1>2, <1>3 DEF StageInv, Accepting, connVars
<1>8. GoesOn
  <2>1. /\ state[r] # "none" => state'[r] # "none"
        /\ stage[r] \in {"outcome", "done"} /\ state[r] \in Outcomes
             => stage'[r] \in {"outcome", "done"} /\ state'[r] = state[r]
    BY DEF Run, HeartbeatStep, Begin, Speak, Tell, RecordTurn, Finish, BeginOutcome, Done,
           CancelDelivered, Unwound, SpeakBeat, BeatEnds, Beat, ControlTypeOK, Outcomes
  <2> QED
    BY <1>3, <1>4, <2>1 DEF GoesOn
<1>9. sinks' \subseteq Conns /\ ended' \in [Conns -> SUBSET Runs]
  <2>1. CASE Begin(r)
    <3>1. initiator[r] \in Conns
      BY <2>1 DEF Begin, StageInv, StageOf
    <3> QED
      BY <2>1, <3>1, SubscribeControl DEF Begin
  <2>2. CASE ~Begin(r)
    <3>1. UNCHANGED <<sinks, ended>>
      BY <2>2 DEF Run, HeartbeatStep, Speak, Tell, RecordTurn, Finish, BeginOutcome, Done,
                  CancelDelivered, Unwound, SpeakBeat, BeatEnds, Beat, pastVars
    <3> QED
      BY <3>1 DEF ControlTypeOK
  <2> QED
    BY <2>1, <2>2
<1>10. left' \in [{"run", "beat"} \X Runs -> SUBSET Conns]
  <2>1. \/ UNCHANGED left
        \/ \E t \in {Task(r), Pulse(r)} : \E audience \in SUBSET Conns :
              left' = [left EXCEPT ![t] = audience]
    <3>1. Task(r) \in DOMAIN left /\ Pulse(r) \in DOMAIN left
      BY SpeakersDiffer DEF ControlTypeOK
    <3>2. left[Task(r)] \subseteq Conns /\ left[Pulse(r)] \subseteq Conns /\ sinks \subseteq Conns
      BY <3>1 DEF ControlTypeOK
    <3>3. CASE Speak(r) \/ SpeakBeat(r)
      BY <3>2, <3>3 DEF Speak, SpeakBeat, Tell
    <3>4. CASE Begin(r) \/ BeginOutcome(r) \/ Beat(r)
      BY <3>2, <3>4 DEF Begin, BeginOutcome, Beat, Broadcast
    <3>5. CASE CancelDelivered(r) \/ BeatEnds(r)
      BY <3>5 DEF CancelDelivered, BeatEnds, Silence
    <3>6. CASE RecordTurn(r) \/ Finish(r) \/ Done(r) \/ Unwound(r)
      BY <3>6 DEF RecordTurn, Finish, Done, Unwound
    <3> QED
      BY <3>3, <3>4, <3>5, <3>6 DEF Run, HeartbeatStep
  <2> QED
    BY <2>1 DEF ControlTypeOK
<1>11. ControlTypeOK'
  BY <1>1, <1>4, <1>9, <1>10 DEF ControlTypeOK, connVars
<1> QED
  BY <1>5, <1>6, <1>7, <1>8, <1>11 DEF Controlled, StageInv

LEMMA NextControl ==
  ASSUME ControlTypeOK, StageInv, [Next]_vars
  PROVE  Controlled
<1>1. CASE UNCHANGED vars
  <2>1. ControlTypeOK'
    BY <1>1 DEF vars, connVars, runVars, pastVars, ControlTypeOK
  <2>2. StageInv' /\ GoesOn
    BY <1>1, IdleControl DEF vars, connVars, runVars
  <2> QED
    BY <2>1, <2>2 DEF Controlled
<1> QED
  BY <1>1, ReadControl, ConnectionControl, RunControl DEF Next, Client

-----------------------------------------------------------------------------
(* The invariants of the messages *)

LEMMA MessageTypes ==
  ASSUME DeliveryTypeOK, NEW c \in Conns, NEW m \in Said(c)
  PROVE  m \in Messages
<1>1. (\E i \in DOMAIN wire[c] : m = wire[c][i]) \/ (\E i \in DOMAIN lock[c] : m = lock[c][i][2])
  BY DEF Said
<1>2. /\ \A i \in DOMAIN wire[c] : wire[c][i] \in Messages
      /\ \A i \in DOMAIN lock[c] : lock[c][i] \in Speakers \X Messages
  BY SpeechType DEF Waiting
<1> QED
  BY <1>1, <1>2

(* A notice is known by its kind and its run. *)
LEMMA NoticeForm ==
  ASSUME NEW m \in Messages, m.kind \in NoticeKinds
  PROVE  m.run \in Runs /\ m = Notice(m.kind, m.run)
<1>1. m \in [kind : NoticeKinds, run : Runs]
  BY DEF Messages, NoticeKinds
<1> QED
  BY <1>1 DEF Notice

LEMMA OutcomesAreNotices == Outcomes \subseteq NoticeKinds
  BY DEF Outcomes, NoticeKinds

(* What is said anew fits everything that was said before. *)
LEMMA FreshFits ==
  ASSUME DeliveryTypeOK, StageInv, SaidInv, NEW c \in Conns, NEW m \in Messages, Fresh(c, m),
         NEW n \in Said(c)
  PROVE  Fits(n, m)
<1>1. /\ n \in Messages
      /\ n.kind \in NoticeKinds => state[n.run] # "none" /\ n.run \in Runs /\ n = Notice(n.kind, n.run)
      /\ n.kind \in Outcomes => stage[n.run] \in {"outcome", "done"} /\ state[n.run] = n.kind
  BY MessageTypes, NoticeForm DEF SaidInv
<1>2. CASE m.kind \notin NoticeKinds \cup {"accepted", "attached"}
  BY <1>2 DEF Fits
<1>3. CASE m.kind = "accepted" /\ state[m.run] = "none"
  BY <1>1, <1>3 DEF Fits, NoticeKinds
<1>4. CASE m.kind = "attached" /\ m.history = history /\ m.active = {r \in Runs : state[r] = "running"}
  <2>1. n.kind \in Outcomes => n.run \notin m.active
    BY <1>1, <1>4 DEF Outcomes
  <2>2. n.kind \in Outcomes => (n.kind = "completed" => n.run \in m.history)
    BY <1>1, <1>4, OutcomesAreNotices DEF StageInv, StageOf
  <2> QED
    BY <1>4, <2>1, <2>2 DEF Fits, NoticeKinds
<1>5. ASSUME NEW r \in Runs,
             \/ m = Notice("user_message", r) /\ stage[r] = "user_message"
             \/ m = Notice("heartbeat", r) /\ beat[r] = "telling"
      PROVE  Fits(n, m)
  <2>1. m.kind \in {"user_message", "heartbeat"} /\ m.run = r
    BY <1>5 DEF Notice
  <2>2. stage[r] \in {"user_message", "answered"}
    BY <1>5 DEF StageInv, StageOf
  <2>3. n.kind \in Outcomes => n.run # r
    BY <1>1, <2>2
  <2> QED
    BY <2>1, <2>3 DEF Fits
<1>6. ASSUME NEW r \in Runs, m = Notice(state[r], r), stage[r] = "outcome", c \in left[Task(r)]
      PROVE  Fits(n, m)
  <2>1. m.kind = state[r] /\ m.run = r /\ m.kind \in Outcomes
    BY <1>6 DEF Notice, StageInv, StageOf
  <2>2. Notice(state[r], r) \notin Said(c)
    BY <1>6 DEF SaidInv
  <2>3. n.kind \in Outcomes => n.run # r
    BY <1>1, <2>2, OutcomesAreNotices
  <2> QED
    BY <2>1, <2>3 DEF Fits, Outcomes
<1> QED
  BY <1>2, <1>3, <1>4, <1>5, <1>6 DEF Fresh

LEMMA OrderStep ==
  ASSUME DeliveryTypeOK, StageInv, SaidInv, OrderInv, StepSpeech
  PROVE  OrderInv'
<1>1. ASSUME NEW c \in Conns, Kept(c) PROVE InOrder(wire'[c], lock'[c])
  BY <1>1 DEF Kept, OrderInv
<1>2. ASSUME NEW c \in Conns, NEW s \in Speakers, NEW m \in Messages, Speech(c, s, m)
      PROVE  InOrder(wire'[c], lock'[c])
  <2>1. \A n \in Said(c) : Fits(n, m)
    BY <1>2, FreshFits DEF Speech
  <2> QED
    BY <1>2, <2>1 DEF Speech, Spoken, OrderInv
<1>3. \A c \in Conns : InOrder(wire'[c], lock'[c])
  BY <1>1, <1>2 DEF StepSpeech, Quiet, Speech
<1> QED
  BY <1>3 DEF OrderInv, InOrder

(* The types of the queues, and that nobody waits twice. *)
LEMMA TypeStep ==
  ASSUME DeliveryTypeOK, StepSpeech, ControlTypeOK'
  PROVE  DeliveryTypeOK'
<1>1. \A c \in Conns : lock'[c] \in Seq(Waiting) /\ wire'[c] \in Seq(Messages)
  BY DEF StepSpeech, Quiet, Speech, Kept, Spoken
<1>2. lock' \in [Conns -> Seq(Speakers \X Messages)] /\ wire' \in [Conns -> Seq(Messages)]
  BY <1>1 DEF StepSpeech, Waiting
<1>3. \A c \in Conns : \A i, j \in DOMAIN lock'[c] : lock'[c][i][1] = lock'[c][j][1] => i = j
  BY DEF StepSpeech, Quiet, Speech, Kept, Spoken
<1>4. ASSUME NEW c \in Conns, NEW d \in Conns, c # d, NEW i \in DOMAIN lock'[c], NEW j \in DOMAIN lock'[d],
             lock'[c][i][1] = lock'[d][j][1]
      PROVE  FALSE
  <2>1. ASSUME NEW k \in DOMAIN lock[c], NEW l \in DOMAIN lock[d] PROVE lock[c][k][1] # lock[d][l][1]
    BY <1>4 DEF DeliveryTypeOK
  <2>2. CASE Kept(c) /\ Kept(d)
    BY <1>4, <2>1, <2>2 DEF Kept
  <2>3. ASSUME NEW e \in Conns, NEW s \in Speakers, NEW m \in Messages, Speech(e, s, m)
        PROVE  FALSE
    <3>1. /\ \A k \in DOMAIN lock[c] : lock[c][k][1] # s
          /\ \A k \in DOMAIN lock[d] : lock[d][k][1] # s
      BY <2>3 DEF Speech, Sending
    <3>2. CASE e = c
      BY <1>4, <2>1, <2>3, <3>1, <3>2 DEF Speech, Spoken, Kept
    <3>3. CASE e = d
      BY <1>4, <2>1, <2>3, <3>1, <3>3 DEF Speech, Spoken, Kept
    <3>4. CASE e # c /\ e # d
      BY <2>2, <2>3, <3>4 DEF Speech
    <3> QED
      BY <3>2, <3>3, <3>4
  <2> QED
    BY <2>2, <2>3 DEF StepSpeech, Quiet
<1>5. \A c, d \in Conns : \A i \in DOMAIN lock'[c], j \in DOMAIN lock'[d] :
         lock'[c][i][1] = lock'[d][j][1] => c = d /\ i = j
  BY <1>3, <1>4
<1> QED
  BY <1>2, <1>5 DEF DeliveryTypeOK, ControlTypeOK

(* What a line may do to the loop that reads it, and to a run. *)
LEMMA ReadPlaces ==
  ASSUME NEW c, NEW line, Read(c, line)
  PROVE  /\ \E place : reader' = [reader EXCEPT ![c] = place]
         /\ left' = left
         /\ \/ stage' = stage
            \/ \E r \in Runs : \E x \in {"accepting", "scheduled"} : stage' = [stage EXCEPT ![r] = x]
<1> DEFINE Moves  == /\ \E place : reader' = [reader EXCEPT ![c] = place]
                     /\ left' = left
                     /\ \/ stage' = stage
                        \/ \E r \in Runs : \E x \in {"accepting", "scheduled"} : stage' = [stage EXCEPT ![r] = x]
<1>1. CASE Close(c)
  BY <1>1 DEF Close
<1>2. CASE Reject(c, line)
  BY <1>2 DEF Reject, Reply, runVars
<1>3. ASSUME NEW m, NEW next, ReplyResult(c, line, m, next) PROVE \E place : reader' = [reader EXCEPT ![c] = place]
  BY <1>3 DEF ReplyResult, Reply, GoOn
<1>4. CASE Dispatch(c, line) \/ Attach(c, line)
  BY <1>3, <1>4 DEF Dispatch, Attach, runVars
<1>5. CASE Shutdown(c, line) \/ Refuse(c, line) \/ CreateFails(c, line)
  BY <1>5 DEF Shutdown, Refuse, CreateFails, Reply, runVars
<1>6. CASE Detach(c, line)
  BY <1>3, <1>6 DEF Detach
<1>7. ASSUME NEW r \in Runs, Accept(c, line, r) PROVE Moves
  <2>1. CASE line.id = "valid"
    BY <1>7, <2>1 DEF Accept, Reply
  <2>2. CASE line.id # "valid"
    BY <1>7, <2>2 DEF Accept, GoOn
  <2> QED
    BY <2>1, <2>2
<1> QED
  BY <1>1, <1>2, <1>4, <1>5, <1>6, <1>7 DEF Read, Request

(* The loop goes on when its answer is out. *)
LEMMA ReaderLeaves ==
  ASSUME DeliveryTypeOK, [Next]_vars, NEW c \in Conns,
         reader[c] = "answering", reader'[c] # "answering"
  PROVE  ~Sending(Reader(c))
<1>1. CASE UNCHANGED vars
  BY <1>1 DEF vars, connVars
<1>2. ASSUME NEW d \in Conns, Client(d) \/ Connection(d) PROVE ~Sending(Reader(c))
  <2>1. CASE d = c
    <3>1. CASE Answered(c)
      BY <3>1 DEF Answered
    <3>2. CASE CancelLanded(c) \/ Disconnect(c)
      BY <3>2 DEF CancelLanded, Disconnect
    <3>3. CASE BreaksDown(c) \/ Drained(c)
      BY <3>3 DEF BreaksDown, Drained, connVars
    <3>4. ASSUME NEW line, Read(c, line) PROVE FALSE
      BY <3>4 DEF Read
    <3> QED
      BY <1>2, <2>1, <3>1, <3>2, <3>3, <3>4 DEF Client, Connection
  <2>2. CASE d # c
    <3>1. CASE Answered(d) \/ CancelLanded(d) \/ Disconnect(d)
      BY <2>2, <3>1 DEF Answered, CancelLanded, Disconnect, Close, GoOn, Reply, DeliveryTypeOK
    <3>2. CASE BreaksDown(d) \/ Drained(d)
      BY <3>2 DEF BreaksDown, Drained, connVars
    <3>3. ASSUME NEW line, Read(d, line) PROVE FALSE
      BY <2>2, <3>3, ReadPlaces DEF DeliveryTypeOK
    <3> QED
      BY <1>2, <3>1, <3>2, <3>3 DEF Client, Connection
  <2> QED
    BY <2>1, <2>2
<1>3. ASSUME NEW r \in Runs, Run(r) \/ HeartbeatStep(r) \/ Beat(r) PROVE FALSE
  BY <1>3 DEF Run, HeartbeatStep, Begin, Speak, Tell, RecordTurn, Finish, BeginOutcome, Done,
              CancelDelivered, Unwound, SpeakBeat, BeatEnds, Beat, connVars
<1> QED
  BY <1>1, <1>2, <1>3 DEF Next

LEMMA ReaderStep ==
  ASSUME DeliveryTypeOK, ReaderInv, StepSpeech, [Next]_vars
  PROVE  ReaderInv'
<1> SUFFICES ASSUME NEW c \in Conns, NEW d \in Conns, NEW i \in DOMAIN lock'[d],
                    lock'[d][i][1] = Reader(c)
             PROVE  reader'[c] = "answering"
  BY DEF ReaderInv, Reader
<1>1. CASE \E j \in DOMAIN lock[d] : lock'[d][i] = lock[d][j]
  <2>1. Sending(Reader(c)) /\ reader[c] = "answering"
    BY <1>1 DEF ReaderInv, Sending
  <2> QED
    BY <2>1, ReaderLeaves
<1>2. CASE ~\E j \in DOMAIN lock[d] : lock'[d][i] = lock[d][j]
  <2>1. ~Kept(d)
    BY <1>2 DEF Kept
  <2>2. PICK s \in Speakers, m \in Messages : Speech(d, s, m)
    BY <2>1 DEF StepSpeech, Quiet, Speech
  <2>3. s = Reader(c)
    BY <1>2, <2>2 DEF Speech, Spoken
  <2> QED
    BY <2>2, <2>3 DEF Speech
<1> QED
  BY <1>1, <1>2

LEMMA WhoStep ==
  ASSUME DeliveryTypeOK, WhoInv, StepSpeech
  PROVE  WhoInv'
<1> SUFFICES ASSUME NEW c \in Conns, NEW i \in DOMAIN lock'[c], IsAnswer(lock'[c][i][2])
             PROVE  lock'[c][i][1] = Reader(c)
  BY DEF WhoInv, Reader
<1>1. CASE \E j \in DOMAIN lock[c] : lock'[c][i] = lock[c][j]
  BY <1>1 DEF WhoInv
<1>2. CASE ~\E j \in DOMAIN lock[c] : lock'[c][i] = lock[c][j]
  <2>1. PICK s \in Speakers, m \in Messages : Speech(c, s, m)
    BY <1>2 DEF StepSpeech, Quiet, Speech, Kept
  <2> QED
    BY <1>2, <2>1 DEF Speech, Spoken
<1> QED
  BY <1>1, <1>2

(* A connection takes no run to its end, and speaks for no task. *)
LEMMA ConnectionIdle ==
  ASSUME ControlTypeOK, NEW c \in Conns, Client(c) \/ Connection(c)
  PROVE  /\ left' = left
         /\ \A r \in Runs : stage'[r] # stage[r] => stage'[r] \in {"accepting", "scheduled"}
<1>1. ASSUME NEW line, Read(c, line)
      PROVE  /\ left' = left
             /\ \A r \in Runs : stage'[r] # stage[r] => stage'[r] \in {"accepting", "scheduled"}
  BY <1>1, ReadPlaces DEF ControlTypeOK
<1>2. CASE Disconnect(c) \/ BreaksDown(c) \/ Connection(c)
  BY <1>2 DEF Disconnect, BreaksDown, Connection, Drained, Answered, CancelLanded, Close, runVars,
              ControlTypeOK
<1> QED
  BY <1>1, <1>2 DEF Client

(* Whom the task of a run that is over has still to tell. *)
LEMMA LeftStep ==
  ASSUME ControlTypeOK, StageInv, [Next]_vars, NEW r \in Runs, NEW c \in Conns,
         stage'[r] = "outcome"
  PROVE  \/ BeginOutcome(r)
         \/ stage[r] = "outcome" /\ (c \in left'[Task(r)] => c \in left[Task(r)])
<1>1. CASE UNCHANGED vars
  BY <1>1 DEF vars, runVars
<1>2. ASSUME NEW d \in Conns, Client(d) \/ Connection(d)
      PROVE  stage[r] = "outcome" /\ left' = left
  BY <1>2, ConnectionIdle
<1>3. ASSUME NEW t \in Runs, Run(t) \/ HeartbeatStep(t) \/ Beat(t)
      PROVE  \/ BeginOutcome(r)
             \/ stage[r] = "outcome" /\ (c \in left'[Task(r)] => c \in left[Task(r)])
  <2>1. /\ Task(r) \in DOMAIN left /\ Task(t) \in DOMAIN left /\ Pulse(t) \in DOMAIN left
        /\ Task(r) # Pulse(t) /\ (t # r => Task(r) # Task(t))
    BY SpeakersDiffer DEF ControlTypeOK
  <2>2. CASE Begin(t)
    BY <2>1, <2>2 DEF Begin, Broadcast, ControlTypeOK
  <2>3. CASE Speak(t)
    BY <2>1, <2>3 DEF Speak, Tell, ControlTypeOK
  <2>4. CASE SpeakBeat(t)
    BY <2>1, <2>4 DEF SpeakBeat, Tell, ControlTypeOK
  <2>5. CASE BeginOutcome(t)
    BY <2>1, <2>5 DEF BeginOutcome, Broadcast, ControlTypeOK
  <2>6. CASE CancelDelivered(t)
    BY <2>1, <2>6 DEF CancelDelivered, Silence, ControlTypeOK
  <2>7. CASE BeatEnds(t)
    BY <2>1, <2>7 DEF BeatEnds, Silence, ControlTypeOK
  <2>8. CASE Beat(t)
    BY <2>1, <2>8 DEF Beat, Broadcast, ControlTypeOK
  <2>9. CASE RecordTurn(t) \/ Finish(t) \/ Done(t) \/ Unwound(t)
    BY <2>9 DEF RecordTurn, Finish, Done, Unwound, ControlTypeOK
  <2> QED
    BY <1>3, <2>2, <2>3, <2>4, <2>5, <2>6, <2>7, <2>8, <2>9 DEF Run, HeartbeatStep
<1> QED
  BY <1>1, <1>2, <1>3 DEF Next

LEMMA SaidStep ==
  ASSUME DeliveryTypeOK, StageInv, SaidInv, StepSpeech, Controlled, [Next]_vars
  PROVE  SaidInv'
<1>1. ControlTypeOK
  BY ControlType
<1>2. ASSUME NEW c \in Conns, NEW m \in Said(c)', m \notin Said(c)
      PROVE  m \in Messages /\ Fresh(c, m)
  BY <1>2 DEF StepSpeech, Quiet, Speech, Spoken, Kept
<1>3. ASSUME NEW c \in Conns, NEW m \in Said(c)'
      PROVE  /\ m.kind \in NoticeKinds => state'[m.run] # "none"
             /\ m.kind \in Outcomes => stage'[m.run] \in {"outcome", "done"} /\ state'[m.run] = m.kind
  <2>1. CASE m \in Said(c)
    <3>1. m.kind \in NoticeKinds => m.run \in Runs
      BY <2>1, MessageTypes, NoticeForm
    <3> QED
      BY <2>1, <3>1, OutcomesAreNotices DEF SaidInv, Controlled, GoesOn
  <2>2. CASE m \notin Said(c)
    <3>1. Fresh(c, m)
      BY <1>2, <2>2
    <3>2. CASE m.kind \notin NoticeKinds
      BY <3>2, OutcomesAreNotices
    <3>3. CASE m.kind \in NoticeKinds
      <4>1. PICK r \in Runs :
               \/ m = Notice("user_message", r) /\ stage[r] = "user_message"
               \/ m = Notice("heartbeat", r) /\ beat[r] = "telling"
               \/ m = Notice(state[r], r) /\ stage[r] = "outcome"
        BY <3>1, <3>3 DEF Fresh, NoticeKinds
      <4>2. stage[r] # "none" /\ state[r] # "none"
        BY <4>1 DEF StageInv, StageOf
      <4>3. m.run = r /\ state'[r] # "none"
        BY <4>1, <4>2 DEF Notice, Controlled, GoesOn
      <4>4. m.kind \in Outcomes => stage[r] = "outcome" /\ m.kind = state[r]
        BY <4>1 DEF Notice, Outcomes
      <4> QED
        BY <4>3, <4>4 DEF Controlled, GoesOn
    <3> QED
      BY <3>2, <3>3
  <2> QED
    BY <2>1, <2>2
<1>4. ASSUME NEW c \in Conns, NEW r \in Runs, stage'[r] = "outcome", c \in left'[Task(r)],
             Notice(state'[r], r) \in Said(c)'
      PROVE  FALSE
  <2> DEFINE m == Notice(state'[r], r)
  <2>1. state'[r] \in Outcomes /\ m.kind = state'[r] /\ m.run = r
    BY <1>4 DEF Controlled, StageInv, StageOf, Notice
  <2>2. CASE BeginOutcome(r)
    <3>1. stage[r] = "stopping"
      BY <2>2 DEF BeginOutcome
    <3>2. m \notin Said(c)
      BY <2>1, <3>1 DEF SaidInv
    <3>3. Fresh(c, m)
      BY <1>2, <1>4, <3>2
    <3>4. m.kind \notin {"user_message", "heartbeat", "accepted", "attached"} /\ m.kind \in NoticeKinds
      BY <2>1, OutcomesAreNotices DEF Outcomes
    <3> QED
      BY <2>1, <3>1, <3>3, <3>4 DEF Fresh, Notice
  <2>3. CASE stage[r] = "outcome" /\ c \in left[Task(r)]
    <3>1. state'[r] = state[r]
      BY <2>3 DEF Controlled, GoesOn, StageInv, StageOf
    <3>2. m \notin Said(c)
      BY <2>3, <3>1 DEF SaidInv
    <3>3. Fresh(c, m)
      BY <1>2, <1>4, <3>2
    <3>4. m.kind \notin {"user_message", "heartbeat", "accepted", "attached"} /\ m.kind \in NoticeKinds
      BY <2>1, OutcomesAreNotices DEF Outcomes
    <3> QED
      BY <1>4, <2>1, <3>3, <3>4 DEF Fresh, Notice
  <2> QED
    BY <1>1, <1>4, <2>2, <2>3, LeftStep
<1>5. \A c \in Conns : \A m \in Said(c)' :
        /\ m.kind \in NoticeKinds => state'[m.run] # "none"
        /\ m.kind \in Outcomes => stage'[m.run] \in {"outcome", "done"} /\ state'[m.run] = m.kind
  BY <1>3
<1>6. \A c \in Conns, r \in Runs : stage'[r] = "outcome" /\ c \in left'[Task(r)] =>
        Notice(state'[r], r) \notin Said(c)'
  BY <1>4
<1> QED
  BY <1>5, <1>6 DEF SaidInv, Task, Notice

-----------------------------------------------------------------------------
(* The end of a run on its way *)

(* Who is in the session after a step was there before, or subscribes and  *)
(* finds every run that is over.                                           *)
LEMMA AudienceStep ==
  ASSUME ControlTypeOK, StageInv, [Next]_vars
  PROVE  /\ closed \subseteq closed'
         /\ \A c \in sinks' \ closed', r \in Runs :
              \/ c \in sinks /\ (r \in ended[c] => r \in ended'[c])
              \/ state[r] \in Outcomes => r \in ended'[c]
<1> DEFINE Audience == \A c \in sinks' \ closed', r \in Runs :
                          \/ c \in sinks /\ (r \in ended[c] => r \in ended'[c])
                          \/ state[r] \in Outcomes => r \in ended'[c]
<1>1. ASSUME NEW c \in Conns, Subscribe(c) PROVE Audience
  <2>1. /\ sinks' = sinks \cup {c}
        /\ ended' = [ended EXCEPT ![c] = IF c \in sinks THEN ended[c] ELSE Ended]
    BY <1>1 DEF Subscribe
  <2>2. \A r \in Runs : state[r] \in Outcomes => r \in Ended
    BY DEF Ended, Outcomes
  <2> QED
    BY <2>1, <2>2 DEF ControlTypeOK
<1>2. ASSUME sinks' \subseteq sinks, ended' = ended PROVE Audience
  BY <1>2
<1>3. ASSUME NEW c \in Conns, closed' = closed \cup {c}, sinks' \subseteq sinks,
             ended' = [ended EXCEPT ![c] = {}]
      PROVE  Audience
  BY <1>3 DEF ControlTypeOK
<1>4. ASSUME NEW c \in Conns, Client(c) \/ Connection(c) PROVE closed \subseteq closed' /\ Audience
  <2>1. CASE Close(c)
    <3>1. closed' = closed \cup {c} /\ sinks' \subseteq sinks /\ ended' = [ended EXCEPT ![c] = {}]
      BY <2>1 DEF Close, Leave, Unread
    <3> QED
      BY <1>3, <3>1
  <2>2. CASE BreaksDown(c)
    <3>1. closed' = closed \cup {c} /\ sinks' \subseteq sinks /\ ended' = [ended EXCEPT ![c] = {}]
      BY <2>2 DEF BreaksDown, Unread
    <3> QED
      BY <1>3, <3>1
  <2>3. CASE Drained(c) \/ CancelLanded(c)
    BY <1>2, <2>3 DEF Drained, CancelLanded, connVars, pastVars
  <2>4. CASE Answered(c) /\ ~Close(c)
    BY <1>2, <2>4 DEF Answered, pastVars
  <2>5. ASSUME NEW line, Reject(c, line) \/ Dispatch(c, line) \/ Shutdown(c, line)
        PROVE  closed \subseteq closed' /\ Audience
    BY <1>2, <2>5 DEF Reject, Dispatch, Shutdown
  <2>6. ASSUME NEW line, Detach(c, line) PROVE closed \subseteq closed' /\ Audience
    BY <1>2, <2>6 DEF Detach, Leave
  <2>7. ASSUME NEW line, Attach(c, line) \/ Refuse(c, line) \/ CreateFails(c, line)
                           \/ \E r \in Runs : Accept(c, line, r)
        PROVE  closed \subseteq closed' /\ Audience
    BY <1>1, <2>7 DEF Attach, Refuse, CreateFails, Accept
  <2>8. ASSUME NEW line, Read(c, line) PROVE closed \subseteq closed' /\ Audience
    BY <2>1, <2>5, <2>6, <2>7, <2>8 DEF Read, Request
  <2>9. CASE Disconnect(c)
    BY <2>1, <2>9 DEF Disconnect
  <2> QED
    BY <1>4, <2>1, <2>2, <2>3, <2>4, <2>8, <2>9 DEF Client, Connection
<1>5. ASSUME NEW r \in Runs, Run(r) \/ HeartbeatStep(r) \/ Beat(r)
      PROVE  closed \subseteq closed' /\ Audience
  <2>1. closed' = closed
    BY <1>5 DEF Run, HeartbeatStep, Begin, Speak, Tell, RecordTurn, Finish, BeginOutcome, Done,
                CancelDelivered, Unwound, SpeakBeat, BeatEnds, Beat, connVars
  <2>2. CASE Begin(r)
    <3>1. initiator[r] \in Conns
      BY <2>2 DEF Begin, StageInv, StageOf
    <3> QED
      BY <1>1, <2>1, <2>2, <3>1 DEF Begin
  <2>3. CASE ~Begin(r)
    <3>1. UNCHANGED <<sinks, ended>>
      BY <1>5, <2>3 DEF Run, HeartbeatStep, Speak, Tell, RecordTurn, Finish, BeginOutcome, Done,
                        CancelDelivered, Unwound, SpeakBeat, BeatEnds, Beat, pastVars
    <3> QED
      BY <1>2, <2>1, <3>1
  <2> QED
    BY <2>2, <2>3
<1>6. CASE UNCHANGED vars
  BY <1>2, <1>6 DEF vars, connVars, pastVars
<1> QED
  BY <1>4, <1>5, <1>6 DEF Next

(* How a run comes to its end. *)
LEMMA OverStep ==
  ASSUME ControlTypeOK, StageInv, [Next]_vars, NEW r \in Runs, state'[r] \in Outcomes
  PROVE  /\ stage'[r] = "outcome" => stage[r] = "outcome" \/ BeginOutcome(r)
         /\ stage'[r] = "done" => stage[r] = "done" \/ Done(r)
<1>1. ASSUME NEW c \in Conns, Client(c) \/ Connection(c)
      PROVE  stage'[r] = stage[r] \/ stage'[r] \in {"accepting", "scheduled"}
  BY <1>1, ConnectionIdle
<1>2. ASSUME NEW t \in Runs, Run(t) \/ HeartbeatStep(t) \/ Beat(t), stage'[r] # stage[r]
      PROVE  t = r
  BY <1>2 DEF Run, HeartbeatStep, Begin, Speak, Tell, RecordTurn, Finish, BeginOutcome, Done,
              CancelDelivered, Unwound, SpeakBeat, BeatEnds, Beat, ControlTypeOK
<1>3. ASSUME Run(r) \/ HeartbeatStep(r) \/ Beat(r), stage'[r] # stage[r], stage'[r] \in {"outcome", "done"}
      PROVE  (BeginOutcome(r) /\ stage'[r] = "outcome") \/ (Done(r) /\ stage'[r] = "done")
  <2>1. CASE Unwound(r)
    BY <2>1 DEF Unwound, Outcomes
  <2>2. CASE BeginOutcome(r)
    BY <2>2 DEF BeginOutcome, ControlTypeOK
  <2>3. CASE Done(r)
    BY <2>3 DEF Done, ControlTypeOK
  <2>4. CASE Begin(r) \/ Speak(r) \/ RecordTurn(r) \/ Finish(r) \/ CancelDelivered(r)
               \/ HeartbeatStep(r) \/ Beat(r)
    BY <1>3, <2>4 DEF HeartbeatStep, Begin, Speak, Tell, RecordTurn, Finish, CancelDelivered,
                      SpeakBeat, BeatEnds, Beat, ControlTypeOK
  <2> QED
    BY <1>3, <2>1, <2>2, <2>3, <2>4 DEF Run
<1>4. CASE UNCHANGED vars
  BY <1>4 DEF vars, runVars
<1> QED
  BY <1>1, <1>2, <1>3, <1>4 DEF Next

(* The task goes on to the next endpoint when it has sent to this one. *)
LEMMA ToldStep ==
  ASSUME DeliveryTypeOK, StageInv, [Next]_vars, NEW r \in Runs, NEW c \in Conns \ closed,
         stage[r] = "outcome", c \in left[Task(r)], c \notin left'[Task(r)]
  PROVE  \E m : m = Notice(state[r], r) /\ Arrives(c, Task(r), m)'
<1>1. ControlTypeOK /\ state[r] \in Outcomes
  BY ControlType DEF StageInv, StageOf
<1>2. left' # left
  OBVIOUS
<1>3. PICK t \in Runs : Run(t) \/ HeartbeatStep(t) \/ Beat(t)
  BY <1>1, <1>2, ConnectionIdle DEF Next, vars, runVars
<1>4. /\ Task(r) \in DOMAIN left /\ Task(r) # Pulse(t) /\ (t # r => Task(r) # Task(t))
      /\ Task(r) \in Speakers
  BY SpeakersDiffer DEF DeliveryTypeOK
<1>5. Speak(r)
  <2>1. ~Begin(t) /\ ~BeginOutcome(t) /\ ~CancelDelivered(t)
    BY <1>1, <1>4 DEF Begin, BeginOutcome, CancelDelivered, Broadcast, Silence, Outcomes, DeliveryTypeOK
  <2>2. ~SpeakBeat(t) /\ ~BeatEnds(t) /\ ~Beat(t)
    BY <1>4 DEF SpeakBeat, BeatEnds, Beat, Tell, Broadcast, Silence, DeliveryTypeOK
  <2>3. ~RecordTurn(t) /\ ~Finish(t) /\ ~Done(t) /\ ~Unwound(t)
    BY DEF RecordTurn, Finish, Done, Unwound
  <2>4. CASE Speak(t) /\ t # r
    BY <1>4, <2>4 DEF Speak, Tell, DeliveryTypeOK
  <2> QED
    BY <1>3, <2>1, <2>2, <2>3, <2>4 DEF Run, HeartbeatStep
<1>6. /\ Says(r) = Notice(state[r], r)
      /\ Notice(state[r], r) \in Messages
  BY <1>1, <1>5, RunMessages, OutcomesAreNotices DEF Says, Speak
<1>7. ~Sending(Task(r)) /\ Send(c, Task(r), Notice(state[r], r))
  BY <1>4, <1>5, <1>6 DEF Speak, Tell, DeliveryTypeOK
<1>8. \A m \in Messages : Send(c, Task(r), m) => Arrives(c, Task(r), m)'
  BY <1>4, <1>7, SendSpeaks
<1> QED
  BY <1>6, <1>7, <1>8

(* A run that was cancelled has no other outcome any more. *)
LEMMA CancelledStays ==
  ASSUME ControlTypeOK, [Next]_vars, NEW r \in Runs, state[r] = "cancelled"
  PROVE  state'[r] = "cancelled"
<1>1. ASSUME NEW c \in Conns, Client(c) \/ Connection(c) PROVE state'[r] = "cancelled"
  <2>1. CASE Close(c)
    BY <2>1 DEF Close, Leave, Active
  <2>2. ASSUME NEW line, Detach(c, line) PROVE state'[r] = "cancelled"
    BY <2>2 DEF Detach, Leave, Active
  <2>3. ASSUME NEW line, \E t \in Runs : Accept(c, line, t) PROVE state'[r] = "cancelled"
    BY <2>3 DEF Accept, ControlTypeOK
  <2>4. ASSUME NEW line, Reject(c, line) \/ Dispatch(c, line) \/ Shutdown(c, line) \/ Attach(c, line)
                           \/ Refuse(c, line) \/ CreateFails(c, line)
        PROVE  state'[r] = "cancelled"
    BY <2>4 DEF Reject, Dispatch, Shutdown, Attach, Refuse, CreateFails, runVars
  <2>5. ASSUME NEW line, Read(c, line) PROVE state'[r] = "cancelled"
    BY <2>1, <2>2, <2>3, <2>4, <2>5 DEF Read, Request
  <2>6. CASE Disconnect(c) \/ BreaksDown(c) \/ Connection(c)
    BY <2>1, <2>6 DEF Disconnect, BreaksDown, Connection, Drained, Answered, CancelLanded, runVars
  <2> QED
    BY <1>1, <2>5, <2>6 DEF Client
<1>2. ASSUME NEW t \in Runs, Run(t) \/ HeartbeatStep(t) \/ Beat(t) PROVE state'[r] = "cancelled"
  BY <1>2 DEF Run, HeartbeatStep, Begin, Speak, Tell, RecordTurn, Finish, BeginOutcome, Done,
              CancelDelivered, Unwound, SpeakBeat, BeatEnds, Beat, ControlTypeOK
<1>3. CASE UNCHANGED vars
  BY <1>3 DEF vars, runVars
<1> QED
  BY <1>1, <1>2, <1>3 DEF Next

LEMMA EndStep ==
  ASSUME DeliveryTypeOK, StageInv, EndInv, StepSpeech, Controlled, [Next]_vars
  PROVE  EndInv'
<1> SUFFICES ASSUME NEW r \in Runs, stage'[r] \in {"outcome", "done"}, state'[r] \in Outcomes,
                    NEW c \in sinks' \ closed'
             PROVE  \/ stage'[r] = "outcome" /\ c \in left'[Task(r)]
                    \/ stage'[r] = "outcome" /\ \E m : m = Notice(state'[r], r) /\ Arrives(c, Task(r), m)'
                    \/ \E i \in DOMAIN wire'[c] : wire'[c][i] = Notice(state'[r], r)
                    \/ r \in ended'[c]
  BY DEF EndInv, Task, Arrives, Notice
<1>1. ControlTypeOK /\ c \in Conns /\ c \notin closed
  BY ControlType, AudienceStep DEF Controlled, ControlTypeOK
<1>2. CASE BeginOutcome(r)
  BY <1>1, <1>2, SpeakersDiffer DEF BeginOutcome, Broadcast, ControlTypeOK
<1>3. CASE stage[r] \in {"outcome", "done"} /\ ~BeginOutcome(r)
  <2> DEFINE m == Notice(state[r], r)
  <2>1. state[r] \in Outcomes /\ state'[r] = state[r]
    <3>1. stage[r] = "outcome" => state[r] \in Outcomes
      BY DEF StageInv, StageOf
    <3>2. stage[r] = "done" => state[r] \in Outcomes
      <4>1. \A t \in Runs : state[t] = "cancelled" => state'[t] = "cancelled"
        BY <1>1, CancelledStays
      <4>2. state[r] \in {"none", "running", "completed", "failed", "cancelled"}
        BY <1>1 DEF ControlTypeOK
      <4> QED
        BY <4>1, <4>2 DEF StageInv, StageOf, Outcomes
    <3> QED
      BY <1>3, <3>1, <3>2 DEF Controlled, GoesOn
  <2>2. m \in Messages /\ m = Notice(state'[r], r)
    BY <2>1, RunMessages, OutcomesAreNotices
  <2>3. Lasts(c, Task(r))
    <3>1. ~Cancellable(Task(r))
      BY <2>1, SpeakersDiffer DEF Cancellable, Outcomes
    <3> QED
      BY <1>1, <3>1 DEF StepSpeech
  <2>4. Done(r) => left[Task(r)] = {} /\ ~Sending(Task(r))
    BY DEF Done, Told
  <2>5. stage'[r] = "done" => stage[r] = "done" \/ Done(r)
    BY <1>1, OverStep
  <2>6. CASE r \in ended'[c]
    BY <2>6
  <2>7. CASE c \in sinks /\ (r \in ended[c] => r \in ended'[c])
    <3>1. CASE stage[r] = "outcome" /\ c \in left[Task(r)]
      <4>1. stage'[r] = "outcome"
        BY <2>4, <2>5, <3>1
      <4>2. CASE c \in left'[Task(r)]
        BY <4>1, <4>2
      <4>3. CASE c \notin left'[Task(r)]
        BY <1>1, <2>2, <3>1, <4>1, <4>3, ToldStep
      <4> QED
        BY <4>2, <4>3
    <3>2. CASE \E i \in DOMAIN wire[c] : wire[c][i] = m
      BY <2>2, <2>3, <3>2 DEF Lasts
    <3>3. CASE stage[r] = "outcome" /\ Arrives(c, Task(r), m)
      <4>1. CASE stage'[r] = "outcome"
        <5>1. \A n \in Messages : Arrives(c, Task(r), n) => Arrives(c, Task(r), n)'
          BY <2>3 DEF Lasts
        <5> QED
          BY <2>2, <3>3, <4>1, <5>1
      <4>2. CASE stage'[r] = "done"
        <5>1. \E i \in DOMAIN wire[c] : wire[c][i] = m
          BY <1>1, <2>4, <2>5, <3>3, <4>2 DEF Arrives, Sending
        <5> QED
          BY <3>2, <5>1
      <4> QED
        BY <4>1, <4>2
    <3>4. CASE r \in ended[c]
      BY <2>7, <3>4
    <3> QED
      BY <1>1, <1>3, <2>1, <2>7, <3>1, <3>2, <3>3, <3>4 DEF EndInv
  <2> QED
    BY <1>1, <2>1, <2>6, <2>7, AudienceStep
<1> QED
  BY <1>1, <1>2, <1>3, OverStep DEF Done

-----------------------------------------------------------------------------
(* What is written to a wire does to its account *)

LEMMA PlacesFinite ==
  ASSUME NEW w \in Seq(Messages)
  PROVE  /\ Places(w) \subseteq 1 .. Len(w) /\ IsFiniteSet(Places(w)) /\ Cardinality(Places(w)) \in Nat
         /\ \A i \in Places(w) : /\ Upto(w, i) \in Nat \ {0}
                               /\ Upto(w, i) <= Cardinality(Places(w))
<1>1. Places(w) \subseteq 1 .. Len(w) /\ Len(w) \in Nat
  BY DEF Places
<1>2. IsFiniteSet(1 .. Len(w))
  BY <1>1, FS_Interval
<1>3. IsFiniteSet(Places(w)) /\ Cardinality(Places(w)) \in Nat
  BY <1>1, <1>2, FS_Subset, FS_CardinalityType
<1>4. ASSUME NEW i \in Places(w)
      PROVE  Upto(w, i) \in Nat \ {0} /\ Upto(w, i) <= Cardinality(Places(w))
  <2> DEFINE T == {j \in Places(w) : j <= i}
  <2>1. T \subseteq Places(w) /\ i \in T
    BY <1>1, <1>4
  <2>2. IsFiniteSet(T) /\ Cardinality(T) \in Nat /\ Cardinality(T) <= Cardinality(Places(w))
    BY <1>3, <2>1, FS_Subset, FS_CardinalityType
  <2>3. Cardinality(T) # 0
    BY <2>1, <2>2, FS_EmptySet
  <2> QED
    BY <2>2, <2>3 DEF Upto
<1> QED
  BY <1>1, <1>3, <1>4

(* Something else than an answer is written. *)
LEMMA WritePlain ==
  ASSUME NEW w \in Seq(Messages), NEW m \in Messages, ~IsAnswer(m), NEW v, v = Append(w, m)
  PROVE  Places(v) = Places(w) /\ \A o : Matches(w, o) => Matches(v, o)
<1>1. Places(v) = Places(w) /\ \A i \in Places(w) : v[i] = w[i]
  BY AppendElements DEF Places
<1>2. \A i \in Places(w) : Upto(v, i) = Upto(w, i)
  BY <1>1 DEF Upto
<1> QED
  BY <1>1, <1>2 DEF Matches

(* The next answer is written. *)
LEMMA WriteAnswer ==
  ASSUME NEW w \in Seq(Messages), NEW m \in Messages, IsAnswer(m), NEW v, v = Append(w, m),
         NEW o \in Seq(Nat), Matches(w, o), Len(o) = Cardinality(Places(w)) + 1, m.id = o[Len(o)]
  PROVE  Matches(v, o) /\ Len(o) = Cardinality(Places(v))
<1> DEFINE n == Len(w) + 1
<1>1. Len(w) \in Nat /\ n \notin Places(w) /\ v[n] = m
  BY PlacesFinite, AppendElements
<1>2. Places(v) = Places(w) \cup {n} /\ \A i \in Places(w) : v[i] = w[i]
  BY <1>1, AppendElements DEF Places
<1>3. Cardinality(Places(v)) = Cardinality(Places(w)) + 1
  BY <1>1, <1>2, PlacesFinite, FS_AddElement
<1>4. \A i \in Places(w) : i <= Len(w) /\ i \in Nat
  BY <1>1, PlacesFinite
<1>5. \A i \in Places(w) : Upto(v, i) = Upto(w, i)
  <2>1. \A i \in Places(w) : {j \in Places(v) : j <= i} = {j \in Places(w) : j <= i}
    BY <1>1, <1>2, <1>4
  <2> QED
    BY <2>1 DEF Upto
<1>6. Upto(v, n) = Cardinality(Places(v))
  <2>1. {j \in Places(v) : j <= n} = Places(v)
    BY <1>1, <1>2, <1>4
  <2> QED
    BY <2>1 DEF Upto
<1>7. Len(o) \in Nat
  OBVIOUS
<1> HIDE DEF n
<1>8. ASSUME NEW i \in Places(v) PROVE Upto(v, i) <= Len(o) /\ v[i].id = o[Upto(v, i)]
  <2>1. CASE i \in Places(w)
    BY <1>2, <1>5, <2>1 DEF Matches
  <2>2. CASE i = n
    <3>1. Upto(v, i) = Len(o) /\ v[i] = m
      BY <1>1, <1>3, <1>6, <2>2
    <3> QED
      BY <1>7, <3>1
  <2> QED
    BY <1>2, <2>1, <2>2
<1> QED
  BY <1>3, <1>8 DEF Matches

(* Something more is owed. *)
LEMMA OweMore ==
  ASSUME NEW w \in Seq(Messages), NEW o \in Seq(Nat), NEW u, Ledger(w, u, o), u = {}, NEW id \in Nat
  PROVE  Debt(w, u, o \o <<id>>, id)
<1> DEFINE p == o \o <<id>>
<1>1. /\ p \in Seq(Nat) /\ Len(p) = Len(o) + 1 /\ Len(o) \in Nat
      /\ p[Len(p)] = id
      /\ \A k \in 1 .. Len(o) : p[k] = o[k]
  OBVIOUS
<1> HIDE DEF p
<1>2. Matches(w, o) /\ Len(o) = Cardinality(Places(w))
  BY DEF Ledger
<1>3. ASSUME NEW i \in Places(w) PROVE Upto(w, i) <= Len(p) /\ w[i].id = p[Upto(w, i)]
  <2>1. Upto(w, i) \in Nat \ {0} /\ Upto(w, i) <= Len(o) /\ w[i].id = o[Upto(w, i)]
    BY <1>2, PlacesFinite DEF Matches
  <2>2. Upto(w, i) \in 1 .. Len(o)
    BY <1>1, <2>1
  <2> QED
    BY <1>1, <2>1, <2>2
<1>4. Debt(w, u, p, id)
  BY <1>1, <1>2, <1>3 DEF Debt, Matches
<1> QED
  BY <1>4 DEF p

(* The answer that was owed is sent: it is written, or it waits. *)
LEMMA PayDebt ==
  ASSUME NEW w \in Seq(Messages), NEW o \in Seq(Nat), NEW u, NEW m \in Messages, IsAnswer(m),
         Debt(w, u, o, m.id), NEW v, NEW t,
         (v = w /\ t = u \cup {m}) \/ (v = Append(w, m) /\ t = u)
  PROVE  Ledger(v, t, o)
<1>1. CASE v = w /\ t = u \cup {m}
  BY <1>1 DEF Debt, Ledger
<1>2. CASE v = Append(w, m) /\ t = u
  BY <1>2, WriteAnswer DEF Debt, Ledger
<1> QED
  BY <1>1, <1>2

(* The answer that waits is written ... *)
LEMMA WriteWaiting ==
  ASSUME NEW w \in Seq(Messages), NEW o \in Seq(Nat), NEW m \in Messages, IsAnswer(m),
         Ledger(w, {m}, o)
  PROVE  Ledger(Append(w, m), {}, o)
<1>1. Matches(w, o) /\ Len(o) = Cardinality(Places(w)) + 1 /\ m.id = o[Len(o)]
  BY DEF Ledger
<1> QED
  BY <1>1, WriteAnswer DEF Ledger

(* ... or whatever is the next of the queue. *)
LEMMA CarryLedger ==
  ASSUME NEW w \in Seq(Messages), NEW o \in Seq(Nat), NEW u, NEW v, NEW t,
         \/ v = w /\ t = u
         \/ \E m \in Messages : v = Append(w, m) /\ IF IsAnswer(m) THEN u = {m} /\ t = {} ELSE t = u
  PROVE  /\ Ledger(w, u, o) => Ledger(v, t, o)
         /\ \A id : Debt(w, u, o, id) => Debt(v, t, o, id)
<1>1. CASE v = w /\ t = u
  BY <1>1
<1>2. ASSUME NEW m \in Messages, v = Append(w, m), ~IsAnswer(m), t = u
      PROVE  /\ Ledger(w, u, o) => Ledger(v, t, o)
             /\ \A id : Debt(w, u, o, id) => Debt(v, t, o, id)
  BY <1>2, WritePlain DEF Ledger, Debt
<1>3. ASSUME NEW m \in Messages, v = Append(w, m), IsAnswer(m), u = {m}, t = {}
      PROVE  /\ Ledger(w, u, o) => Ledger(v, t, o)
             /\ \A id : Debt(w, u, o, id) => Debt(v, t, o, id)
  BY <1>3, WriteWaiting DEF Debt
<1> QED
  BY <1>1, <1>2, <1>3

-----------------------------------------------------------------------------
(* What a step does to the account of a connection *)

LEMMA IdleReader ==
  ASSUME DeliveryTypeOK, ReaderInv, WhoInv, NEW c \in Conns
  PROVE  /\ AnswerOnce(c)
         /\ reader[c] # "answering" => Unwritten(lock[c]) = {}
<1>1. \A i \in DOMAIN lock[c] : IsAnswer(lock[c][i][2]) =>
         lock[c][i][1] = Reader(c) /\ reader[c] = "answering"
  BY DEF WhoInv, ReaderInv
<1> QED
  BY <1>1, SpeechType DEF AnswerOnce, Unwritten

(* Nothing is read or answered. *)
LEMMA AccountCarried ==
  ASSUME DeliveryTypeOK, NEW c \in Conns, AccountAt(c), c \in closed <=> c \in closed',
         c \in closed => wire'[c] = wire[c],
         c \notin closed => Carried(c),
         Owing(c)' <=> Owing(c), owed'[c] = owed[c], lines'[c] = lines[c]
  PROVE  AccountAt(c)'
<1>1. wire[c] \in Seq(Messages) /\ owed[c] \in Seq(Nat)
  BY DEF DeliveryTypeOK
<1>2. CASE c \in closed
  BY <1>2 DEF AccountAt
<1>3. CASE c \notin closed
  <2>1. /\ \/ wire'[c] = wire[c] /\ Unwritten(lock'[c]) = Unwritten(lock[c])
           \/ \E m \in Messages :
                wire'[c] = Append(wire[c], m)
                /\ IF IsAnswer(m) THEN Unwritten(lock[c]) = {m} /\ Unwritten(lock'[c]) = {}
                   ELSE Unwritten(lock'[c]) = Unwritten(lock[c])
    BY <1>3 DEF Carried
  <2>2. /\ Ledger(wire[c], Unwritten(lock[c]), owed[c])
             => Ledger(wire'[c], Unwritten(lock'[c]), owed[c])
        /\ \A id : Debt(wire[c], Unwritten(lock[c]), owed[c], id)
             => Debt(wire'[c], Unwritten(lock'[c]), owed[c], id)
    BY <1>1, <2>1, CarryLedger
  <2>3. CASE Owing(c)
    <3>1. Debt(wire'[c], Unwritten(lock'[c]), owed'[c], lines'[c])
      BY <1>3, <2>2, <2>3 DEF AccountAt
    <3> QED
      BY <1>3, <2>3, <3>1 DEF AccountAt, Unwritten, Debt, Matches, Places, Upto
  <2>4. CASE ~Owing(c)
    <3>1. Ledger(wire'[c], Unwritten(lock'[c]), owed'[c])
      BY <1>3, <2>2, <2>4 DEF AccountAt
    <3> QED
      BY <1>3, <2>4, <3>1 DEF AccountAt
  <2> QED
    BY <2>3, <2>4
<1> QED
  BY <1>2, <1>3

(* The answer that was owed is sent. *)
LEMMA AccountPaid ==
  ASSUME DeliveryTypeOK, ReaderInv, NEW c \in Conns, reader[c] # "answering",
         NEW m \in Messages, IsAnswer(m), NEW next, Reply(c, m, next), closed' = closed,
         c \in closed => wire[c] = <<>>,
         c \notin closed => /\ owed'[c] \in Seq(Nat)
                            /\ Debt(wire[c], Unwritten(lock[c]), owed'[c], m.id)
  PROVE  AccountAt(c)'
<1>1. /\ c \notin closed => Sent(c, m)
      /\ c \in closed => wire'[c] = wire[c]
      /\ ~Owing(c)'
  <2>1. ~Sending(Reader(c)) /\ Reader(c) \in Speakers
    BY SpeakersDiffer DEF Sending, ReaderInv
  <2>2. reader'[c] = "answering" /\ Send(c, Reader(c), m)
    BY DEF Reply, DeliveryTypeOK
  <2> QED
    BY <2>1, <2>2, SendSpeaks DEF Owing
<1>2. CASE c \in closed
  BY <1>1, <1>2 DEF AccountAt
<1>3. CASE c \notin closed
  <2>1. wire[c] \in Seq(Messages)
    BY DEF DeliveryTypeOK
  <2>2. Ledger(wire'[c], Unwritten(lock'[c]), owed'[c])
    BY <1>1, <1>3, <2>1, PayDebt DEF Sent
  <2> QED
    BY <1>1, <1>3, <2>2 DEF AccountAt
<1> QED
  BY <1>2, <1>3

(* What the protocol owes for a line that does not end the loop. *)
LEMMA LineOwed ==
  ASSUME NEW c \in Conns, NEW line \in Lines, ~Ends(line)
  PROVE  Owed(c, line) = IF Parse(line) # "request" THEN <<0>>
                         ELSE IF line.id = "valid" THEN <<lines[c] + 1>> ELSE <<>>
<1>1. line.text \in {"garbage", "value", "object"} /\ line.version \in BOOLEAN
  BY DEF Ends, Lines
<1>2. line.result \in BOOLEAN
  BY DEF Lines
<1> DEFINE answers == line.result \/ line.error # "absent"
<1>3. CASE line.text \in {"garbage", "value"} \/ ~line.version
  <2>1. CASE line.text = "garbage"
    BY <2>1 DEF Parse, Owed
  <2>2. CASE line.text # "garbage"
    BY <1>3, <2>2 DEF Parse, Owed
  <2> QED
    BY <2>1, <2>2
<1>4. CASE line.text = "object" /\ line.version /\ (line.method = "absent" \/ answers)
  <2>1. Parse(line) # "request"
    BY <1>4 DEF Parse, ParseResponse
  <2> QED
    BY <1>4, <2>1 DEF Owed
<1>5. CASE line.text = "object" /\ line.version /\ line.method # "absent" /\ ~answers
  <2>1. Parse(line) = ParseRequest(line)
    BY <1>5 DEF Parse
  <2> QED
    BY <1>5, <2>1 DEF Owed, ParseRequest
<1> QED
  BY <1>1, <1>3, <1>4, <1>5

(* The answers of the read loop. *)
Answers(c, id) == \E m \in Messages : \E next : IsAnswer(m) /\ m.id = id /\ Reply(c, m, next)

LEMMA AnswerIds ==
  /\ \A what, id : Answer(what, id).id = id /\ Answer(what, id).kind = what
  /\ \A r, id : Accepted(r, id).id = id /\ Accepted(r, id).kind = "accepted"
  /\ \A id : Snapshot(id).id = id /\ Snapshot(id).kind = "attached"
  BY DEF Answer, Accepted, Snapshot

LEMMA ResultAnswers ==
  ASSUME DeliveryTypeOK, NEW c \in Conns, NEW line, NEW m \in Messages, m.kind \notin NoticeKinds,
         m.id = lines[c] + 1, NEW next, ReplyResult(c, line, m, next)
  PROVE  IF line.id = "valid" THEN Answers(c, lines[c] + 1) ELSE ~Owing(c)' /\ UNCHANGED sendVars
<1>1. lines[c] \in Nat
  BY DEF DeliveryTypeOK
<1>2. IsAnswer(m)
  BY <1>1 DEF IsAnswer
<1>3. CASE line.id = "valid"
  BY <1>2, <1>3 DEF ReplyResult, Answers
<1>4. CASE line.id # "valid"
  BY <1>4 DEF ReplyResult, GoOn, Owing, DeliveryTypeOK
<1> QED
  BY <1>3, <1>4

LEMMA ReadAnswers ==
  ASSUME DeliveryTypeOK, NEW c \in Conns, NEW line, Reject(c, line) \/ Request(c, line),
         lines' = [lines EXCEPT ![c] = @ + 1]
  PROVE  /\ closed' = closed
         /\ IF Parse(line) # "request" THEN Answers(c, 0)
            ELSE IF line.id = "valid"
            THEN Answers(c, lines[c] + 1) \/ (Owing(c)' /\ UNCHANGED sendVars)
            ELSE \/ ~Owing(c)' /\ UNCHANGED sendVars
                 \/ \E m \in Messages : \E next : ~IsAnswer(m) /\ Reply(c, m, next)
<1> DEFINE Asked == IF line.id = "valid"
                    THEN Answers(c, lines[c] + 1) \/ (Owing(c)' /\ UNCHANGED sendVars)
                    ELSE \/ ~Owing(c)' /\ UNCHANGED sendVars
                         \/ \E m \in Messages : \E next : ~IsAnswer(m) /\ Reply(c, m, next)
<1>1. lines[c] \in Nat /\ lines[c] + 1 \in Nat /\ lines[c] + 1 # 0
  BY DEF DeliveryTypeOK
<1>2. CASE Reject(c, line)
  <2>1. PICK what \in {"parse_error", "invalid_request"} : Reply(c, Answer(what, 0), "read")
    BY <1>2, ParseKinds DEF Reject
  <2>2. Answer(what, 0) \in Messages /\ IsAnswer(Answer(what, 0)) /\ Answer(what, 0).id = 0
    BY AnswerTypes, AnswerIds DEF IsAnswer
  <2> QED
    BY <1>2, <2>1, <2>2 DEF Reject, Answers
<1>3. ASSUME Dispatch(c, line) PROVE Asked /\ closed' = closed
  <2>1. PICK what \in Dispatched(line) : ReplyResult(c, line, Answer(what, lines[c] + 1), "read")
    BY <1>3 DEF Dispatch
  <2> DEFINE m == Answer(what, lines[c] + 1)
  <2>2. m \in Messages /\ m.id = lines[c] + 1 /\ m.kind \notin NoticeKinds
    BY <1>1, AnswerTypes, AnswerIds
  <2> HIDE DEF m
  <2>3. Asked
    BY <2>1, <2>2, ResultAnswers DEF m
  <2> QED
    BY <1>3, <2>3 DEF Dispatch
<1>4. ASSUME Attach(c, line) PROVE Asked /\ closed' = closed
  <2> DEFINE m == Snapshot(lines[c] + 1)
  <2>1. m \in Messages /\ m.id = lines[c] + 1 /\ m.kind \notin NoticeKinds
    BY <1>1, RunMessages, AnswerIds DEF NoticeKinds
  <2> HIDE DEF m
  <2>2. Asked
    BY <1>4, <2>1, ResultAnswers DEF Attach, m
  <2> QED
    BY <1>4, <2>2 DEF Attach
<1>5. ASSUME Detach(c, line) PROVE Asked /\ closed' = closed
  <2>1. ASSUME pending'[c] = None PROVE Asked
    <3> DEFINE m == Answer("result", lines[c] + 1)
    <3>1. m \in Messages /\ m.id = lines[c] + 1 /\ m.kind \notin NoticeKinds
      BY <1>1, AnswerTypes, AnswerIds
    <3> HIDE DEF m
    <3> QED
      BY <1>5, <2>1, <3>1, ResultAnswers DEF Detach, m
  <2>2. ASSUME pending'[c] # None PROVE Asked
    <3>1. IF line.id = "valid" THEN Owing(c)' ELSE ~Owing(c)'
      BY <1>5, <2>2 DEF Detach, Owing, DeliveryTypeOK
    <3>2. UNCHANGED sendVars
      BY <1>5, <2>2 DEF Detach
    <3> QED
      BY <3>1, <3>2
  <2>3. Asked /\ closed' = closed
    BY <1>5, <2>1, <2>2 DEF Detach
  <2> QED
    BY <2>3
<1>6. ASSUME Shutdown(c, line) PROVE Asked /\ closed' = closed
  <2> DEFINE m == Answer("result", lines[c] + 1)
  <2>1. m \in Messages /\ m.id = lines[c] + 1 /\ IsAnswer(m)
    BY <1>1, AnswerTypes, AnswerIds DEF IsAnswer
  <2> HIDE DEF m
  <2> QED
    BY <1>6, <2>1 DEF Shutdown, Answers, m
<1>7. ASSUME NEW what \in {"session_busy", "internal_error"}, Reply(c, Answer(what, Id(c, line)), "read")
      PROVE  Asked
  <2> DEFINE m == Answer(what, Id(c, line))
  <2>1. m \in Messages /\ m.id = Id(c, line) /\ m.kind = what /\ what \notin NoticeKinds
    BY <1>1, AnswerTypes, AnswerIds DEF Id, NoticeKinds
  <2>2. IF line.id = "valid" THEN m.id = lines[c] + 1 /\ IsAnswer(m) ELSE ~IsAnswer(m)
    BY <1>1, <2>1 DEF Id, IsAnswer
  <2> HIDE DEF m
  <2> QED
    BY <1>7, <2>1, <2>2 DEF Answers, m
<1>8. ASSUME Refuse(c, line) \/ CreateFails(c, line) PROVE Asked /\ closed' = closed
  <2>1. Asked
    BY <1>7, <1>8 DEF Refuse, CreateFails
  <2> QED
    BY <1>8, <2>1 DEF Refuse, CreateFails
<1>9. ASSUME NEW r \in Runs, Accept(c, line, r) PROVE Asked /\ closed' = closed
  <2>1. CASE line.id = "valid"
    <3> DEFINE m == Accepted(r, lines[c] + 1)
    <3>1. m \in Messages /\ m.id = lines[c] + 1 /\ IsAnswer(m)
      BY <1>1, RunMessages, AnswerIds DEF IsAnswer, NoticeKinds
    <3> HIDE DEF m
    <3> QED
      BY <1>9, <2>1, <3>1 DEF Accept, Answers, m
  <2>2. CASE line.id # "valid"
    BY <1>9, <2>2 DEF Accept, GoOn, Owing, DeliveryTypeOK
  <2> QED
    BY <2>1, <2>2
<1>10. CASE Parse(line) = "request"
  <2>1. Asked /\ closed' = closed
    BY <1>3, <1>4, <1>5, <1>6, <1>8, <1>9, <1>10 DEF Reject, Request, Dispatch, Attach, Shutdown
  <2> QED
    BY <1>10, <2>1
<1> QED
  BY <1>2, <1>10 DEF Request

(* A connection touches what belongs to it. *)
Only(c) ==
    /\ closed \subseteq closed' /\ closed' \subseteq closed \cup {c}
    /\ \A d \in Conns \ {c} :
        /\ reader'[d] = reader[d] /\ then'[d] = then[d] /\ lines'[d] = lines[d]
        /\ owed'[d] = owed[d] /\ lock'[d] = lock[d] /\ wire'[d] = wire[d]

LEMMA ReplyOnly ==
  ASSUME DeliveryTypeOK, NEW c \in Conns, NEW d \in Conns \ {c},
         \/ GoOn(c)
         \/ \E m, next : Reply(c, m, next)
         \/ \E line, m, next : ReplyResult(c, line, m, next)
  PROVE  reader'[d] = reader[d] /\ then'[d] = then[d] /\ lock'[d] = lock[d] /\ wire'[d] = wire[d]
<1>1. CASE GoOn(c)
  BY <1>1 DEF GoOn, sendVars, DeliveryTypeOK
<1>2. ASSUME NEW m, NEW next, Reply(c, m, next)
      PROVE  reader'[d] = reader[d] /\ then'[d] = then[d] /\ lock'[d] = lock[d] /\ wire'[d] = wire[d]
  <2>1. lock'[d] = lock[d] /\ wire'[d] = wire[d]
    BY <1>2 DEF Reply, Send, Set, DeliveryTypeOK
  <2> QED
    BY <1>2, <2>1 DEF Reply, DeliveryTypeOK
<1> QED
  BY <1>1, <1>2 DEF ReplyResult

LEMMA CloseOnly ==
  ASSUME DeliveryTypeOK, NEW c \in Conns, Close(c), NEW d \in Conns \ {c}
  PROVE  /\ reader'[d] = reader[d] /\ then'[d] = then[d] /\ owed'[d] = owed[d]
         /\ lock'[d] = lock[d] /\ wire'[d] = wire[d]
  BY DEF Close, Unread, DeliveryTypeOK

LEMMA ReadOnly ==
  ASSUME DeliveryTypeOK, NEW c \in Conns, NEW line, Read(c, line)
  PROVE  Only(c)
<1>1. lines' = [lines EXCEPT ![c] = @ + 1]
  BY DEF Read
<1>2. CASE Ends(line) /\ Close(c)
  BY <1>1, <1>2, CloseOnly DEF Close, Only, DeliveryTypeOK
<1>3. CASE ~Ends(line) /\ (Reject(c, line) \/ Request(c, line))
  <2>1. \A d \in Conns \ {c} : lines'[d] = lines[d] /\ owed'[d] = owed[d]
    BY <1>1, <1>3 DEF Read, DeliveryTypeOK
  <2>2. closed' = closed
    BY <1>1, <1>3, ReadAnswers
  <2>3. ASSUME NEW d \in Conns \ {c}
        PROVE  reader'[d] = reader[d] /\ then'[d] = then[d] /\ lock'[d] = lock[d] /\ wire'[d] = wire[d]
    <3>1. CASE Reject(c, line)
      BY <3>1, ReplyOnly DEF Reject
    <3>2. CASE Dispatch(c, line) \/ Attach(c, line)
      BY <3>2, ReplyOnly DEF Dispatch, Attach
    <3>3. CASE Shutdown(c, line) \/ Refuse(c, line) \/ CreateFails(c, line)
      BY <3>3, ReplyOnly DEF Shutdown, Refuse, CreateFails
    <3>4. CASE Detach(c, line)
      <4>1. CASE pending'[c] = None
        BY <3>4, <4>1, ReplyOnly DEF Detach
      <4>2. CASE pending'[c] # None
        BY <3>4, <4>2 DEF Detach, sendVars, DeliveryTypeOK
      <4> QED
        BY <4>1, <4>2
    <3>5. ASSUME NEW r \in Runs, Accept(c, line, r)
          PROVE  reader'[d] = reader[d] /\ then'[d] = then[d] /\ lock'[d] = lock[d] /\ wire'[d] = wire[d]
      BY <3>5, ReplyOnly DEF Accept
    <3> QED
      BY <1>3, <3>1, <3>2, <3>3, <3>4, <3>5 DEF Request
  <2> QED
    BY <2>1, <2>2, <2>3 DEF Only
<1> QED
  BY <1>2, <1>3 DEF Read

LEMMA ConnectionOnly ==
  ASSUME DeliveryTypeOK, NEW c \in Conns, Client(c) \/ Connection(c)
  PROVE  Only(c)
<1>1. ASSUME NEW line, Read(c, line) PROVE Only(c)
  BY <1>1, ReadOnly
<1>2. CASE Disconnect(c)
  BY <1>2, CloseOnly DEF Disconnect, Close, Only
<1>3. CASE BreaksDown(c)
  BY <1>3 DEF BreaksDown, Unread, Only, DeliveryTypeOK
<1>4. CASE Drained(c)
  <2>1. \A d \in Conns \ {c} : lock'[d] = lock[d] /\ wire'[d] = wire[d]
    BY <1>4 DEF Drained, Set, DeliveryTypeOK
  <2> QED
    BY <1>4, <2>1 DEF Drained, connVars, pastVars, Only
<1>5. CASE Answered(c)
  <2>1. CASE Close(c)
    BY <1>5, <2>1, CloseOnly DEF Answered, Close, Only
  <2>2. CASE GoOn(c) /\ UNCHANGED <<closed, pastVars>>
    BY <1>5, <2>2, ReplyOnly DEF Answered, pastVars, Only
  <2> QED
    BY <1>5, <2>1, <2>2 DEF Answered
<1>6. CASE CancelLanded(c)
  <2>1. ASSUME NEW d \in Conns \ {c}
        PROVE  reader'[d] = reader[d] /\ then'[d] = then[d] /\ lock'[d] = lock[d] /\ wire'[d] = wire[d]
    <3>1. CASE reader[c] = "closing"
      BY <1>6, <3>1 DEF CancelLanded, sendVars, DeliveryTypeOK
    <3>2. CASE reader[c] # "closing"
      BY <1>6, <3>2, ReplyOnly DEF CancelLanded
    <3> QED
      BY <3>1, <3>2
  <2> QED
    BY <1>6, <2>1 DEF CancelLanded, pastVars, Only
<1> QED
  BY <1>1, <1>2, <1>3, <1>4, <1>5, <1>6 DEF Client, Connection

(* The account of the connection that takes the step. *)
LEMMA ReadAccount ==
  ASSUME DeliveryTypeOK, ReaderInv, WhoInv, NEW c \in Conns, AccountAt(c), NEW line \in Lines, Read(c, line)
  PROVE  AccountAt(c)'
<1>1. reader[c] = "reading" /\ lines' = [lines EXCEPT ![c] = @ + 1] /\ ~Owing(c)
  BY DEF Read, Owing
<1>2. lines'[c] = lines[c] + 1 /\ lines[c] \in Nat /\ lines[c] + 1 \in Nat
  BY <1>1 DEF DeliveryTypeOK
<1>3. CASE Close(c)
  BY <1>3 DEF Close, Unread, AccountAt, DeliveryTypeOK
<1>4. CASE ~Ends(line) /\ (Reject(c, line) \/ Request(c, line))
  <2> DEFINE u == Unwritten(lock[c])
             o == owed[c]
             p == owed'[c]
  <2>1. p = IF c \in closed THEN <<>> ELSE o \o Owed(c, line)
    BY <1>4 DEF Read, DeliveryTypeOK
  <2>2. closed' = closed
    BY <1>1, <1>4, ReadAnswers
  <2>3. u = {} /\ o \in Seq(Nat) /\ wire[c] \in Seq(Messages)
    BY <1>1, IdleReader DEF DeliveryTypeOK
  <2>4. c \notin closed => Ledger(wire[c], u, o)
    BY <1>1 DEF AccountAt
  <2>5. c \in closed => wire[c] = <<>>
    BY DEF AccountAt
  <2>6. ASSUME c \notin closed, NEW id \in Nat, Owed(c, line) = <<id>>
        PROVE  p \in Seq(Nat) /\ Debt(wire[c], u, p, id)
    <3>1. p = o \o <<id>>
      BY <2>1, <2>6
    <3> HIDE DEF p, o
    <3>2. Debt(wire[c], u, o \o <<id>>, id)
      BY <2>3, <2>4, <2>6, OweMore
    <3>3. <<id>> \in Seq(Nat)
      OBVIOUS
    <3> QED
      BY <2>3, <3>1, <3>2, <3>3
  <2>7. ASSUME NEW id \in Nat, Owed(c, line) = <<id>>, Answers(c, id) PROVE AccountAt(c)'
    <3>1. PICK m \in Messages : \E next : IsAnswer(m) /\ m.id = id /\ Reply(c, m, next)
      BY <2>7 DEF Answers
    <3>2. PICK next : IsAnswer(m) /\ m.id = id /\ Reply(c, m, next)
      BY <3>1
    <3> QED
      BY <1>1, <2>2, <2>5, <2>6, <2>7, <3>2, AccountPaid
  <2>8. CASE Parse(line) # "request"
    BY <1>1, <1>4, <2>7, <2>8, LineOwed, ReadAnswers
  <2>9. CASE Parse(line) = "request" /\ line.id = "valid"
    <3>1. Owed(c, line) = <<lines[c] + 1>>
      BY <1>4, <2>9, LineOwed
    <3>2. CASE Answers(c, lines[c] + 1)
      BY <1>2, <2>7, <3>1, <3>2
    <3>3. CASE Owing(c)' /\ UNCHANGED sendVars
      <4>1. lock' = lock /\ wire' = wire
        BY <3>3 DEF sendVars
      <4>2. c \notin closed => Debt(wire'[c], Unwritten(lock'[c]), owed'[c], lines'[c])
        BY <1>2, <2>6, <3>1, <4>1
      <4> QED
        BY <2>2, <2>5, <3>3, <4>1, <4>2 DEF AccountAt
    <3> QED
      BY <1>1, <1>4, <2>9, <3>2, <3>3, ReadAnswers
  <2>10. CASE Parse(line) = "request" /\ line.id # "valid"
    <3>1. c \notin closed => owed'[c] = owed[c]
      <4>1. Owed(c, line) = <<>>
        BY <1>4, <2>10, LineOwed
      <4> QED
        BY <2>1, <2>3, <4>1
    <3>2. CASE ~Owing(c)' /\ UNCHANGED sendVars
      <4>1. lock' = lock /\ wire' = wire
        BY <3>2 DEF sendVars
      <4>2. c \notin closed => Ledger(wire'[c], Unwritten(lock'[c]), owed'[c])
        BY <2>4, <3>1, <4>1
      <4> QED
        BY <2>2, <2>5, <3>2, <4>1, <4>2 DEF AccountAt
    <3>3. ASSUME NEW m \in Messages, NEW next, ~IsAnswer(m), Reply(c, m, next) PROVE AccountAt(c)'
      <4>1. ~Sending(Reader(c)) /\ Reader(c) \in Speakers
        BY <1>1, SpeakersDiffer DEF Sending, ReaderInv
      <4>2. Send(c, Reader(c), m) /\ ~Owing(c)'
        BY <3>3 DEF Reply, Owing, DeliveryTypeOK
      <4>3. (c \notin closed => Carried(c)) /\ (c \in closed => wire'[c] = wire[c])
        BY <3>3, <4>1, <4>2, SendSpeaks
      <4>4. c \notin closed => Ledger(wire'[c], Unwritten(lock'[c]), owed'[c])
        BY <2>3, <2>4, <3>1, <4>3, CarryLedger DEF Carried
      <4> QED
        BY <2>2, <2>5, <4>2, <4>3, <4>4 DEF AccountAt
    <3> QED
      BY <1>1, <1>4, <2>10, <3>2, <3>3, ReadAnswers
  <2> QED
    BY <2>8, <2>9, <2>10
<1> QED
  BY <1>3, <1>4 DEF Read

LEMMA ConnectionAccount ==
  ASSUME DeliveryTypeOK, ReaderInv, WhoInv, NEW c \in Conns, AccountAt(c), Client(c) \/ Connection(c)
  PROVE  AccountAt(c)'
<1>1. ASSUME NEW line \in Input, Read(c, line) PROVE AccountAt(c)'
  BY <1>1, ReadAccount, DeliveryAssumption
<1>2. CASE Disconnect(c) \/ BreaksDown(c) \/ Close(c)
  BY <1>2 DEF Disconnect, BreaksDown, Close, Unread, AccountAt, DeliveryTypeOK
<1>3. CASE Drained(c)
  <2>1. AnswerOnce(c)
    BY IdleReader
  <2>2. UNCHANGED <<reader, then, lines, closed, owed>>
    BY <1>3 DEF Drained, connVars, pastVars
  <2>3. (c \notin closed => Carried(c)) /\ (c \in closed => wire'[c] = wire[c])
    BY <1>3, <2>1, DrainedKept
  <2> QED
    BY <2>2, <2>3, AccountCarried DEF Owing
<1>4. CASE Answered(c)
  <2>1. CASE GoOn(c) /\ UNCHANGED <<closed, pastVars>>
    <3>1. ~Owing(c) /\ ~Owing(c)'
      BY <1>4, <2>1 DEF Answered, GoOn, Owing, DeliveryTypeOK
    <3>2. lock' = lock /\ wire' = wire /\ closed' = closed /\ owed' = owed /\ lines' = lines
      BY <1>4, <2>1 DEF Answered, GoOn, sendVars, pastVars
    <3> QED
      BY <3>1, <3>2, SameKept, AccountCarried
  <2> QED
    BY <1>2, <1>4, <2>1 DEF Answered
<1>5. CASE CancelLanded(c)
  <2>1. closed' = closed /\ owed' = owed /\ lines' = lines /\ reader[c] # "answering"
    BY <1>5 DEF CancelLanded, pastVars
  <2>2. CASE Owing(c)
    <3> DEFINE m == Answer("result", lines[c])
    <3>1. lines[c] \in Nat /\ owed[c] \in Seq(Nat)
      BY DEF DeliveryTypeOK
    <3>2. m \in Messages /\ m.id = lines[c] /\ IsAnswer(m)
      BY <3>1, AnswerTypes, AnswerIds DEF IsAnswer
    <3>3. Reply(c, m, "read")
      BY <1>5, <2>2 DEF CancelLanded, Owing
    <3> HIDE DEF m
    <3>4. /\ c \in closed => wire[c] = <<>>
          /\ c \notin closed => Debt(wire[c], Unwritten(lock[c]), owed'[c], m.id)
      BY <2>1, <2>2, <3>2 DEF AccountAt
    <3> QED
      BY <2>1, <3>1, <3>2, <3>3, <3>4, AccountPaid
  <2>3. CASE ~Owing(c)
    <3>1. UNCHANGED sendVars /\ ~Owing(c)'
      BY <1>5, <2>3 DEF CancelLanded, Owing, GoOn, DeliveryTypeOK
    <3>2. lock' = lock /\ wire' = wire
      BY <3>1 DEF sendVars
    <3> QED
      BY <2>1, <2>3, <3>1, <3>2, SameKept, AccountCarried
  <2> QED
    BY <2>2, <2>3
<1> QED
  BY <1>1, <1>2, <1>3, <1>4, <1>5 DEF Client, Connection

(* The runs and their heartbeats answer nothing. *)
LEMMA RunCarried ==
  ASSUME DeliveryTypeOK, StageInv, ReaderInv, WhoInv, NEW r \in Runs,
         Run(r) \/ HeartbeatStep(r) \/ Beat(r), NEW c \in Conns
  PROVE  /\ c \notin closed => Carried(c)
         /\ c \in closed => wire'[c] = wire[c]
         /\ UNCHANGED <<reader, then, lines, closed, owed>>
<1> DEFINE Fine == /\ c \notin closed => Carried(c)
                   /\ c \in closed => wire'[c] = wire[c]
<1>1. UNCHANGED <<reader, then, lines, closed, owed>>
  BY DEF Run, HeartbeatStep, Begin, Subscribe, Speak, Tell, RecordTurn, Finish, BeginOutcome, Done,
         CancelDelivered, Unwound, SpeakBeat, BeatEnds, Beat, connVars, pastVars
<1>2. ASSUME NEW s \in Speakers, NEW m \in Messages, ~IsAnswer(m), Tell(s, m), s \in DOMAIN left
      PROVE  Fine
  <2>1. PICK d \in left[s] : Send(d, s, m) /\ ~Sending(s)
    BY <1>2 DEF Tell
  <2>2. d \in Conns
    BY <1>2 DEF DeliveryTypeOK
  <2>3. CASE d = c
    BY <1>2, <2>1, <2>2, <2>3, SendSpeaks
  <2>4. CASE d # c
    <3>1. lock'[c] = lock[c] /\ wire'[c] = wire[c]
      BY <2>1, <2>4 DEF Send, Set, DeliveryTypeOK
    <3> QED
      BY <3>1, SameKept
  <2> QED
    BY <2>3, <2>4
<1>3. ASSUME NEW s \in {Task(r), Pulse(r)}, Silence(s) PROVE Fine
  <2>1. \A i \in DOMAIN lock[c] : lock[c][i][1] = s => ~IsAnswer(lock[c][i][2])
    BY SpeakersDiffer DEF WhoInv
  <2>2. AnswerOnce(c)
    BY IdleReader
  <2> QED
    BY <1>3, <2>1, <2>2, SilenceKept
<1>4. ASSUME UNCHANGED sendVars PROVE Fine
  <2>1. lock'[c] = lock[c] /\ wire'[c] = wire[c]
    BY <1>4 DEF sendVars
  <2> QED
    BY <2>1, SameKept
<1>5. CASE Speak(r)
  <2>1. \E what \in NoticeKinds : Says(r) = Notice(what, r)
    BY <1>5 DEF Speak, Says, StageInv, StageOf, Outcomes, NoticeKinds
  <2>2. Says(r) \in Messages /\ ~IsAnswer(Says(r))
    BY <2>1, RunMessages
  <2>3. Task(r) \in Speakers /\ Task(r) \in DOMAIN left
    BY SpeakersDiffer DEF DeliveryTypeOK
  <2>4. Tell(Task(r), Says(r))
    BY <1>5 DEF Speak
  <2> QED
    BY <1>1, <1>2, <2>2, <2>3, <2>4
<1>6. CASE SpeakBeat(r)
  <2>1. Pulse(r) \in Speakers /\ Pulse(r) \in DOMAIN left
    BY SpeakersDiffer DEF DeliveryTypeOK
  <2>2. Notice("heartbeat", r) \in Messages /\ ~IsAnswer(Notice("heartbeat", r))
    BY RunMessages DEF NoticeKinds
  <2>3. Tell(Pulse(r), Notice("heartbeat", r))
    BY <1>6 DEF SpeakBeat
  <2> QED
    BY <1>1, <1>2, <2>1, <2>2, <2>3
<1>7. CASE CancelDelivered(r) \/ BeatEnds(r)
  BY <1>1, <1>3, <1>7 DEF CancelDelivered, BeatEnds
<1>8. CASE Begin(r) \/ RecordTurn(r) \/ Finish(r) \/ BeginOutcome(r) \/ Done(r) \/ Unwound(r) \/ Beat(r)
  BY <1>1, <1>4, <1>8 DEF Begin, RecordTurn, Finish, BeginOutcome, Done, Unwound, Beat
<1> QED
  BY <1>5, <1>6, <1>7, <1>8 DEF Run, HeartbeatStep

LEMMA AccountStep ==
  ASSUME DeliveryTypeOK, StageInv, ReaderInv, WhoInv, AccountInv, [Next]_vars
  PROVE  AccountInv'
<1> SUFFICES ASSUME NEW c \in Conns PROVE AccountAt(c)'
  BY DEF AccountInv
<1>1. AccountAt(c)
  BY DEF AccountInv
<1>2. CASE UNCHANGED vars
  <2>1. UNCHANGED <<reader, then, lines, closed, owed, lock, wire>>
    BY <1>2 DEF vars, connVars, sendVars, pastVars
  <2> QED
    BY <1>1, <2>1, SameKept, AccountCarried DEF Owing
<1>3. ASSUME NEW d \in Conns, Client(d) \/ Connection(d) PROVE AccountAt(c)'
  <2>1. CASE d = c
    BY <1>1, <1>3, <2>1, ConnectionAccount
  <2>2. CASE d # c
    <3>1. /\ reader'[c] = reader[c] /\ then'[c] = then[c] /\ lines'[c] = lines[c]
          /\ owed'[c] = owed[c] /\ lock'[c] = lock[c] /\ wire'[c] = wire[c]
          /\ c \in closed <=> c \in closed'
      BY <1>3, <2>2, ConnectionOnly DEF Only
    <3> QED
      BY <1>1, <3>1, SameKept, AccountCarried DEF Owing
  <2> QED
    BY <2>1, <2>2
<1>4. ASSUME NEW r \in Runs, Run(r) \/ HeartbeatStep(r) \/ Beat(r) PROVE AccountAt(c)'
  BY <1>1, <1>4, RunCarried, AccountCarried DEF Owing
<1> QED
  BY <1>2, <1>3, <1>4 DEF Next

-----------------------------------------------------------------------------
(* The theorems *)

LEMMA InitInv == Init => Inv
<1> SUFFICES ASSUME Init PROVE Inv
  OBVIOUS
<1> USE DEF Init
<1>1. \A c \in Conns : lock[c] = <<>> /\ wire[c] = <<>> /\ Said(c) = {}
  BY DEF Said
<1>2. DeliveryTypeOK
  <2>1. ControlTypeOK
    BY DEF ControlTypeOK
  <2>2. lock \in [Conns -> Seq(Speakers \X Messages)] /\ wire \in [Conns -> Seq(Messages)]
    OBVIOUS
  <2> QED
    BY <1>1, <2>1, <2>2 DEF DeliveryTypeOK, ControlTypeOK
<1>6. AccountInv
  <2>1. Places(<<>>) = {} /\ Unwritten(<<>>) = {} /\ Cardinality(Places(<<>>)) = 0 /\ Len(<<>>) = 0
    BY NoneUnwritten, FS_EmptySet DEF Places
  <2>2. Ledger(<<>>, Unwritten(<<>>), <<>>)
    BY <2>1 DEF Ledger, Matches
  <2>3. \A c \in Conns : owed[c] = <<>> /\ ~Owing(c)
    BY DEF Owing
  <2> QED
    BY <1>1, <2>2, <2>3 DEF AccountInv, AccountAt
<1>3. StageInv /\ EndInv
  BY DEF StageInv, StageOf, Accepting, EndInv
<1>4. SaidInv /\ ReaderInv /\ WhoInv
  BY <1>1 DEF SaidInv, ReaderInv, WhoInv
<1>5. OrderInv
  BY <1>1 DEF OrderInv, InOrder
<1> QED
  BY <1>2, <1>3, <1>4, <1>5, <1>6 DEF Inv

LEMMA NextInv == Inv /\ [Next]_vars => Inv'
<1> SUFFICES ASSUME Inv, [Next]_vars PROVE Inv'
  OBVIOUS
<1> USE DEF Inv
<1>1. StepSpeech /\ Controlled
  BY NextSpeech, NextControl, ControlType
<1>2. DeliveryTypeOK' /\ StageInv'
  BY <1>1, TypeStep DEF Controlled
<1>3. SaidInv' /\ ReaderInv' /\ WhoInv' /\ OrderInv' /\ EndInv' /\ AccountInv'
  BY <1>1, SaidStep, ReaderStep, WhoStep, OrderStep, EndStep, AccountStep
<1> QED
  BY <1>2, <1>3

LEMMA AlwaysInv == Spec => []Inv
  BY InitInv, NextInv, PTL DEF Spec

(* Every variable keeps its type, and no coroutine waits twice for a send  *)
(* lock (ClientSession._send and its callers).                             *)
THEOREM DeliveryTypeCorrect == Spec => []DeliveryTypeOK
<1>1. Inv => DeliveryTypeOK
  BY DEF Inv
<1> QED
  BY <1>1, AlwaysInv, PTL

(* A client reads of a run its acceptance first, one outcome at most, and  *)
(* nothing after it.                                                       *)
THEOREM NoticesInOrder == Spec => []RunReadInOrder
<1>1. Inv => RunReadInOrder
  BY DEF Inv, OrderInv, InOrder, Fits, RunReadInOrder
<1> QED
  BY <1>1, AlwaysInv, PTL

(* The answer to session.attach and the notices before it fit together.    *)
THEOREM SnapshotsInOrder == Spec => []SnapshotFitsNotices
<1>1. Inv => SnapshotFitsNotices
  <2> SUFFICES ASSUME Inv, NEW c \in Conns, NEW i \in DOMAIN wire[c], wire[c][i].kind = "attached",
                      NEW j \in 1 .. i - 1, wire[c][j].kind \in Outcomes
               PROVE  /\ wire[c][j].run \notin wire[c][i].active
                      /\ wire[c][j].kind = "completed" => wire[c][j].run \in wire[c][i].history
    BY DEF SnapshotFitsNotices
  <2>1. j \in DOMAIN wire[c] /\ j < i
    BY SpeechType DEF Inv
  <2>2. Fits(wire[c][j], wire[c][i])
    BY <2>1 DEF Inv, OrderInv, InOrder
  <2> QED
    BY <2>2 DEF Fits
<1> QED
  BY <1>1, AlwaysInv, PTL

(* When the task of a run is done, every endpoint that is not closed has   *)
(* read its outcome once, or came when it was over.                        *)
THEOREM EndReachesEveryone == Spec => []EndReachesAudience
<1>1. Inv => EndReachesAudience
  <2> SUFFICES ASSUME Inv, NEW r \in Runs, stage[r] = "done", state[r] \in Outcomes,
                      NEW c \in sinks \ closed
               PROVE  \/ Cardinality(Positions(c, state[r], r)) = 1
                      \/ r \in ended[c] /\ (state[r] = "completed" => r \in history)
    BY DEF EndReachesAudience
  <2>1. CASE r \in ended[c]
    BY <2>1 DEF Inv, StageInv, StageOf
  <2>2. CASE \E i \in DOMAIN wire[c] : wire[c][i] = Notice(state[r], r)
    <3> DEFINE m == Notice(state[r], r)
    <3>1. PICK i \in DOMAIN wire[c] : wire[c][i] = m
      BY <2>2
    <3>2. c \in Conns /\ DOMAIN wire[c] \subseteq Int
      BY SpeechType DEF Inv, DeliveryTypeOK
    <3>3. ~Fits(m, m)
      BY OutcomesAreNotices DEF Fits, Notice
    <3>4. ASSUME NEW j \in DOMAIN wire[c], wire[c][j] = m PROVE j = i
      <4>1. ~(i < j) /\ ~(j < i)
        BY <3>1, <3>2, <3>3, <3>4 DEF Inv, OrderInv, InOrder
      <4> QED
        BY <3>1, <3>2, <4>1
    <3>5. Positions(c, state[r], r) = {i}
      BY <3>1, <3>4 DEF Positions
    <3> QED
      BY <3>5, FS_Singleton
  <2> QED
    BY <2>1, <2>2 DEF Inv, EndInv
<1> QED
  BY <1>1, AlwaysInv, PTL

(* Every line is answered as the protocol wants it, in order, and while    *)
(* the loop reads nothing is owed (_process_line, _send_result).           *)
THEOREM EveryLineAnswered == Spec => []LinesAnswered
<1>1. Inv => LinesAnswered
  <2> SUFFICES ASSUME Inv, NEW c \in Conns
               PROVE  /\ Matches(wire[c], owed[c])
                      /\ reader[c] = "reading" /\ c \notin closed =>
                             Cardinality(Places(wire[c])) = Len(owed[c])
    BY DEF LinesAnswered, Matches
  <2>1. AccountAt(c)
    BY DEF Inv, AccountInv
  <2>2. CASE c \in closed
    <3>1. Places(wire[c]) = {}
      BY <2>1, <2>2 DEF AccountAt, Places
    <3> QED
      BY <2>2, <3>1 DEF Matches
  <2>3. CASE c \notin closed
    <3>1. Matches(wire[c], owed[c])
      BY <2>1, <2>3 DEF AccountAt, Ledger, Debt
    <3>2. ASSUME reader[c] = "reading" PROVE Cardinality(Places(wire[c])) = Len(owed[c])
      <4>1. Unwritten(lock[c]) = {}
        BY <3>2, IdleReader DEF Inv
      <4>2. Ledger(wire[c], {}, owed[c])
        BY <2>1, <2>3, <3>2, <4>1 DEF AccountAt, Owing
      <4> QED
        BY <4>2 DEF Ledger
    <3> QED
      BY <3>1, <3>2
  <2> QED
    BY <2>2, <2>3
<1> QED
  BY <1>1, AlwaysInv, PTL

=============================================================================
