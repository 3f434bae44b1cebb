-------------------------- MODULE CommandGateProofs -------------------------
(***************************************************************************)
(* Proofs about CommandGate for any set of requests, queue limit, length   *)
(* of a compound request and number of USB sessions: the queue is in rank  *)
(* order and holds only requests of the present session, and the line on   *)
(* the wire is the guest's or the owner's.                                 *)
(***************************************************************************)
EXTENDS CommandGate, WellFoundedInduction, SequenceTheorems, TLAPS

\* Positions i and j of a queue hold two requests, in rank order.
Ordered(q, k) ==
  \A i, j \in 1 .. Len(q) : i < j => q[i] # q[j] /\ Rank(k[q[i]]) <= Rank(k[q[j]])

\* The queue: in order, all of it waiting and made in this session, and behind
\* the waiting requests of its class that were made before.
QueueInv ==
  /\ Ordered(queue, cls)
  /\ \A i \in 1 .. Len(queue) :
       /\ st[queue[i]] = "queued" /\ gen[queue[i]] = session
       /\ \A x \in older[queue[i]] : st[x] = "queued" => \E j \in 1 .. i - 1 : x = queue[j]
  /\ \A r \in Req : st[r] = "queued" => \E i \in 1 .. Len(queue) : r = queue[i]

\* Who holds the gate and whose line is on the wire.
OwnerInv ==
  /\ current = None <=> phase = "idle"
  /\ phase = "idle" => queue = <<>>
  /\ current # None => st[current] = "running"
  /\ guest # None => phase = "wire" /\ st[guest] = "running" /\ guest # current
  /\ \A r \in Req : st[r] = "running" => r \in {current, guest}
  /\ collector = IF phase # "wire" THEN None ELSE IF guest # None THEN guest ELSE current

\* A line needs the port, and the port the session the owner was made in.
PortInv ==
  /\ phase = "wire" => link \in {"connected", "error"}
  /\ link = "connected" /\ current # None => gen[current] = session

\* The lines of the owner: a request of one line has just been dispatched when
\* it is about to send, and then nothing urgent waits behind it.
LinesInv ==
  current # None =>
    /\ left <= lines[current]
    /\ phase = "ready" \/ guest # None => left > 0
    /\ phase = "wire" /\ guest = None => left < lines[current]
    /\ guest # None => lines[current] > 1
    /\ phase = "ready" /\ lines[current] = 1 /\ cls[current] # "urgent" =>
         \A i \in 1 .. Len(queue) : cls[queue[i]] # "urgent"

\* What the gate rejected, or keeps waiting, has put nothing on the wire.
WroteInv == \A r \in Req : st[r] \in {"queued", "refused"} => r \notin wrote

GateInv == TypeOK /\ QueueInv /\ OwnerInv /\ PortInv /\ LinesInv /\ WroteInv

-----------------------------------------------------------------------------
(* The queue's operations.                                                 *)

LEMMA MinFacts ==
  ASSUME NEW I \in SUBSET Nat, I # {}
  PROVE  Min(I) \in I /\ \A i \in I : Min(I) <= i
<1>1. IsWellFoundedOn(OpToRel(<, Nat), Nat)
  BY NatLessThanWellFounded
<1>2. PICK m \in I : \A i \in I : ~ (<<i, m>> \in OpToRel(<, Nat))
  BY <1>1, WFMin
<1>3. ASSUME NEW i \in Nat, i < m PROVE <<i, m>> \in OpToRel(<, Nat)
  BY <1>3 DEF OpToRel
<1>4. \A i \in I : ~(i < m)
  BY <1>2, <1>3
<1>5. \A i \in I : m <= i
  BY <1>4
<1> QED
  BY <1>5 DEF Min

\* Sequence t is q with r put in at p.
With(t, q, n, p, r) ==
  /\ t \in Seq(Req) /\ Len(t) = n + 1
  /\ \A j \in 1 .. n + 1 : t[j] = IF j < p THEN q[j] ELSE IF j = p THEN r ELSE q[j - 1]

LEMMA Splice ==
  ASSUME NEW q \in Seq(Req), NEW r \in Req, NEW n, n = Len(q), NEW p \in 1 .. n + 1
  PROVE  With(SubSeq(q, 1, p - 1) \o <<r>> \o SubSeq(q, p, n), q, n, p, r)
<1> DEFINE a == SubSeq(q, 1, p - 1)
           b == SubSeq(q, p, n)
           ar == a \o <<r>>
           t == ar \o b
<1>1. n \in Nat /\ \A i \in 1 .. n : q[i] \in Req
  BY LenProperties, ElementOfSeq
<1>2. /\ a \in Seq(Req) /\ Len(a) = p - 1
      /\ \A i \in 1 .. p - 1 : a[i] = q[i]
  BY <1>1, SubSeqProperties
<1>3. /\ b \in Seq(Req) /\ Len(b) = n - p + 1
      /\ \A i \in 1 .. n - p + 1 : b[i] = q[p + i - 1]
  BY <1>1, SubSeqProperties
<1>4. <<r>> \in Seq(Req) /\ Len(<<r>>) = 1 /\ <<r>>[1] = r
  OBVIOUS
<1>5. /\ ar \in Seq(Req) /\ Len(ar) = p - 1 + 1
      /\ \A i \in 1 .. p - 1 + 1 : ar[i] = IF i <= p - 1 THEN a[i] ELSE <<r>>[i - (p - 1)]
  BY <1>2, <1>4, ConcatProperties
<1> HIDE DEF a, b, ar
<1>6. Len(ar) = p /\ p - 1 + 1 = p
  BY <1>1, <1>5
<1>7. ASSUME NEW i \in 1 .. p PROVE ar[i] = IF i < p THEN q[i] ELSE r
  <2>1. CASE i = p
    <3>1. i - (p - 1) = 1 /\ ~(i <= p - 1)
      BY <1>1, <2>1
    <3> QED
      BY <1>4, <1>5, <1>6, <1>7, <2>1, <3>1
  <2>2. CASE i < p
    <3>1. i \in 1 .. p - 1 /\ i <= p - 1
      BY <1>1, <2>2
    <3> QED
      BY <1>2, <1>5, <1>6, <1>7, <2>2, <3>1
  <2> QED
    BY <1>1, <2>1, <2>2
<1>8. /\ t \in Seq(Req) /\ Len(t) = p + (n - p + 1)
      /\ \A j \in 1 .. p + (n - p + 1) : t[j] = IF j <= p THEN ar[j] ELSE b[j - p]
  BY <1>3, <1>5, <1>6, ConcatProperties
<1> HIDE DEF t
<1>9. p + (n - p + 1) = n + 1
  BY <1>1
<1>10. ASSUME NEW j \in 1 .. n + 1
       PROVE  t[j] = IF j < p THEN q[j] ELSE IF j = p THEN r ELSE q[j - 1]
  <2>1. CASE j <= p
    <3>1. j \in 1 .. p /\ (j < p \/ j = p)
      BY <1>1, <2>1
    <3>2. t[j] = ar[j]
      BY <1>8, <1>9, <2>1
    <3> QED
      BY <1>7, <3>1, <3>2
  <2>2. CASE ~(j <= p)
    <3>1. j - p \in 1 .. n - p + 1 /\ p + (j - p) - 1 = j - 1 /\ ~(j < p) /\ j # p
      BY <1>1, <2>2
    <3>2. t[j] = b[j - p]
      BY <1>8, <1>9, <2>2
    <3>3. b[j - p] = q[p + (j - p) - 1]
      BY <1>3, <3>1
    <3> QED
      BY <3>1, <3>2, <3>3
  <2> QED
    BY <2>1, <2>2
<1> QED
  BY <1>8, <1>9, <1>10 DEF t, ar, a, b, With

\* Inserting: the queue up to a position, the request, the rest.
LEMMA InsertFacts ==
  ASSUME NEW q \in Seq(Req), NEW r \in Req, NEW c \in Class, NEW n, n = Len(q)
  PROVE  \E p \in 1 .. n + 1 :
           /\ With(Insert(q, r, c), q, n, p, r)
           /\ \A j \in 1 .. p - 1 : ~(Rank(cls[q[j]]) > Rank(c))
           /\ p <= n => Rank(cls[q[p]]) > Rank(c)
<1> DEFINE Lower(i) == Rank(cls[q[i]]) > Rank(c)
           I == {i \in 1 .. n : Lower(i)}
           s == SelectInSeq(q, LAMBDA x : Rank(cls[x]) > Rank(c))
           p == IF s = 0 THEN n + 1 ELSE s
<1>1. s = IF I # {} THEN Min(I) ELSE 0
  BY DEF SelectInSeq
<1>2. Insert(q, r, c) = SubSeq(q, 1, p - 1) \o <<r>> \o SubSeq(q, p, n)
  BY DEF Insert, InsertAt
<1>3. n \in Nat
  BY LenProperties
<1> HIDE DEF Lower
<1>4. I \in SUBSET Nat /\ \A i \in 1 .. n : i \in I <=> Lower(i)
  BY <1>3
<1>5. \A i \in I : i \in 1 .. n
  OBVIOUS
<1> HIDE DEF I, s
<1>6. /\ p \in 1 .. n + 1
      /\ \A j \in 1 .. p - 1 : ~Lower(j)
      /\ p <= n => Lower(p)
  <2>1. CASE I = {}
    <3>1. s = 0
      BY <1>1, <2>1
    <3>2. p = n + 1
      BY <3>1
    <3> HIDE DEF p
    <3>3. \A j \in 1 .. n : ~Lower(j)
      BY <1>4, <2>1
    <3>4. p - 1 = n /\ ~(p <= n) /\ p \in 1 .. n + 1
      BY <1>3, <3>2
    <3> QED
      BY <3>3, <3>4
  <2>2. CASE I # {}
    <3>1. s \in I /\ \A i \in I : s <= i
      BY <1>1, <1>4, <2>2, MinFacts
    <3>2. s \in 1 .. n
      BY <1>5, <3>1
    <3>3. p = s
      BY <1>3, <3>2
    <3> HIDE DEF p
    <3>4. \A j \in 1 .. p - 1 : j \in 1 .. n /\ ~(s <= j)
      BY <1>3, <3>2, <3>3
    <3>5. \A j \in 1 .. p - 1 : ~Lower(j)
      BY <1>4, <3>1, <3>4
    <3> QED
      BY <1>3, <1>4, <3>1, <3>2, <3>3, <3>5
  <2> QED
    BY <2>1, <2>2
<1> HIDE DEF p
<1>7. With(Insert(q, r, c), q, n, p, r)
  BY <1>2, <1>6, Splice
<1> QED
  BY <1>6, <1>7 DEF Lower

\* Sequence t is q without its element at p.
Without(t, q, p) ==
  /\ t \in Seq(Req) /\ Len(t) = Len(q) - 1
  /\ \A j \in 1 .. Len(q) - 1 : t[j] = IF j < p THEN q[j] ELSE q[j + 1]

LEMMA RemoveFacts ==
  ASSUME NEW q \in Seq(Req), NEW r \in Req, NEW n, n = Len(q), NEW p \in 1 .. n, q[p] = r,
         \A i \in 1 .. n : q[i] = r => i = p
  PROVE  Without(RemoveFirst(q, r), q, p)
<1> DEFINE I == {i \in 1 .. n : q[i] = r}
           a == SubSeq(q, 1, p - 1)
           b == SubSeq(q, p + 1, n)
           t == a \o b
<1>1. n \in Nat /\ \A i \in 1 .. n : q[i] \in Req
  BY LenProperties, ElementOfSeq
<1>2. SelectInSeq(q, LAMBDA v : v = r) = p
  <2>1. SelectInSeq(q, LAMBDA v : v = r) = IF I # {} THEN Min(I) ELSE 0
    BY DEF SelectInSeq
  <2>2. p \in I /\ I \in SUBSET Nat /\ \A i \in I : i = p
    BY <1>1
  <2> HIDE DEF I
  <2>3. Min(I) \in I
    BY <2>2, MinFacts
  <2> QED
    BY <2>1, <2>2, <2>3
<1>3. RemoveFirst(q, r) = t
  <2>1. \E i \in 1 .. Len(q) : q[i] = r
    OBVIOUS
  <2>2. RemoveFirst(q, r) = RemoveAt(q, SelectInSeq(q, LAMBDA v : v = r))
    BY <2>1 DEF RemoveFirst
  <2> QED
    BY <1>2, <2>2 DEF RemoveAt
<1>4. /\ a \in Seq(Req) /\ Len(a) = p - 1
      /\ \A i \in 1 .. p - 1 : a[i] = q[i]
  BY <1>1, SubSeqProperties
<1>5. /\ b \in Seq(Req) /\ Len(b) = n - p
      /\ \A i \in 1 .. n - p : b[i] = q[p + i]
  <2>1. /\ b \in Seq(Req) /\ Len(b) = IF p + 1 <= n THEN n - (p + 1) + 1 ELSE 0
        /\ \A i \in 1 .. n - (p + 1) + 1 : b[i] = q[p + 1 + i - 1]
    BY <1>1, SubSeqProperties
  <2> HIDE DEF b
  <2>2. n - (p + 1) + 1 = n - p /\ ~(p + 1 <= n) => n - p = 0
    BY <1>1
  <2>3. \A i \in 1 .. n - p : p + 1 + i - 1 = p + i
    BY <1>1
  <2> QED
    BY <2>1, <2>2, <2>3
<1> HIDE DEF a, b
<1>6. /\ t \in Seq(Req) /\ Len(t) = p - 1 + (n - p)
      /\ \A j \in 1 .. p - 1 + (n - p) : t[j] = IF j <= p - 1 THEN a[j] ELSE b[j - (p - 1)]
  <2>1. /\ t \in Seq(Req) /\ Len(t) = Len(a) + Len(b)
        /\ \A j \in 1 .. Len(a) + Len(b) : t[j] =
             IF j <= Len(a) THEN a[j] ELSE b[j - Len(a)]
    <3>1. a \in Seq(Req) /\ b \in Seq(Req)
      BY <1>4, <1>5
    <3> QED
      BY <3>1, ConcatProperties
  <2> HIDE DEF t
  <2> QED
    BY <1>4, <1>5, <2>1
<1> HIDE DEF t
<1>7. p - 1 + (n - p) = n - 1
  BY <1>1
<1>8. ASSUME NEW j \in 1 .. n - 1 PROVE t[j] = IF j < p THEN q[j] ELSE q[j + 1]
  <2>1. CASE j < p
    <3>1. j <= p - 1 /\ j \in 1 .. p - 1
      BY <1>1, <2>1
    <3> QED
      BY <1>4, <1>6, <1>7, <2>1, <3>1
  <2>2. CASE ~(j < p)
    <3>1. ~(j <= p - 1) /\ j - (p - 1) \in 1 .. n - p /\ p + (j - (p - 1)) = j + 1
      BY <1>1, <2>2
    <3>2. t[j] = b[j - (p - 1)]
      BY <1>6, <1>7, <3>1
    <3>3. b[j - (p - 1)] = q[p + (j - (p - 1))]
      BY <1>5, <3>1
    <3> QED
      BY <2>2, <3>1, <3>2, <3>3
  <2> QED
    BY <2>1, <2>2
<1> QED
  BY <1>3, <1>6, <1>7, <1>8 DEF Without

\* The rest of a queue is the queue without its first request.
LEMMA TailFacts ==
  ASSUME NEW q \in Seq(Req), q # <<>>
  PROVE  /\ Len(q) \in Nat \ {0} /\ Head(q) = q[1]
         /\ Without(Tail(q), q, 1) /\ Without(SubSeq(q, 2, Len(q)), q, 1)
<1> DEFINE n == Len(q)
           t == Tail(q)
<1>1. n \in Nat \ {0} /\ Head(q) = q[1]
  BY EmptySeq
<1>2. t \in Seq(Req) /\ Len(t) = n - 1 /\ \A i \in 1 .. Len(t) : t[i] = q[i + 1]
  BY HeadTailProperties
<1>3. t = SubSeq(q, 2, n)
  BY TailIsSubSeq
<1>4. Without(t, q, 1)
  <2> HIDE DEF n, t
  <2>1. \A j \in 1 .. n - 1 : ~(j < 1)
    BY <1>1
  <2> QED
    BY <1>2, <2>1 DEF Without, n
<1> QED
  BY <1>1, <1>3, <1>4

\* pump() when every request of the queue is of this session takes the first.
Pumped(q, s, k) ==
  IF q = <<>>
  THEN /\ queue' = <<>> /\ current' = None /\ guest' = None
       /\ left' = 0 /\ phase' = "idle" /\ st' = [r \in Req |-> s[r]]
  ELSE /\ Without(queue', q, 1) /\ current' = q[1] /\ guest' = None
       /\ left' = k[q[1]] /\ phase' = "ready"
       /\ st' = [r \in Req |-> IF r = q[1] THEN "running" ELSE s[r]]

LEMMA PumpFacts ==
  ASSUME NEW q \in Seq(Req), NEW s, NEW g, NEW k,
         \A i \in 1 .. Len(q) : g[q[i]] = session',
         Pump(q, s, g, k)
  PROVE  Pumped(q, s, k)
<1> DEFINE n == Len(q)
           I == {i \in 1 .. n : g[q[i]] = session'}
           w == SelectInSeq(q, LAMBDA x : g[x] = session')
           taken == IF w = 0 THEN n ELSE w
           first == IF w = 0 THEN None ELSE q[w]
           dead  == {q[j] : j \in 1 .. taken} \ {first}
<1>1. w = IF I # {} THEN Min(I) ELSE 0
  BY DEF SelectInSeq
<1>2. /\ queue' = SubSeq(q, taken + 1, n)
      /\ current' = first /\ guest' = None
      /\ left' = IF first = None THEN 0 ELSE k[first]
      /\ phase' = IF first = None THEN "idle" ELSE "ready"
      /\ st' = [r \in Req |-> IF r \in dead THEN "refused"
                              ELSE IF r = first THEN "running" ELSE s[r]]
  <2> DEFINE upto(i) == IF i = 0 THEN n ELSE i
             at(i) == IF i = 0 THEN None ELSE q[i]
             gone(i) == {q[j] : j \in 1 .. upto(i)} \ {at(i)}
             Takes(i) ==
               /\ queue' = SubSeq(q, upto(i) + 1, n)
               /\ current' = at(i) /\ guest' = None
               /\ left' = IF at(i) = None THEN 0 ELSE k[at(i)]
               /\ phase' = IF at(i) = None THEN "idle" ELSE "ready"
               /\ st' = [r \in Req |-> IF r \in gone(i) THEN "refused"
                                       ELSE IF r = at(i) THEN "running" ELSE s[r]]
  <2>1. \E i \in {w} : Takes(i)
    BY Zenon DEF Pump
  <2>2. Takes(w)
    <3> HIDE DEF w, Takes
    <3> QED
      BY <2>1
  <2> QED
    BY <2>2, Zenon
<1>3. CASE q = <<>>
  <2>1. n = 0
    BY <1>3, EmptySeq
  <2>2. I = {}
    BY <2>1
  <2>3. w = 0
    BY <1>1, <2>2
  <2>4. taken = 0 /\ first = None
    BY <2>1, <2>3
  <2> HIDE DEF w, taken, first
  <2>5. dead = {}
    <3>1. 1 .. taken = {}
      BY <2>4
    <3> QED
      BY <3>1
  <2>6. SubSeq(q, taken + 1, n) = <<>>
    BY <2>1, <2>4, SubSeqEmpty
  <2>7. \A r \in Req : r # None
    BY GateAssumption
  <2> HIDE DEF n, I, dead
  <2> QED
    BY <1>2, <1>3, <2>4, <2>5, <2>6, <2>7 DEF Pumped
<1>4. CASE q # <<>>
  <2>1. /\ n \in Nat \ {0} /\ q[1] \in Req /\ q[1] # None
        /\ Without(SubSeq(q, 2, n), q, 1)
    <3>1. n \in Nat \ {0} /\ Without(SubSeq(q, 2, n), q, 1)
      BY <1>4, TailFacts
    <3> HIDE DEF n
    <3>2. 1 \in 1 .. n
      BY <3>1
    <3>3. q[1] \in Req
      BY <3>2, ElementOfSeq DEF n
    <3> QED
      BY <3>1, <3>3, GateAssumption DEF n
  <2>2. I = 1 .. n
    OBVIOUS
  <2> HIDE DEF I
  <2>3. I \in SUBSET Nat /\ 1 \in I
    BY <2>1, <2>2
  <2>4. Min(I) \in I /\ Min(I) <= 1
    BY <2>3, MinFacts
  <2>5. \A i \in I : i <= 1 => i = 1
    BY <2>1, <2>2
  <2>6. w = 1
    BY <1>1, <2>3, <2>4, <2>5
  <2> HIDE DEF w
  <2>7. taken = 1 /\ first = q[1]
    BY <2>6
  <2>8. dead = {}
    BY <2>7
  <2> HIDE DEF n, taken, first, dead
  <2>9. taken + 1 = 2
    BY <2>7
  <2> QED
    BY <1>2, <1>4, <2>1, <2>7, <2>8, <2>9 DEF Pumped
<1> QED
  BY <1>3, <1>4

-----------------------------------------------------------------------------
(* The queue through a step.                                               *)

\* A request leaves the queue and is no longer waiting; the others stay.
LEMMA QueueLoses ==
  ASSUME TypeOK, QueueInv, NEW p \in 1 .. Len(queue), Without(queue', queue, p),
         st'[queue[p]] # "queued",
         \A r \in Req : r # queue[p] => (st'[r] = "queued" <=> st[r] = "queued"),
         UNCHANGED <<session, cls, gen, older>>
  PROVE  QueueInv'
<1> DEFINE n == Len(queue)
           m == Len(queue')
           From(j) == IF j < p THEN j ELSE j + 1
<1>1. /\ n \in Nat /\ m = n - 1 /\ p \in 1 .. n
      /\ \A i \in 1 .. n : queue[i] \in Req
      /\ \A j \in 1 .. m : queue'[j] = queue[From(j)]
  <2>1. n \in Nat /\ \A i \in 1 .. n : queue[i] \in Req
    BY LenProperties, ElementOfSeq DEF TypeOK
  <2>2. m = n - 1 /\ \A j \in 1 .. n - 1 : queue'[j] = queue[From(j)]
    BY DEF Without
  <2> QED
    BY <2>1, <2>2
<1>2. /\ \A i, j \in 1 .. n : i < j => queue[i] # queue[j] /\ Rank(cls[queue[i]]) <= Rank(cls[queue[j]])
      /\ \A i \in 1 .. n :
           /\ st[queue[i]] = "queued" /\ gen[queue[i]] = session
           /\ \A x \in older[queue[i]] : st[x] = "queued" => \E j \in 1 .. i - 1 : x = queue[j]
      /\ \A r \in Req : st[r] = "queued" => \E i \in 1 .. n : r = queue[i]
      /\ \A r \in Req : older[r] \subseteq Req
  BY DEF QueueInv, Ordered, TypeOK
<1> HIDE DEF n, m
<1>3. /\ \A j \in 1 .. m : From(j) \in 1 .. n /\ From(j) # p
      /\ \A i, j \in 1 .. m : i < j => From(i) < From(j)
  BY <1>1
<1>4. ASSUME NEW i \in 1 .. n, i # p
      PROVE  \E j \in 1 .. m : queue'[j] = queue[i] /\ From(j) = i
  <2>1. CASE i < p
    <3>1. i \in 1 .. m /\ From(i) = i
      BY <1>1, <2>1
    <3> QED
      BY <1>1, <3>1
  <2>2. CASE ~(i < p)
    <3>1. i - 1 \in 1 .. m /\ From(i - 1) = i
      BY <1>1, <1>4, <2>2
    <3> QED
      BY <1>1, <3>1
  <2> QED
    BY <2>1, <2>2
<1> HIDE DEF From
<1>5. \A i \in 1 .. n : i # p => queue[i] # queue[p]
  <2>1. \A i \in 1 .. n : i # p => i < p \/ p < i
    BY <1>1
  <2> QED
    BY <1>1, <1>2, <2>1
<1>6. ASSUME NEW i \in 1 .. m, NEW j \in 1 .. m, i < j
      PROVE  queue'[i] # queue'[j] /\ Rank(cls[queue'[i]]) <= Rank(cls[queue'[j]])
  <2>1. /\ From(i) \in 1 .. n /\ From(j) \in 1 .. n /\ From(i) < From(j)
        /\ queue'[i] = queue[From(i)] /\ queue'[j] = queue[From(j)]
    BY <1>1, <1>3, <1>6
  <2> QED
    BY <1>2, <2>1
<1>7. ASSUME NEW i \in 1 .. m
      PROVE  /\ st'[queue'[i]] = "queued" /\ gen[queue'[i]] = session
             /\ \A x \in older[queue'[i]] : st'[x] = "queued" =>
                  \E j \in 1 .. i - 1 : x = queue'[j]
  <2>1. /\ queue'[i] = queue[From(i)] /\ From(i) \in 1 .. n /\ From(i) # p
        /\ queue'[i] \in Req /\ queue'[i] # queue[p]
    BY <1>1, <1>3, <1>5
  <2>2. st'[queue'[i]] = "queued" /\ gen[queue'[i]] = session
    BY <1>2, <2>1
  <2>3. ASSUME NEW x \in older[queue'[i]], st'[x] = "queued"
        PROVE  \E j \in 1 .. i - 1 : x = queue'[j]
    <3>1. x \in Req /\ x # queue[p] /\ st[x] = "queued"
      BY <1>1, <1>2, <2>1, <2>3
    <3>2. PICK j \in 1 .. From(i) - 1 : x = queue[j]
      BY <1>2, <2>1, <2>3, <3>1
    <3>3. j \in 1 .. n /\ j # p /\ j < From(i)
      BY <1>1, <2>1, <3>1, <3>2
    <3>4. PICK k \in 1 .. m : queue'[k] = queue[j] /\ From(k) = j
      BY <1>4, <3>3
    <3>5. ~(i <= k)
      <4>1. i = k => ~(j < From(i))
        BY <3>3, <3>4
      <4>2. i < k => From(i) < j
        BY <1>3, <3>4
      <4>3. ~(i < k)
        BY <1>1, <2>1, <3>3, <4>2
      <4> QED
        BY <1>1, <3>3, <4>1, <4>3
    <3>6. k \in 1 .. i - 1
      BY <1>1, <3>5
    <3> QED
      BY <3>2, <3>4, <3>6
  <2> QED
    BY <2>2, <2>3
<1>8. ASSUME NEW r \in Req, st'[r] = "queued"
      PROVE  \E i \in 1 .. m : r = queue'[i]
  <2>1. r # queue[p] /\ st[r] = "queued"
    BY <1>8
  <2>2. PICK i \in 1 .. n : r = queue[i]
    BY <1>2, <2>1
  <2> QED
    BY <1>4, <2>1, <2>2
<1> QED
  BY <1>6, <1>7, <1>8 DEF QueueInv, Ordered, m

\* A request takes its place in the queue: those of its class that wait are
\* before it.
LEMMA QueueGains ==
  ASSUME TypeOK, QueueInv, NEW r \in Req, NEW c \in Class,
         st[r] # "queued", queue' = Insert(queue, r, c),
         cls' = [cls EXCEPT ![r] = c], gen' = [gen EXCEPT ![r] = session], session' = session,
         st' = [st EXCEPT ![r] = "queued"],
         older' = [x \in Req |-> IF x = r THEN {q \in Queued : cls[q] = c} ELSE older[x] \ {r}]
  PROVE  /\ queue' \in Seq(Req)
         /\ QueueInv'
<1> DEFINE n == Len(queue)
           m == Len(queue')
<1>0. n \in Nat /\ queue \in Seq(Req) /\ \A i \in 1 .. n : queue[i] \in Req
  BY LenProperties, ElementOfSeq DEF TypeOK
<1>1. PICK p \in 1 .. n + 1 :
        /\ With(Insert(queue, r, c), queue, n, p, r)
        /\ \A j \in 1 .. p - 1 : ~(Rank(cls[queue[j]]) > Rank(c))
        /\ p <= n => Rank(cls[queue[p]]) > Rank(c)
  BY <1>0, InsertFacts
<1>2. /\ queue' \in Seq(Req) /\ m = n + 1
      /\ \A j \in 1 .. m : queue'[j] =
           IF j < p THEN queue[j] ELSE IF j = p THEN r ELSE queue[j - 1]
  BY <1>1 DEF With
<1>3. /\ \A i, j \in 1 .. n : i < j => queue[i] # queue[j] /\ Rank(cls[queue[i]]) <= Rank(cls[queue[j]])
      /\ \A i \in 1 .. n :
           /\ st[queue[i]] = "queued" /\ gen[queue[i]] = session
           /\ \A x \in older[queue[i]] : st[x] = "queued" => \E j \in 1 .. i - 1 : x = queue[j]
      /\ \A x \in Req : st[x] = "queued" => \E i \in 1 .. n : x = queue[i]
      /\ \A x \in Req : older[x] \subseteq Req
      /\ \A x \in Req : cls[x] \in Class
      /\ st \in [Req -> {"idle", "queued", "running", "refused"}]
      /\ cls \in [Req -> Class] /\ gen \in [Req -> 0 .. MaxSession]
  BY DEF QueueInv, Ordered, TypeOK
<1>4. /\ \A x \in Req : x # r => cls'[x] = cls[x] /\ gen'[x] = gen[x] /\ st'[x] = st[x]
      /\ \A x \in Req : x # r => older'[x] = older[x] \ {r}
      /\ cls'[r] = c /\ gen'[r] = session /\ st'[r] = "queued"
      /\ older'[r] = {q \in Req : st[q] = "queued" /\ cls[q] = c}
  BY <1>3 DEF Queued
<1>5. \A i \in 1 .. n : queue[i] # r
  BY <1>3
<1>6. \A k \in Class : Rank(k) \in {0, 1, 2}
  BY DEF Rank
<1> HIDE DEF n, m
<1> DEFINE To(i) == IF i < p THEN i ELSE i + 1
<1>7. /\ \A i \in 1 .. n : To(i) \in 1 .. m /\ To(i) # p /\ queue'[To(i)] = queue[i]
      /\ p \in 1 .. m /\ queue'[p] = r
  <2>1. p \in 1 .. m /\ queue'[p] = r
    BY <1>0, <1>2
  <2>2. ASSUME NEW i \in 1 .. n, i < p
        PROVE  To(i) \in 1 .. m /\ To(i) # p /\ queue'[To(i)] = queue[i]
    BY <1>0, <1>2, <2>2
  <2>3. ASSUME NEW i \in 1 .. n, ~(i < p)
        PROVE  To(i) \in 1 .. m /\ To(i) # p /\ queue'[To(i)] = queue[i]
    <3>1. To(i) = i + 1 /\ i + 1 \in 1 .. m /\ ~(i + 1 < p) /\ i + 1 # p /\ i + 1 - 1 = i
      BY <1>0, <1>2, <2>3
    <3>2. queue'[i + 1] = queue[i + 1 - 1]
      BY <1>2, <3>1
    <3> QED
      BY <3>1, <3>2
  <2> QED
    BY <2>1, <2>2, <2>3
<1>8. ASSUME NEW j \in 1 .. m, j # p
      PROVE  \E i \in 1 .. n : j = To(i) /\ queue'[j] = queue[i]
  <2>1. CASE j < p
    <3>1. j \in 1 .. n /\ To(j) = j
      BY <1>0, <1>2, <2>1
    <3> QED
      BY <1>7, <3>1
  <2>2. CASE ~(j < p)
    <3>1. j - 1 \in 1 .. n /\ To(j - 1) = j
      BY <1>0, <1>2, <1>8, <2>2
    <3> QED
      BY <1>7, <3>1
  <2> QED
    BY <2>1, <2>2
<1>9. /\ \A i, j \in 1 .. n : To(i) < To(j) => i < j
      /\ \A i \in 1 .. n : To(i) < p => i \in 1 .. p - 1
      /\ \A i \in 1 .. n : p < To(i) => p <= n /\ (p = i \/ p < i)
      /\ \A i, j \in 1 .. n : i < j => To(i) < To(j)
      /\ \A i \in 1 .. p - 1 : To(i) = i
      /\ 1 .. p - 1 \subseteq 1 .. n
      /\ p <= n => p \in 1 .. n
  BY <1>0
<1> HIDE DEF To
<1>10. /\ \A i \in 1 .. n : To(i) < p => Rank(cls[queue[i]]) <= Rank(c)
       /\ \A i \in 1 .. n : p < To(i) => Rank(c) < Rank(cls[queue[i]])
  <2>1. ASSUME NEW i \in 1 .. n, To(i) < p PROVE Rank(cls[queue[i]]) <= Rank(c)
    <3>1. ~(Rank(cls[queue[i]]) > Rank(c))
      BY <1>1, <1>9, <2>1
    <3>2. Rank(cls[queue[i]]) \in {0, 1, 2} /\ Rank(c) \in {0, 1, 2}
      BY <1>0, <1>3, <1>6
    <3> QED
      BY <3>1, <3>2
  <2>2. ASSUME NEW i \in 1 .. n, p < To(i) PROVE Rank(c) < Rank(cls[queue[i]])
    <3>1. p <= n /\ p \in 1 .. n /\ (p = i \/ p < i)
      BY <1>9, <2>2
    <3>2. Rank(cls[queue[p]]) > Rank(c)
      BY <1>1, <3>1
    <3>3. Rank(cls[queue[p]]) <= Rank(cls[queue[i]]) \/ p = i
      BY <1>3, <3>1
    <3>4. /\ Rank(cls[queue[i]]) \in {0, 1, 2} /\ Rank(c) \in {0, 1, 2}
          /\ Rank(cls[queue[p]]) \in {0, 1, 2}
      BY <1>0, <1>3, <1>6, <3>1
    <3> QED
      BY <3>2, <3>3, <3>4
  <2> QED
    BY <2>1, <2>2
<1>11. \A i \in 1 .. n : cls'[queue[i]] = cls[queue[i]]
  BY <1>0, <1>4, <1>5
<1>12. ASSUME NEW i \in 1 .. m, NEW j \in 1 .. m, i < j
       PROVE  queue'[i] # queue'[j] /\ Rank(cls'[queue'[i]]) <= Rank(cls'[queue'[j]])
  <2>1. CASE i # p /\ j # p
    BY <1>3, <1>8, <1>9, <1>11, <1>12, <2>1
  <2>2. CASE i = p /\ j # p
    <3>1. PICK k \in 1 .. n : j = To(k) /\ queue'[j] = queue[k]
      BY <1>8, <2>2
    <3>2. Rank(c) < Rank(cls[queue[k]])
      BY <1>10, <1>12, <2>2, <3>1
    <3>3. Rank(cls[queue[k]]) \in {0, 1, 2} /\ Rank(c) \in {0, 1, 2}
      BY <1>0, <1>3, <1>6
    <3>4. Rank(c) <= Rank(cls[queue[k]])
      BY <3>2, <3>3
    <3> QED
      BY <1>4, <1>5, <1>7, <1>11, <2>2, <3>1, <3>4
  <2>3. CASE i # p /\ j = p
    <3>1. PICK k \in 1 .. n : i = To(k) /\ queue'[i] = queue[k]
      BY <1>8, <2>3
    <3>2. Rank(cls[queue[k]]) <= Rank(c)
      BY <1>10, <1>12, <2>3, <3>1
    <3> QED
      BY <1>4, <1>5, <1>7, <1>11, <2>3, <3>1, <3>2
  <2>4. ~(i = p /\ j = p)
    BY <1>12
  <2> QED
    BY <2>1, <2>2, <2>3, <2>4
<1>13. ASSUME NEW i \in 1 .. m
       PROVE  /\ st'[queue'[i]] = "queued" /\ gen'[queue'[i]] = session
              /\ \A x \in older'[queue'[i]] : st'[x] = "queued" =>
                   \E j \in 1 .. i - 1 : x = queue'[j]
  <2>1. CASE i = p
    <3>1. ASSUME NEW x \in older'[r] PROVE \E j \in 1 .. i - 1 : x = queue'[j]
      <4>1. x \in Req /\ st[x] = "queued" /\ cls[x] = c
        BY <1>4, <3>1
      <4>2. PICK k \in 1 .. n : x = queue[k]
        BY <1>3, <4>1
      <4>3. ~(p < To(k))
        <5>1. Rank(c) \in {0, 1, 2}
          BY <1>6
        <5> QED
          BY <1>10, <4>1, <4>2, <5>1
      <4>4. To(k) \in 1 .. p - 1
        BY <1>0, <1>2, <1>7, <4>3
      <4> QED
        BY <1>7, <2>1, <4>2, <4>4
    <3> QED
      BY <1>4, <1>7, <2>1, <3>1
  <2>2. CASE i # p
    <3>1. PICK k \in 1 .. n : i = To(k) /\ queue'[i] = queue[k]
      BY <1>8, <2>2
    <3>2. queue[k] \in Req /\ queue[k] # r
      BY <1>0, <1>5
    <3>3. ASSUME NEW x \in older'[queue'[i]], st'[x] = "queued"
          PROVE  \E j \in 1 .. i - 1 : x = queue'[j]
      <4>1. x \in older[queue[k]] /\ x # r /\ x \in Req
        BY <1>3, <1>4, <3>1, <3>2, <3>3
      <4>2. st[x] = "queued"
        BY <1>4, <3>3, <4>1
      <4>3. PICK l \in 1 .. k - 1 : x = queue[l]
        BY <1>3, <4>1, <4>2
      <4>4. l \in 1 .. n /\ l < k
        BY <1>0, <4>3
      <4>5. To(l) \in 1 .. m /\ To(l) < i /\ queue'[To(l)] = x
        BY <1>7, <1>9, <3>1, <4>3, <4>4
      <4>6. To(l) \in 1 .. i - 1
        BY <1>0, <1>2, <4>5
      <4> QED
        BY <4>5, <4>6
    <3> QED
      BY <1>3, <1>4, <3>1, <3>2, <3>3
  <2> QED
    BY <2>1, <2>2
<1>14. ASSUME NEW x \in Req, st'[x] = "queued"
       PROVE  \E i \in 1 .. m : x = queue'[i]
  <2>1. CASE x = r
    BY <1>7, <2>1
  <2>2. CASE x # r
    <3>1. PICK i \in 1 .. n : x = queue[i]
      BY <1>3, <1>4, <1>14, <2>2
    <3> QED
      BY <1>7, <3>1
  <2> QED
    BY <2>1, <2>2
<1> QED
  BY <1>2, <1>12, <1>13, <1>14 DEF QueueInv, Ordered, m

\* An empty queue with nothing waiting.
LEMMA QueueEmpty ==
  ASSUME queue' = <<>>, \A r \in Req : st'[r] # "queued"
  PROVE  queue' \in Seq(Req) /\ QueueInv'
<1>1. /\ Len(queue') = 0 /\ queue' \in Seq(Req)
  BY EmptySeq
<1>2. \A i \in 1 .. Len(queue') : FALSE
  BY <1>1
<1> QED
  BY <1>1, <1>2 DEF QueueInv, Ordered

-----------------------------------------------------------------------------
(* The gate frees, a guest is over, the queue is drained.                  *)

Links == {"connected", "error", "closing", "down"}
Status == {"idle", "queued", "running", "refused"}

\* The first waiting request of a queue in order.
LEMMA HeadFacts ==
  ASSUME GateInv, queue # <<>>
  PROVE  /\ Len(queue) \in Nat \ {0} /\ 1 \in 1 .. Len(queue)
         /\ Head(queue) = queue[1] /\ queue[1] \in Req
         /\ st[queue[1]] = "queued" /\ gen[queue[1]] = session
         /\ older[queue[1]] \cap Queued = {}
         /\ cls[queue[1]] # "urgent" =>
              \A i \in 1 .. Len(queue) : queue[i] \in Req /\ cls[queue[i]] # "urgent"
<1> DEFINE n == Len(queue)
<1>1. queue \in Seq(Req) /\ n \in Nat \ {0} /\ Head(queue) = queue[1]
  BY TailFacts DEF GateInv, TypeOK
<1>2. \A i \in 1 .. n : queue[i] \in Req
  BY <1>1, ElementOfSeq
<1>3. /\ \A i \in 1 .. n : 1 < i => Rank(cls[queue[1]]) <= Rank(cls[queue[i]])
      /\ st[queue[1]] = "queued" /\ gen[queue[1]] = session
      /\ \A x \in older[queue[1]] : st[x] = "queued" => \E j \in 1 .. 1 - 1 : x = queue[j]
  <2> HIDE DEF n
  <2>1. 1 \in 1 .. n
    BY <1>1
  <2> QED
    BY <2>1 DEF GateInv, QueueInv, Ordered, n
<1>4. \A i \in 1 .. n : cls[queue[i]] \in Class
  BY <1>2 DEF GateInv, TypeOK
<1> HIDE DEF n
<1>5. \A x \in older[queue[1]] : st[x] # "queued"
  <2>1. 1 .. 1 - 1 = {}
    OBVIOUS
  <2> QED
    BY <1>3, <2>1
<1>6. ASSUME cls[queue[1]] # "urgent", NEW i \in 1 .. n PROVE cls[queue[i]] # "urgent"
  <2>1. 1 \in 1 .. n /\ (i = 1 \/ 1 < i)
    BY <1>1
  <2>2. Rank(cls[queue[1]]) \in {1, 2}
    BY <1>6 DEF Rank
  <2>3. CASE i = 1
    BY <1>6, <2>3
  <2>4. CASE 1 < i
    BY <1>3, <2>2, <2>4 DEF Rank
  <2> QED
    BY <2>1, <2>3, <2>4
<1> QED
  BY <1>1, <1>2, <1>3, <1>5, <1>6 DEF n, Queued

\* Outcomes that differ from the present ones only by rejected requests.
Outcome(s) ==
  /\ s \in [Req -> Status]
  /\ \A r \in Req : /\ s[r] = "running" <=> st[r] = "running"
                    /\ s[r] \in {"queued", "refused"} => st[r] \in {"queued", "refused"}

LEMMA DrainedFacts ==
  ASSUME TypeOK
  PROVE  /\ Outcome(st) /\ Outcome(Drained(st))
         /\ \A r \in Req : Drained(st)[r] # "queued"
  BY DEF TypeOK, Outcome, Status, Drained

\* The gate frees with nothing waiting.
LEMMA SettleEmpty ==
  ASSUME GateInv, current # None, guest = None, NEW s, Outcome(s), \A r \in Req : s[r] # "queued",
         Settle(<<>>, s), UNCHANGED <<reqVars, wrote, older>>, collector' = None,
         link' \in Links, session' \in 0 .. MaxSession
  PROVE  GateInv'
<1>0. /\ TypeOK /\ OwnerInv /\ WroteInv /\ current \in Req /\ current # None
      /\ s \in [Req -> Status]
  BY DEF GateInv, TypeOK, Outcome
<1>1. Pumped(<<>>, [s EXCEPT ![current] = "idle"], lines)
  <2>1. <<>> \in Seq(Req) /\ Len(<<>>) = 0
    BY EmptySeq
  <2>2. \A i \in 1 .. Len(<<>>) : gen[<<>>[i]] = session'
    BY <2>1
  <2>3. Pump(<<>>, [s EXCEPT ![current] = "idle"], gen, lines)
    BY DEF Settle
  <2> QED
    BY <2>1, <2>2, <2>3, PumpFacts
<1>2. /\ queue' = <<>> /\ current' = None /\ guest' = None /\ left' = 0 /\ phase' = "idle"
      /\ st' \in [Req -> Status]
      /\ \A r \in Req : st'[r] = IF r = current THEN "idle" ELSE s[r]
  BY <1>0, <1>1 DEF Pumped, Status
<1>3. queue' \in Seq(Req) /\ QueueInv'
  BY <1>2, QueueEmpty
<1>4. TypeOK'
  <2>1. left' \in 0 .. Lines
    BY <1>2, GateAssumption
  <2> QED
    BY <1>0, <1>2, <1>3, <2>1 DEF TypeOK, reqVars, Links, Status
<1>5. OwnerInv'
  <2>1. ASSUME NEW r \in Req PROVE st'[r] # "running"
    <3>1. st[r] = "running" => r = current
      BY <1>0, GateAssumption DEF OwnerInv
    <3> QED
      BY <1>2, <3>1 DEF Outcome
  <2> QED
    BY <1>2, <2>1 DEF OwnerInv
<1>6. WroteInv'
  BY <1>0, <1>2 DEF WroteInv, Outcome
<1> QED
  BY <1>2, <1>3, <1>4, <1>5, <1>6 DEF GateInv, PortInv, LinesInv

\* The gate frees and takes the next request of this session.
LEMMA SettleKeeps ==
  ASSUME GateInv, current # None, guest = None,
         Settle(queue, st), UNCHANGED <<reqVars, wrote, older>>, collector' = None,
         link' \in Links, session' = session
  PROVE  GateInv'
<1>0. /\ TypeOK /\ QueueInv /\ OwnerInv /\ WroteInv /\ current \in Req
      /\ queue \in Seq(Req) /\ session' \in 0 .. MaxSession
      /\ st[current] = "running"
      /\ \A r \in Req : st[r] = "running" => r = current
  BY GateAssumption DEF GateInv, TypeOK, OwnerInv
<1>1. CASE queue = <<>>
  <2>1. \A r \in Req : st[r] # "queued"
    <3>1. \A i \in 1 .. Len(queue) : FALSE
      BY <1>1, EmptySeq
    <3> QED
      BY <1>0, <3>1 DEF QueueInv
  <2>2. Settle(<<>>, st)
    BY <1>1
  <2> QED
    BY <1>0, <2>1, <2>2, DrainedFacts, SettleEmpty
<1>2. CASE queue # <<>>
  <2> DEFINE u == queue[1]
  <2>1. /\ Len(queue) \in Nat \ {0} /\ 1 \in 1 .. Len(queue) /\ u \in Req
        /\ st[u] = "queued" /\ gen[u] = session
        /\ cls[u] # "urgent" =>
             \A i \in 1 .. Len(queue) : queue[i] \in Req /\ cls[queue[i]] # "urgent"
    BY <1>2, HeadFacts
  <2>2. Pumped(queue, [st EXCEPT ![current] = "idle"], lines)
    <3>1. \A i \in 1 .. Len(queue) : gen[queue[i]] = session'
      BY <1>0 DEF QueueInv
    <3>2. Pump(queue, [st EXCEPT ![current] = "idle"], gen, lines)
      BY DEF Settle
    <3> QED
      BY <1>0, <3>1, <3>2, PumpFacts
  <2>3. /\ Without(queue', queue, 1) /\ current' = u /\ guest' = None
        /\ left' = lines[u] /\ phase' = "ready"
        /\ st' \in [Req -> Status]
        /\ \A r \in Req : st'[r] = IF r = u THEN "running" ELSE IF r = current THEN "idle" ELSE st[r]
    BY <1>0, <1>2, <2>2 DEF Pumped, Status, TypeOK
  <2> HIDE DEF u
  <2>4. QueueInv'
    <3>1. st'[u] # "queued" /\ \A r \in Req : r # u => (st'[r] = "queued" <=> st[r] = "queued")
      BY <1>0, <2>1, <2>3
    <3> QED
      BY <1>0, <2>1, <2>3, <3>1, QueueLoses DEF u, reqVars
  <2>5. TypeOK'
    <3>1. queue' \in Seq(Req)
      BY <2>3 DEF Without
    <3>2. lines[u] \in 1 .. Lines
      BY <1>0, <2>1 DEF TypeOK
    <3>3. left' \in 0 .. Lines
      BY <2>3, <3>2, GateAssumption
    <3> QED
      BY <1>0, <2>1, <2>3, <3>1, <3>3 DEF TypeOK, reqVars, Links, Status
  <2>6. OwnerInv'
    <3>1. u # None
      BY <2>1, GateAssumption
    <3> QED
      BY <1>0, <2>1, <2>3, <3>1 DEF OwnerInv
  <2>7. PortInv'
    BY <2>1, <2>3 DEF PortInv, reqVars
  <2>8. LinesInv'
    <3>1. lines[u] \in Nat /\ lines[u] > 0
      BY <1>0, <2>1 DEF TypeOK
    <3>2. ASSUME cls[u] # "urgent", NEW i \in 1 .. Len(queue') PROVE cls[queue'[i]] # "urgent"
      <4> DEFINE n == Len(queue)
      <4>1. /\ n \in Nat \ {0} /\ Len(queue') = n - 1
            /\ \A j \in 1 .. n - 1 : queue'[j] = IF j < 1 THEN queue[j] ELSE queue[j + 1]
        BY <2>1, <2>3 DEF Without
      <4>2. \A j \in 1 .. n : cls[queue[j]] # "urgent"
        BY <2>1, <3>2
      <4> HIDE DEF n
      <4>3. i \in 1 .. n - 1 /\ ~(i < 1) /\ i + 1 \in 1 .. n
        BY <3>2, <4>1
      <4> QED
        BY <4>1, <4>2, <4>3
    <3> QED
      BY <2>3, <3>1, <3>2 DEF LinesInv, reqVars
  <2>9. WroteInv'
    BY <1>0, <2>3 DEF WroteInv
  <2> QED
    BY <2>4, <2>5, <2>6, <2>7, <2>8, <2>9 DEF GateInv
<1> QED
  BY <1>1, <1>2

\* A queue that stays, or is drained as the outcomes say.
Kept(q, s) ==
  \/ q = queue /\ s = st /\ session' = session
  \/ q = <<>> /\ s = Drained(st) /\ session' \in 0 .. MaxSession /\ link' # "connected"

\* The queue's part of the invariant under Kept, when nobody else begins to wait.
LEMMA QueueKept ==
  ASSUME GateInv, NEW q, NEW s, Kept(q, s), queue' = q,
         \A r \in Req : st'[r] = "queued" <=> s[r] = "queued",
         UNCHANGED <<reqVars, older>>
  PROVE  queue' \in Seq(Req) /\ QueueInv' /\ session' \in 0 .. MaxSession
<1>0. TypeOK /\ QueueInv /\ queue \in Seq(Req) /\ session \in 0 .. MaxSession
  BY DEF GateInv, TypeOK
<1>1. CASE q = queue /\ s = st /\ session' = session
  <2>1. \A i \in 1 .. Len(queue) : queue[i] \in Req
    BY <1>0, ElementOfSeq
  <2>2. \A r \in Req : older[r] \subseteq Req
    BY <1>0 DEF TypeOK
  <2>3. /\ queue' = queue /\ cls' = cls /\ gen' = gen /\ older' = older /\ session' = session
        /\ \A r \in Req : st'[r] = "queued" <=> st[r] = "queued"
    BY <1>1 DEF reqVars
  <2>4. Ordered(queue, cls)'
    BY <1>0, <2>3 DEF QueueInv, Ordered
  <2>5. ASSUME NEW i \in 1 .. Len(queue)
        PROVE  /\ st'[queue[i]] = "queued" /\ gen[queue[i]] = session
               /\ \A x \in older[queue[i]] : st'[x] = "queued" => \E j \in 1 .. i - 1 : x = queue[j]
    <3>1. /\ st[queue[i]] = "queued" /\ gen[queue[i]] = session
          /\ \A x \in older[queue[i]] : st[x] = "queued" => \E j \in 1 .. i - 1 : x = queue[j]
      BY <1>0 DEF QueueInv
    <3>2. queue[i] \in Req /\ \A x \in older[queue[i]] : x \in Req
      BY <2>1, <2>2
    <3> QED
      BY <2>3, <3>1, <3>2
  <2>6. \A r \in Req : st'[r] = "queued" => \E i \in 1 .. Len(queue) : r = queue[i]
    BY <1>0, <2>3 DEF QueueInv
  <2> QED
    BY <1>0, <2>3, <2>4, <2>5, <2>6 DEF QueueInv
<1>2. CASE q = <<>> /\ s = Drained(st) /\ session' \in 0 .. MaxSession
  <2>1. \A r \in Req : st'[r] # "queued"
    BY <1>0, <1>2, DrainedFacts
  <2> QED
    BY <1>2, <2>1, QueueEmpty
<1> QED
  BY <1>1, <1>2 DEF Kept

\* A guest is over and its owner goes on.
LEMMA GuestOver ==
  ASSUME GateInv, guest # None, NEW q, NEW s, Kept(q, s),
         queue' = q, st' = [s EXCEPT ![guest] = "idle"], guest' = None, phase' = "ready",
         UNCHANGED <<current, left, reqVars, wrote, older>>, collector' = None,
         link' \in Links, link' = "connected" => link = "connected"
  PROVE  GateInv'
<1>0. /\ TypeOK /\ OwnerInv /\ PortInv /\ LinesInv /\ WroteInv
      /\ guest \in Req /\ phase = "wire" /\ st[guest] = "running" /\ guest # current
      /\ current # None
  BY DEF GateInv, TypeOK, OwnerInv
<1>1. Outcome(s) /\ s \in [Req -> Status]
  BY <1>0, DrainedFacts DEF Kept, Outcome
<1>2. /\ st' \in [Req -> Status]
      /\ \A r \in Req : st'[r] = IF r = guest THEN "idle" ELSE s[r]
  BY <1>1 DEF Status
<1>3. queue' \in Seq(Req) /\ QueueInv' /\ session' \in 0 .. MaxSession
  <2>1. \A r \in Req : st'[r] = "queued" <=> s[r] = "queued"
    BY <1>0, <1>1, <1>2 DEF Outcome
  <2> QED
    BY <2>1, QueueKept
<1>4. TypeOK'
  BY <1>0, <1>2, <1>3 DEF TypeOK, reqVars, Links, Status
<1>5. OwnerInv'
  BY <1>0, <1>1, <1>2 DEF OwnerInv, Outcome, TypeOK
<1>6. PortInv'
  BY <1>0 DEF PortInv, Kept, reqVars
<1>7. LinesInv'
  <2>1. lines[current] > 1 => lines[current] # 1
    BY <1>0 DEF TypeOK
  <2> QED
    BY <1>0, <2>1 DEF LinesInv, reqVars
<1>8. WroteInv'
  BY <1>0, <1>1, <1>2 DEF WroteInv, Outcome
<1> QED
  BY <1>3, <1>4, <1>5, <1>6, <1>7, <1>8 DEF GateInv

\* A status change drains the queue under whoever holds the gate.
LEMMA DrainKeeps ==
  ASSUME GateInv, queue' = <<>>, st' = Drained(st), session' \in 0 .. MaxSession,
         link' \in Links, link' # "connected", phase = "wire" => link' = "error",
         phase # "ready", UNCHANGED <<collector, current, guest, left, phase, reqVars, wrote, older>>
  PROVE  GateInv'
<1>0. TypeOK /\ OwnerInv /\ PortInv /\ LinesInv /\ WroteInv
  BY DEF GateInv
<1>1. /\ Outcome(st') /\ \A r \in Req : st'[r] # "queued"
      /\ st' \in [Req -> Status]
  BY <1>0, DrainedFacts DEF Outcome
<1>2. queue' \in Seq(Req) /\ QueueInv'
  BY <1>1, QueueEmpty
<1>3. TypeOK'
  BY <1>0, <1>1, <1>2 DEF TypeOK, reqVars, Links, Status
<1>4. OwnerInv'
  BY <1>0, <1>1 DEF OwnerInv, Outcome, TypeOK
<1>5. PortInv' /\ LinesInv'
  BY <1>0 DEF PortInv, LinesInv, reqVars
<1>6. WroteInv'
  BY <1>0, <1>1 DEF WroteInv, Outcome
<1> QED
  BY <1>2, <1>3, <1>4, <1>5, <1>6 DEF GateInv

-----------------------------------------------------------------------------
(* The page's actions.                                                     *)

LEMMA InitGate == Init => GateInv
<1> SUFFICES ASSUME Init PROVE GateInv
  OBVIOUS
<1>1. queue \in Seq(Req) /\ Len(queue) = 0
  BY EmptySeq DEF Init
<1>2. 0 \in 0 .. MaxSession /\ 0 \in 0 .. Lines /\ 1 \in 1 .. Lines
  BY GateAssumption
<1>3. TypeOK
  BY <1>1, <1>2 DEF Init, TypeOK, Class
<1>4. QueueInv
  <2>1. \A i \in 1 .. Len(queue) : FALSE
    BY <1>1
  <2> QED
    BY <2>1 DEF Init, QueueInv, Ordered
<1> QED
  BY <1>3, <1>4 DEF Init, GateInv, OwnerInv, PortInv, LinesInv, WroteInv

\* A timer or the caller's signal takes a waiting request out of the queue.
LEMMA DropKeeps ==
  ASSUME GateInv, NEW r \in Req, st[r] = "queued", DropQueued(r),
         UNCHANGED <<linkVars, collector, reqVars, wrote, older>>
  PROVE  GateInv'
<1>0. /\ TypeOK /\ QueueInv /\ OwnerInv /\ PortInv /\ LinesInv /\ WroteInv /\ queue \in Seq(Req)
      /\ queue' = RemoveFirst(queue, r) /\ st' = [st EXCEPT ![r] = "refused"]
      /\ UNCHANGED <<link, session, collector, current, guest, left, phase>>
      /\ UNCHANGED <<reqVars, wrote, older>>
  BY DEF GateInv, TypeOK, DropQueued, linkVars
<1> DEFINE n == Len(queue)
<1>1. PICK p \in 1 .. n : r = queue[p]
  BY <1>0 DEF QueueInv
<1>2. n \in Nat /\ \A i \in 1 .. n : queue[i] \in Req
  BY <1>0, LenProperties, ElementOfSeq
<1>3. \A i \in 1 .. n : queue[i] = r => i = p
  <2>1. \A i, j \in 1 .. n : i < j => queue[i] # queue[j]
    BY <1>0 DEF QueueInv, Ordered
  <2> HIDE DEF n
  <2>2. \A i \in 1 .. n : i = p \/ i < p \/ p < i
    BY <1>2
  <2> QED
    BY <1>1, <2>1, <2>2
<1>4. Without(queue', queue, p)
  BY <1>0, <1>1, <1>3, RemoveFacts
<1>5. /\ st' \in [Req -> Status] /\ st'[r] = "refused"
      /\ \A x \in Req : x # r => st'[x] = st[x]
  BY <1>0 DEF TypeOK, Status
<1>6. QueueInv'
  BY <1>0, <1>1, <1>4, <1>5, QueueLoses DEF reqVars
<1>7. TypeOK'
  <2>1. queue' \in Seq(Req)
    BY <1>4 DEF Without
  <2> QED
    BY <1>0, <1>5, <2>1 DEF TypeOK, reqVars, Status
<1>8. OwnerInv'
  <2>1. phase # "idle"
    <3>1. n # 0
      BY <1>1, <1>2
    <3> QED
      BY <1>0, <3>1, EmptySeq DEF OwnerInv
  <2> QED
    BY <1>0, <1>5, <2>1 DEF OwnerInv, TypeOK
<1>9. PortInv' /\ WroteInv'
  BY <1>0, <1>5 DEF PortInv, WroteInv, reqVars
<1>10. LinesInv'
  <2>1. ASSUME \A i \in 1 .. n : cls[queue[i]] # "urgent", NEW j \in 1 .. Len(queue')
        PROVE  cls[queue'[j]] # "urgent"
    <3>1. /\ Len(queue') = n - 1
          /\ \A i \in 1 .. n - 1 : queue'[i] = IF i < p THEN queue[i] ELSE queue[i + 1]
      BY <1>4 DEF Without
    <3> HIDE DEF n
    <3>2. j \in 1 .. n - 1 /\ j \in 1 .. n /\ j + 1 \in 1 .. n
      BY <1>2, <2>1, <3>1
    <3> QED
      BY <2>1, <3>1, <3>2
  <2> QED
    BY <1>0, <2>1 DEF LinesInv, reqVars
<1> QED
  BY <1>0, <1>6, <1>7, <1>8, <1>9, <1>10 DEF GateInv

\* What run() records of a request leaves the queue and the gate alone.
RunStep(r, c, n) ==
  /\ Quiet /\ st[r] \notin {"queued", "running"}
  /\ c \in {"urgent", "start"} => n = 1
  /\ cls' = [cls EXCEPT ![r] = c] /\ lines' = [lines EXCEPT ![r] = n]
  /\ gen' = [gen EXCEPT ![r] = session]
  /\ wrote' = wrote \ {r}
  /\ older' = [x \in Req |-> IF x = r THEN {q \in Queued : cls[q] = c} ELSE older[x] \ {r}]
  /\ UNCHANGED <<linkVars, collector>>

LEMMA RunTypes ==
  ASSUME TypeOK, NEW r \in Req, NEW c \in Class, NEW n \in 1 .. Lines, RunStep(r, c, n)
  PROVE  /\ link' \in Links /\ session' \in 0 .. MaxSession /\ collector' \in Req \cup {None}
         /\ cls' \in [Req -> Class] /\ gen' \in [Req -> 0 .. MaxSession]
         /\ lines' \in [Req -> 1 .. Lines]
         /\ wrote' \subseteq Req /\ older' \in [Req -> SUBSET Req]
         /\ cls'[r] = c /\ gen'[r] = session /\ lines'[r] = n
         /\ \A x \in Req : x # r => /\ cls'[x] = cls[x] /\ gen'[x] = gen[x]
                                    /\ lines'[x] = lines[x] /\ older'[x] = older[x] \ {r}
<1>1. /\ link' \in Links /\ session' \in 0 .. MaxSession /\ collector' \in Req \cup {None}
      /\ wrote' \subseteq Req
  BY DEF TypeOK, RunStep, linkVars, Links
<1>2. /\ cls' \in [Req -> Class] /\ gen' \in [Req -> 0 .. MaxSession]
      /\ lines' \in [Req -> 1 .. Lines]
      /\ cls'[r] = c /\ gen'[r] = session /\ lines'[r] = n
      /\ \A x \in Req : x # r => cls'[x] = cls[x] /\ gen'[x] = gen[x] /\ lines'[x] = lines[x]
  BY DEF TypeOK, RunStep
<1>3. /\ older' \in [Req -> SUBSET Req]
      /\ \A x \in Req : x # r => older'[x] = older[x] \ {r}
  BY DEF TypeOK, RunStep, Queued
<1> QED
  BY <1>1, <1>2, <1>3

\* run() refuses.
LEMMA RefusedKeeps ==
  ASSUME GateInv, NEW r \in Req, NEW c \in Class, NEW n \in 1 .. Lines, RunStep(r, c, n),
         st' = [st EXCEPT ![r] = "refused"], UNCHANGED <<queue, current, guest, left, phase>>
  PROVE  GateInv'
<1>0. /\ TypeOK /\ QueueInv /\ OwnerInv /\ PortInv /\ LinesInv /\ WroteInv /\ queue \in Seq(Req)
      /\ st[r] # "queued" /\ st[r] # "running" /\ wrote' = wrote \ {r}
      /\ UNCHANGED <<link, session, collector>>
      /\ current # r /\ guest # r
  BY GateAssumption DEF GateInv, TypeOK, RunStep, linkVars, OwnerInv
<1>1. /\ cls' \in [Req -> Class] /\ gen' \in [Req -> 0 .. MaxSession]
      /\ lines' \in [Req -> 1 .. Lines]
      /\ wrote' \subseteq Req /\ older' \in [Req -> SUBSET Req]
      /\ \A x \in Req : x # r => /\ cls'[x] = cls[x] /\ gen'[x] = gen[x]
                                 /\ lines'[x] = lines[x] /\ older'[x] = older[x] \ {r}
  BY <1>0, RunTypes
<1>2. /\ st' \in [Req -> Status] /\ st'[r] = "refused"
      /\ \A x \in Req : x # r => st'[x] = st[x]
  BY <1>0 DEF TypeOK, Status
<1>3. \A i \in 1 .. Len(queue) : queue[i] \in Req /\ queue[i] # r
  BY <1>0, ElementOfSeq DEF QueueInv
<1>4. TypeOK'
  BY <1>0, <1>1, <1>2 DEF TypeOK, Status
<1>5. QueueInv'
  <2>1. Ordered(queue, cls)'
    <3>1. \A i \in 1 .. Len(queue) : cls'[queue[i]] = cls[queue[i]]
      BY <1>1, <1>3
    <3>2. \A i, j \in 1 .. Len(queue) :
            i < j => queue[i] # queue[j] /\ Rank(cls[queue[i]]) <= Rank(cls[queue[j]])
      BY <1>0 DEF QueueInv, Ordered
    <3>3. \A i, j \in 1 .. Len(queue) :
            i < j => queue[i] # queue[j] /\ Rank(cls'[queue[i]]) <= Rank(cls'[queue[j]])
      BY <3>1, <3>2
    <3>4. queue' = queue
      OBVIOUS
    <3> QED
      BY <3>3, <3>4 DEF Ordered
  <2>2. ASSUME NEW i \in 1 .. Len(queue)
        PROVE  /\ st'[queue[i]] = "queued" /\ gen'[queue[i]] = session
               /\ \A x \in older'[queue[i]] : st'[x] = "queued" => \E j \in 1 .. i - 1 : x = queue[j]
    <3>1. /\ st[queue[i]] = "queued" /\ gen[queue[i]] = session
          /\ \A x \in older[queue[i]] : st[x] = "queued" => \E j \in 1 .. i - 1 : x = queue[j]
      BY <1>0 DEF QueueInv
    <3>2. older'[queue[i]] = older[queue[i]] \ {r} /\ older[queue[i]] \subseteq Req
      BY <1>0, <1>1, <1>3 DEF TypeOK
    <3> QED
      BY <1>1, <1>2, <1>3, <3>1, <3>2
  <2>3. \A x \in Req : st'[x] = "queued" => \E i \in 1 .. Len(queue) : x = queue[i]
    BY <1>0, <1>2 DEF QueueInv
  <2> QED
    BY <1>0, <2>1, <2>2, <2>3 DEF QueueInv
<1>6. OwnerInv'
  BY <1>0, <1>2 DEF OwnerInv, TypeOK
<1>7. PortInv'
  BY <1>0, <1>1 DEF PortInv, TypeOK
<1>8. LinesInv'
  <2>1. current # None => lines'[current] = lines[current] /\ cls'[current] = cls[current]
    BY <1>0, <1>1 DEF TypeOK
  <2>2. \A i \in 1 .. Len(queue) : cls'[queue[i]] = cls[queue[i]]
    BY <1>1, <1>3
  <2> QED
    BY <1>0, <2>1, <2>2 DEF LinesInv
<1>9. WroteInv'
  BY <1>0, <1>2 DEF WroteInv
<1> QED
  BY <1>4, <1>5, <1>6, <1>7, <1>8, <1>9 DEF GateInv

\* run() on a busy gate: the request waits.
LEMMA QueuedKeeps ==
  ASSUME GateInv, NEW r \in Req, NEW c \in Class, NEW n \in 1 .. Lines, RunStep(r, c, n),
         current # None, queue' = Insert(queue, r, c), st' = [st EXCEPT ![r] = "queued"],
         UNCHANGED <<current, guest, left, phase>>
  PROVE  GateInv'
<1>0. /\ TypeOK /\ QueueInv /\ OwnerInv /\ PortInv /\ LinesInv /\ WroteInv
      /\ st[r] # "queued" /\ st[r] # "running" /\ wrote' = wrote \ {r} /\ phase # "ready"
      /\ UNCHANGED <<link, session, collector>>
      /\ current # r /\ guest # r
  BY GateAssumption DEF GateInv, TypeOK, RunStep, Quiet, linkVars, OwnerInv
<1>1. /\ cls' \in [Req -> Class] /\ gen' \in [Req -> 0 .. MaxSession]
      /\ lines' \in [Req -> 1 .. Lines]
      /\ wrote' \subseteq Req /\ older' \in [Req -> SUBSET Req]
      /\ \A x \in Req : x # r => cls'[x] = cls[x] /\ gen'[x] = gen[x] /\ lines'[x] = lines[x]
  BY <1>0, RunTypes
<1>2. /\ st' \in [Req -> Status] /\ st'[r] = "queued"
      /\ \A x \in Req : x # r => st'[x] = st[x]
  BY <1>0 DEF TypeOK, Status
<1>3. queue' \in Seq(Req) /\ QueueInv'
  <2>1. /\ cls' = [cls EXCEPT ![r] = c] /\ gen' = [gen EXCEPT ![r] = session]
        /\ older' = [x \in Req |-> IF x = r THEN {q \in Queued : cls[q] = c} ELSE older[x] \ {r}]
    BY DEF RunStep
  <2> QED
    BY <1>0, <2>1, QueueGains
<1>4. TypeOK'
  BY <1>0, <1>1, <1>2, <1>3 DEF TypeOK, Status
<1>5. OwnerInv'
  BY <1>0, <1>2 DEF OwnerInv, TypeOK
<1>6. PortInv'
  BY <1>0, <1>1 DEF PortInv, TypeOK
<1>7. LinesInv'
  <2>1. lines'[current] = lines[current]
    BY <1>0, <1>1 DEF TypeOK
  <2> QED
    BY <1>0, <2>1 DEF LinesInv
<1>8. WroteInv'
  BY <1>0, <1>2 DEF WroteInv
<1> QED
  BY <1>3, <1>4, <1>5, <1>6, <1>7, <1>8 DEF GateInv

\* run() on an idle gate: the request is dispatched.
LEMMA DispatchedKeeps ==
  ASSUME GateInv, NEW r \in Req, NEW c \in Class, NEW n \in 1 .. Lines, RunStep(r, c, n),
         current = None,
         Pump(Insert(queue, r, c), [st EXCEPT ![r] = "queued"], gen', lines')
  PROVE  /\ GateInv'
         /\ \A x \in Req : st'[x] = IF x = r THEN "running" ELSE st[x]
<1>0. /\ TypeOK /\ QueueInv /\ OwnerInv /\ WroteInv /\ queue = <<>>
      /\ st[r] # "queued" /\ st[r] # "running" /\ wrote' = wrote \ {r} /\ phase = "idle"
      /\ UNCHANGED <<link, session, collector>> /\ guest = None /\ collector = None
  BY DEF GateInv, RunStep, linkVars, OwnerInv
<1>1. /\ link' \in Links /\ session' \in 0 .. MaxSession /\ collector' \in Req \cup {None}
      /\ cls' \in [Req -> Class] /\ gen' \in [Req -> 0 .. MaxSession]
      /\ lines' \in [Req -> 1 .. Lines]
      /\ wrote' \subseteq Req /\ older' \in [Req -> SUBSET Req]
      /\ gen'[r] = session /\ lines'[r] = n
  BY <1>0, RunTypes
<1> DEFINE q == Insert(queue, r, c)
<1>2. q \in Seq(Req) /\ Len(q) = 1 /\ q[1] = r /\ q # <<>>
  <2>1. queue \in Seq(Req) /\ Len(queue) = 0
    BY <1>0, EmptySeq
  <2>2. PICK p \in 1 .. 0 + 1 : With(q, queue, 0, p, r)
    BY <2>1, InsertFacts
  <2>3. p = 1
    OBVIOUS
  <2> HIDE DEF q
  <2>4. q \in Seq(Req) /\ Len(q) = 1 /\ q[1] = r
    BY <2>2, <2>3 DEF With
  <2> QED
    BY <2>4, EmptySeq
<1> HIDE DEF q
<1>3. Pumped(q, [st EXCEPT ![r] = "queued"], lines')
  <2>1. \A i \in 1 .. Len(q) : gen'[q[i]] = session'
    BY <1>0, <1>1, <1>2
  <2>2. Pump(q, [st EXCEPT ![r] = "queued"], gen', lines')
    BY DEF q
  <2> QED
    BY <1>2, <2>1, <2>2, PumpFacts
<1>4. /\ Without(queue', q, 1) /\ current' = r /\ guest' = None
      /\ left' = n /\ phase' = "ready" /\ st' \in [Req -> Status]
      /\ \A x \in Req : st'[x] = IF x = r THEN "running" ELSE st[x]
  BY <1>0, <1>1, <1>2, <1>3 DEF Pumped, TypeOK, Status
<1>5. queue' \in Seq(Req) /\ queue' = <<>>
  <2>1. queue' \in Seq(Req) /\ Len(queue') = 0
    BY <1>2, <1>4 DEF Without
  <2> QED
    BY <2>1, EmptySeq
<1>6. \A x \in Req : st[x] # "queued" /\ st[x] # "running"
  <2>1. \A i \in 1 .. Len(queue) : FALSE
    BY <1>0, EmptySeq
  <2> QED
    BY <1>0, <2>1, GateAssumption DEF QueueInv, OwnerInv
<1>7. QueueInv'
  BY <1>4, <1>5, <1>6, QueueEmpty
<1>8. TypeOK'
  BY <1>1, <1>4, <1>5 DEF TypeOK, Links, Status
<1>9. OwnerInv'
  BY <1>0, <1>4, <1>6, GateAssumption DEF OwnerInv
<1>10. PortInv'
  BY <1>0, <1>1, <1>4 DEF PortInv
<1>11. LinesInv'
  <2>1. n \in Nat /\ n > 0
    OBVIOUS
  <2>2. \A i \in 1 .. Len(queue') : FALSE
    BY <1>5, EmptySeq
  <2> QED
    BY <1>1, <1>4, <2>1, <2>2 DEF LinesInv
<1>12. WroteInv'
  BY <1>0, <1>4 DEF WroteInv
<1> QED
  BY <1>4, <1>7, <1>8, <1>9, <1>10, <1>11, <1>12 DEF GateInv

LEMMA RunKeeps ==
  ASSUME GateInv, NEW r \in Req, NEW c \in Class, NEW n \in 1 .. Lines, Run(r, c, n)
  PROVE  GateInv'
<1>1. RunStep(r, c, n)
  BY DEF Run, RunStep
<1>2. CASE Refuses(c)
  BY <1>1, <1>2, RefusedKeeps DEF Run
<1>3. CASE ~Refuses(c) /\ current = None
  <2>1. Pump(Insert(queue, r, c), [st EXCEPT ![r] = "queued"], gen', lines')
    BY <1>3 DEF Run
  <2> QED
    BY <1>1, <1>3, <2>1, DispatchedKeeps
<1>4. CASE ~Refuses(c) /\ current # None
  BY <1>1, <1>4, QueuedKeeps DEF Run
<1> QED
  BY <1>2, <1>3, <1>4

-----------------------------------------------------------------------------
(* Continuations.                                                          *)

LEMMA SendKeeps == GateInv /\ SendLine => GateInv'
<1> SUFFICES ASSUME GateInv, SendLine PROVE GateInv'
  OBVIOUS
<1>0. /\ TypeOK /\ QueueInv /\ OwnerInv /\ PortInv /\ LinesInv /\ WroteInv
      /\ phase = "ready" /\ collector = None /\ guest = None /\ current # None /\ current \in Req
      /\ st[current] = "running" /\ left > 0 /\ left \in 0 .. Lines /\ left <= lines[current]
      /\ lines[current] \in 1 .. Lines
      /\ UNCHANGED <<link, session, reqVars, older>>
  BY DEF GateInv, TypeOK, OwnerInv, LinesInv, SendLine, linkVars
<1>1. CASE CanSend
  <2>0. /\ collector' = current /\ phase' = "wire" /\ left' = left - 1
        /\ wrote' = wrote \cup {current} /\ link = "connected"
        /\ UNCHANGED <<queue, current, guest, st>>
    BY <1>1 DEF SendLine, CanSend
  <2>1. left' \in 0 .. Lines /\ left' <= lines[current] /\ left' < lines[current]
    BY <1>0, <2>0, GateAssumption
  <2>2. TypeOK'
    BY <1>0, <2>0, <2>1 DEF TypeOK, reqVars
  <2>3. QueueInv'
    <3>1. queue' = queue /\ \A r \in Req : st'[r] = "queued" <=> st[r] = "queued"
      BY <2>0
    <3>2. Kept(queue, st)
      BY <1>0 DEF Kept
    <3> QED
      BY <1>0, <3>1, <3>2, QueueKept
  <2>4. OwnerInv' /\ PortInv'
    BY <1>0, <2>0 DEF OwnerInv, PortInv, reqVars
  <2>5. LinesInv'
    BY <1>0, <2>0, <2>1 DEF LinesInv, reqVars
  <2>6. WroteInv'
    BY <1>0, <2>0 DEF WroteInv
  <2> QED
    BY <2>2, <2>3, <2>4, <2>5, <2>6 DEF GateInv
<1>2. CASE ~CanSend
  <2>1. Settle(queue, st) /\ UNCHANGED <<collector, wrote>>
    BY <1>2 DEF SendLine
  <2>2. link' \in Links /\ session' = session /\ collector' = None
    BY <1>0, <2>1 DEF TypeOK, Links
  <2> QED
    BY <1>0, <2>1, <2>2, SettleKeeps
<1> QED
  BY <1>1, <1>2

LEMMA YieldKeeps == GateInv /\ YieldToUrgent => GateInv'
<1> SUFFICES ASSUME GateInv, YieldToUrgent PROVE GateInv'
  OBVIOUS
<1> DEFINE u == Head(queue)
<1>0. /\ TypeOK /\ QueueInv /\ OwnerInv /\ PortInv /\ LinesInv /\ WroteInv /\ queue \in Seq(Req)
      /\ phase = "ready" /\ collector = None /\ guest = None /\ current # None /\ current \in Req
      /\ st[current] = "running" /\ left > 0 /\ lines[current] > 1 /\ queue # <<>>
      /\ lines[current] # 1
      /\ queue' = Tail(queue) /\ UNCHANGED <<link, session, current, left, reqVars, older>>
  <2>1. /\ TypeOK /\ QueueInv /\ OwnerInv /\ PortInv /\ LinesInv /\ WroteInv
        /\ phase = "ready" /\ lines[current] > 1 /\ queue # <<>>
        /\ queue' = Tail(queue) /\ UNCHANGED <<link, session, current, left, reqVars, older>>
    BY DEF GateInv, YieldToUrgent, Yields, linkVars
  <2>2. /\ collector = None /\ guest = None /\ current # None /\ st[current] = "running"
        /\ left > 0
    BY <2>1 DEF OwnerInv, LinesInv
  <2>3. queue \in Seq(Req) /\ current \in Req
    BY <2>1, <2>2 DEF TypeOK
  <2>4. lines[current] \in 1 .. Lines
    BY <2>1, <2>3 DEF TypeOK
  <2>5. lines[current] # 1
    BY <2>1, <2>4
  <2> QED
    BY <2>1, <2>2, <2>3, <2>5
<1>1. /\ Len(queue) \in Nat \ {0} /\ 1 \in 1 .. Len(queue) /\ u = queue[1] /\ u \in Req
      /\ st[u] = "queued" /\ gen[u] = session
  BY <1>0, HeadFacts
<1>2. Without(queue', queue, 1)
  BY <1>0, TailFacts
<1>3. queue' \in Seq(Req)
  BY <1>2 DEF Without
<1>4. /\ u # None /\ u # current /\ current # None
  BY <1>0, <1>1, GateAssumption
<1> DEFINE Sent == /\ guest' = u /\ collector' = u /\ phase' = "wire" /\ CanSend
                   /\ st' = [st EXCEPT ![u] = "running"] /\ wrote' = wrote \cup {u}
           Skipped == /\ st' = [st EXCEPT ![u] = "idle"]
                      /\ UNCHANGED <<guest, collector, phase, wrote>>
<1>5. Sent \/ Skipped
  BY <1>1 DEF YieldToUrgent
<1> HIDE DEF u
<1>6. /\ st' \in [Req -> Status] /\ st'[u] \in {"running", "idle"}
      /\ \A r \in Req : r # u => st'[r] = st[r]
  <2>1. st \in [Req -> Status] /\ Status = {"idle", "queued", "running", "refused"}
    BY <1>0 DEF TypeOK, Status
  <2>2. CASE st' = [st EXCEPT ![u] = "running"]
    BY <1>1, <2>1, <2>2
  <2>3. CASE st' = [st EXCEPT ![u] = "idle"]
    BY <1>1, <2>1, <2>3
  <2> QED
    BY <1>5, <2>2, <2>3
<1>7. QueueInv'
  <2>1. st'[queue[1]] # "queued" /\ \A r \in Req : r # queue[1] => (st'[r] = "queued" <=> st[r] = "queued")
    BY <1>1, <1>6
  <2> QED
    BY <1>0, <1>1, <1>2, <2>1, QueueLoses DEF reqVars
<1>8. CASE Sent
  <2>1. TypeOK'
    BY <1>0, <1>1, <1>3, <1>6, <1>8 DEF TypeOK, reqVars, Status
  <2>2. OwnerInv'
    <3>1. st'[u] = "running"
      BY <1>0, <1>1, <1>8 DEF TypeOK
    <3>2. st'[current] = "running"
      BY <1>0, <1>4, <1>6
    <3>3. ASSUME NEW r \in Req, st'[r] = "running" PROVE r \in {current, u}
      <4>1. r # u => st[r] = "running"
        BY <1>6, <3>3
      <4>2. st[r] = "running" => r = current \/ r = guest
        BY <1>0 DEF OwnerInv
      <4> QED
        BY <1>0, <4>1, <4>2, GateAssumption
    <3> QED
      BY <1>0, <1>4, <1>8, <3>1, <3>2, <3>3 DEF OwnerInv
  <2>3. PortInv' /\ LinesInv'
    BY <1>0, <1>4, <1>8 DEF PortInv, LinesInv, CanSend, reqVars
  <2>4. WroteInv'
    BY <1>0, <1>1, <1>6, <1>8 DEF WroteInv, TypeOK
  <2> QED
    BY <1>7, <2>1, <2>2, <2>3, <2>4 DEF GateInv
<1>9. CASE Skipped
  <2>1. TypeOK'
    BY <1>0, <1>3, <1>6, <1>9 DEF TypeOK, reqVars, Status
  <2>2. OwnerInv'
    BY <1>0, <1>1, <1>4, <1>6, <1>9 DEF OwnerInv, TypeOK
  <2>3. PortInv' /\ LinesInv'
    BY <1>0, <1>9 DEF PortInv, LinesInv, reqVars
  <2>4. WroteInv'
    BY <1>0, <1>1, <1>6, <1>9 DEF WroteInv, TypeOK
  <2> QED
    BY <1>7, <2>1, <2>2, <2>3, <2>4 DEF GateInv
<1> QED
  BY <1>5, <1>8, <1>9

-----------------------------------------------------------------------------
(* The line and the port.                                                  *)

LEMMA LineOverKeeps ==
  ASSUME GateInv, collector # None, NEW ok, LineOver(ok), collector' = None,
         link' \in Links, link' = "connected" => link = "connected", session' = session,
         UNCHANGED <<reqVars, wrote, older>>
  PROVE  GateInv'
<1>0. /\ TypeOK /\ QueueInv /\ OwnerInv /\ PortInv /\ LinesInv /\ WroteInv
      /\ phase = "wire" /\ current # None
  BY DEF GateInv, OwnerInv
<1>1. Kept(queue, st)
  BY DEF Kept
<1>2. CASE guest # None
  <2>1. /\ st' = [st EXCEPT ![guest] = "idle"] /\ guest' = None /\ phase' = "ready"
        /\ UNCHANGED <<queue, current, left>>
    BY <1>2 DEF LineOver
  <2> QED
    BY <1>1, <1>2, <2>1, GuestOver
<1>3. CASE guest = None /\ ok /\ left > 0
  <2>0. phase' = "ready" /\ UNCHANGED <<queue, current, guest, left, st>>
    BY <1>3 DEF LineOver
  <2>1. TypeOK'
    BY <1>0, <2>0 DEF TypeOK, reqVars, Links
  <2>2. QueueInv'
    BY <1>1, <2>0, QueueKept
  <2>3. OwnerInv' /\ PortInv' /\ WroteInv'
    BY <1>0, <1>3, <2>0 DEF OwnerInv, PortInv, WroteInv, reqVars
  <2>4. LinesInv'
    <3>1. left < lines[current] /\ left <= lines[current] /\ left \in Nat
      BY <1>0, <1>3 DEF LinesInv, TypeOK
    <3>2. lines[current] # 1
      BY <1>3, <3>1
    <3> QED
      BY <1>3, <2>0, <3>1, <3>2 DEF LinesInv, reqVars
  <2> QED
    BY <2>1, <2>2, <2>3, <2>4 DEF GateInv
<1>4. CASE guest = None /\ ~(ok /\ left > 0)
  <2>1. Settle(queue, st)
    BY <1>4 DEF LineOver
  <2> QED
    BY <1>0, <1>4, <2>1, SettleKeeps
<1> QED
  BY <1>2, <1>3, <1>4

LEMMA LineEndsKeeps == GateInv /\ LineEnds => GateInv'
<1>1. ASSUME GateInv, NEW ok \in BOOLEAN, Reply(ok) PROVE GateInv'
  <2>1. /\ collector # None /\ collector' = None /\ LineOver(ok) /\ UNCHANGED <<link, session>>
        /\ UNCHANGED <<reqVars, wrote, older>> /\ link' \in Links
    BY <1>1 DEF Reply, linkVars, GateInv, TypeOK, Links
  <2> QED
    BY <1>1, <2>1, LineOverKeeps
<1>2. ASSUME GateInv, NEW framed \in BOOLEAN, Timeout(framed) PROVE GateInv'
  <2>1. /\ collector # None /\ collector' = None /\ LineOver(FALSE) /\ session' = session
        /\ UNCHANGED <<reqVars, wrote, older>>
        /\ link' \in Links
        /\ link' = "connected" => link = "connected"
    BY <1>2 DEF Timeout, GateInv, TypeOK, Links
  <2>2. PICK off \in BOOLEAN : off = FALSE
    OBVIOUS
  <2>3. LineOver(off)
    BY <2>1, <2>2
  <2> QED
    BY <1>2, <2>1, <2>3, LineOverKeeps
<1> QED
  BY <1>1, <1>2 DEF LineEnds

LEMMA CancelledKeeps ==
  ASSUME GateInv, Quiet, NEW q, NEW s, Kept(q, s), Cancelled(q, s), collector' = None,
         link' \in Links, link' # "connected", UNCHANGED <<reqVars, wrote, older>>
  PROVE  GateInv'
<1>0. /\ TypeOK /\ QueueInv /\ OwnerInv /\ PortInv /\ LinesInv /\ WroteInv /\ phase # "ready"
      /\ phase \in {"idle", "ready", "wire"}
  BY DEF GateInv, Quiet, TypeOK
<1>1. Outcome(s) /\ s \in [Req -> Status]
  BY <1>0, DrainedFacts DEF Kept, Outcome
<1>2. CASE collector = None
  <2>0. /\ queue' = q /\ st' = s /\ UNCHANGED <<current, guest, left, phase>>
        /\ phase = "idle" /\ current = None /\ guest = None /\ queue = <<>>
    <3>1. phase # "wire"
      BY <1>0, <1>2, GateAssumption DEF OwnerInv, TypeOK
    <3> QED
      BY <1>0, <1>2, <3>1 DEF Cancelled, OwnerInv
  <2>1. queue' \in Seq(Req) /\ QueueInv' /\ session' \in 0 .. MaxSession
    BY <2>0, QueueKept
  <2>2. TypeOK'
    BY <1>0, <1>1, <2>0, <2>1 DEF TypeOK, reqVars, Links, Status
  <2>3. OwnerInv'
    BY <1>0, <1>1, <2>0 DEF OwnerInv, Outcome, Kept
  <2>4. PortInv' /\ LinesInv'
    BY <2>0 DEF PortInv, LinesInv
  <2>5. WroteInv'
    BY <1>0, <1>1, <2>0 DEF WroteInv, Outcome
  <2> QED
    BY <2>1, <2>2, <2>3, <2>4, <2>5 DEF GateInv
<1>3. CASE collector # None /\ guest # None
  <2>1. /\ queue' = q /\ st' = [s EXCEPT ![guest] = "idle"]
        /\ guest' = None /\ phase' = "ready" /\ UNCHANGED <<current, left>>
    BY <1>3 DEF Cancelled
  <2> QED
    BY <1>3, <2>1, GuestOver
<1>4. CASE collector # None /\ guest = None
  <2>1. Settle(q, s) /\ current # None
    BY <1>0, <1>4 DEF Cancelled, OwnerInv
  <2>2. CASE q = queue /\ s = st /\ session' = session
    BY <1>4, <2>1, <2>2, SettleKeeps
  <2>3. CASE q = <<>> /\ s = Drained(st) /\ session' \in 0 .. MaxSession
    <3>1. \A r \in Req : s[r] # "queued"
      BY <1>0, <2>3, DrainedFacts
    <3> QED
      BY <1>1, <1>4, <2>1, <2>3, <3>1, SettleEmpty
  <2> QED
    BY <2>2, <2>3 DEF Kept
<1> QED
  BY <1>2, <1>3, <1>4

LEMMA PortsKeep == GateInv /\ Ports => GateInv'
<1> SUFFICES ASSUME GateInv, Ports PROVE GateInv'
  OBVIOUS
<1>0. TypeOK /\ PortInv /\ OwnerInv
  BY DEF GateInv
<1>1. session < MaxSession => session + 1 \in 0 .. MaxSession
  BY <1>0, GateAssumption DEF TypeOK
<1>2. CASE PortError
  BY <1>1, <1>2, DrainKeeps DEF PortError, Quiet, Drain, Links
<1>3. CASE CloseDone
  <2>1. phase # "wire"
    BY <1>0, <1>3 DEF CloseDone, PortInv
  <2> QED
    BY <1>1, <1>3, <2>1, DrainKeeps DEF CloseDone, Quiet, Drain, Links
<1>4. CASE PortClosed
  <2>1. /\ Quiet /\ link' = "down" /\ session' \in 0 .. MaxSession /\ collector' = None
        /\ Cancelled(<<>>, Drained(st)) /\ UNCHANGED <<reqVars, wrote, older>>
    BY <1>1, <1>4 DEF PortClosed
  <2>2. Kept(<<>>, Drained(st)) /\ link' \in Links /\ link' # "connected"
    BY <2>1 DEF Kept, Links
  <2> QED
    BY <2>1, <2>2, CancelledKeeps
<1>5. CASE Disconnect
  <2>1. /\ Quiet /\ link' = "closing" /\ session' = session /\ collector' = None
        /\ Cancelled(queue, st) /\ UNCHANGED <<reqVars, wrote, older>>
    BY <1>5 DEF Disconnect
  <2>2. Kept(queue, st) /\ link' \in Links /\ link' # "connected"
    BY <2>1 DEF Kept, Links
  <2> QED
    BY <2>1, <2>2, CancelledKeeps
<1>6. CASE Connect
  <2>1. /\ phase = "idle" /\ current = None /\ queue = <<>>
        /\ link' = "connected" /\ session' = session + 1 /\ session' \in 0 .. MaxSession
        /\ UNCHANGED <<collector, queue, current, guest, left, phase, st, reqVars, wrote, older>>
    BY <1>0, <1>1, <1>6 DEF Connect, Quiet, PortInv, OwnerInv, TypeOK, gateVars
  <2>2. \A r \in Req : st'[r] # "queued"
    <3>1. \A i \in 1 .. Len(queue) : FALSE
      BY <2>1, EmptySeq
    <3> QED
      BY <2>1, <3>1 DEF GateInv, QueueInv
  <2>3. QueueInv'
    BY <2>1, <2>2, QueueEmpty
  <2>4. TypeOK'
    BY <1>0, <2>1 DEF TypeOK, reqVars
  <2>5. OwnerInv' /\ PortInv' /\ LinesInv' /\ WroteInv'
    BY <2>1 DEF GateInv, OwnerInv, PortInv, LinesInv, WroteInv
  <2> QED
    BY <2>3, <2>4, <2>5 DEF GateInv
<1> QED
  BY <1>2, <1>3, <1>4, <1>5, <1>6 DEF Ports

LEMMA PageKeeps == GateInv /\ Page => GateInv'
<1>1. ASSUME GateInv, NEW r \in Req, QueueTimeout(r) \/ Abort(r) PROVE GateInv'
  BY <1>1, DropKeeps DEF QueueTimeout, Abort
<1> QED
  BY <1>1, RunKeeps DEF Page

LEMMA GateStep == GateInv /\ [Next]_vars => GateInv'
<1> SUFFICES ASSUME GateInv, [Next]_vars PROVE GateInv'
  OBVIOUS
<1>1. CASE Continue
  BY <1>1, SendKeeps, YieldKeeps DEF Continue
<1>2. CASE LineEnds
  BY <1>2, LineEndsKeeps
<1>3. CASE Ports
  BY <1>3, PortsKeep
<1>4. CASE Page
  BY <1>4, PageKeeps
<1>5. CASE UNCHANGED vars
  <2>1. UNCHANGED <<link, session, collector, queue, current, guest, left, phase, st, cls, gen,
                    lines, wrote, older>>
    BY <1>5 DEF vars, linkVars, gateVars, reqVars, histVars
  <2> QED
    BY <2>1 DEF GateInv, TypeOK, QueueInv, Ordered, OwnerInv, PortInv, LinesInv, WroteInv, Queued
<1> QED
  BY <1>1, <1>2, <1>3, <1>4, <1>5 DEF Next

\* In every reachable state the queue of commandGate.ts is in rank order and of
\* the present USB session, one owner (and at most its guest) holds the gate, and
\* the client's collector is theirs.
THEOREM GateInvariant == Spec => []GateInv
<1>1. Init => GateInv
  BY InitGate
<1>2. GateInv /\ [Next]_vars => GateInv'
  BY GateStep
<1> QED
  BY <1>1, <1>2, PTL DEF Spec

\* No continuation of the gate ever finds another command in flight at the
\* client, and a request the gate rejected has put nothing on the wire: the
\* promise of GateError and the rule of the client's "busy" check.
THEOREM GateNeverCollides == Spec => []NoCollision
<1>1. GateInv => NoCollision
  BY DEF GateInv, OwnerInv, WroteInv, NoCollision
<1> QED
  BY <1>1, GateInvariant, PTL

-----------------------------------------------------------------------------
(* What a step may never do.                                               *)

Crossed == \A r \in Req : Writes(r) => gen[r] = session

Wired ==
  \A r \in Req :
    /\ Writes(r) /\ cls[r] # "urgent" => ~\E u \in Queued : cls[u] = "urgent"
    /\ st[r] = "queued" /\ st'[r] = "running" => older[r] \cap Queued = {}

\* Only the head of the queue starts to run.
Starts == \A r \in Req : st[r] = "queued" /\ st'[r] = "running" => queue # <<>> /\ r = queue[1]

\* Events write nothing: they keep the collector or clear it.
LEMMA EventsWriteNothing ==
  ASSUME Quiet, collector' \in {None, collector}
  PROVE  \A r \in Req : ~Writes(r)
  BY GateAssumption DEF Quiet, Writes

LEMMA SettleStarts ==
  ASSUME GateInv, current # None, NEW q, NEW s, Kept(q, s), Settle(q, s), UNCHANGED reqVars
  PROVE  Starts
<1>0. TypeOK /\ QueueInv /\ OwnerInv /\ current \in Req /\ queue \in Seq(Req)
  BY DEF GateInv, TypeOK
<1>1. Outcome(s) /\ s \in [Req -> Status]
  BY <1>0, DrainedFacts DEF Kept, Outcome
<1>2. q \in Seq(Req) /\ \A i \in 1 .. Len(q) : gen[q[i]] = session'
  <2>1. CASE q = queue /\ session' = session
    BY <1>0, <2>1 DEF QueueInv
  <2>2. CASE q = <<>>
    BY <2>2, EmptySeq
  <2> QED
    BY <2>1, <2>2 DEF Kept
<1>3. Pump(q, [s EXCEPT ![current] = "idle"], gen, lines)
  BY DEF Settle
<1>4. Pumped(q, [s EXCEPT ![current] = "idle"], lines)
  BY <1>2, <1>3, PumpFacts
<1>5. ASSUME NEW r \in Req, st[r] = "queued", st'[r] = "running"
      PROVE  q # <<>> /\ r = q[1]
  <2>1. s[r] # "running"
    BY <1>1, <1>5 DEF Outcome
  <2>2. [s EXCEPT ![current] = "idle"][r] # "running"
    BY <1>1, <2>1
  <2> QED
    BY <1>4, <1>5, <2>2 DEF Pumped
<1> QED
  BY <1>5 DEF Starts, Kept

\* A step under which nobody but one request that does not wait changes to running.
LEMMA NobodyStarts ==
  ASSUME \A r \in Req : st[r] = "queued" => st'[r] # "running"
  PROVE  Starts
  BY DEF Starts

LEMMA StepStarts == GateInv /\ Next => Starts
<1> SUFFICES ASSUME GateInv, Next PROVE Starts
  OBVIOUS
<1>0. TypeOK /\ QueueInv /\ OwnerInv /\ st \in [Req -> Status]
  BY DEF GateInv, TypeOK, Status
<1>1. Kept(queue, st) \/ session' # session
  BY DEF Kept
<1>2. CASE YieldToUrgent
  <2>1. queue # <<>> /\ Head(queue) = queue[1] /\ Head(queue) \in Req
    BY <1>2, HeadFacts DEF YieldToUrgent, Yields
  <2>2. \A r \in Req : r # Head(queue) => st'[r] = st[r]
    BY <1>0, <1>2, <2>1 DEF YieldToUrgent
  <2> QED
    BY <2>1, <2>2 DEF Starts
<1>3. CASE SendLine
  <2>1. CASE CanSend
    BY <1>3, <2>1, NobodyStarts DEF SendLine
  <2>2. CASE ~CanSend
    BY <1>0, <1>1, <1>3, <2>2, SettleStarts DEF SendLine, OwnerInv, linkVars
  <2> QED
    BY <2>1, <2>2
<1>4. ASSUME NEW ok, LineOver(ok), collector # None, session' = session, UNCHANGED reqVars
      PROVE  Starts
  <2>1. current # None
    BY <1>0, <1>4 DEF OwnerInv
  <2>2. CASE guest # None
    BY <1>0, <1>4, <2>2, NobodyStarts DEF LineOver
  <2>3. CASE guest = None /\ ok /\ left > 0
    BY <1>4, <2>3, NobodyStarts DEF LineOver
  <2>4. CASE guest = None /\ ~(ok /\ left > 0)
    BY <1>1, <1>4, <2>1, <2>4, SettleStarts DEF LineOver
  <2> QED
    BY <2>2, <2>3, <2>4
<1>5. CASE LineEnds
  <2>1. ASSUME NEW ok \in BOOLEAN, Reply(ok) PROVE Starts
    BY <1>4, <2>1 DEF Reply, linkVars
  <2>2. ASSUME NEW framed \in BOOLEAN, Timeout(framed) PROVE Starts
    <3>1. PICK off \in BOOLEAN : off = FALSE
      OBVIOUS
    <3>2. /\ LineOver(off) /\ collector # None /\ session' = session /\ UNCHANGED reqVars
      BY <2>2, <3>1 DEF Timeout
    <3> QED
      BY <1>4, <3>2
  <2> QED
    BY <1>5, <2>1, <2>2 DEF LineEnds
<1>6. ASSUME NEW q, NEW s, Kept(q, s), Cancelled(q, s), UNCHANGED reqVars
      PROVE  Starts
  <2>0. Outcome(s) /\ s \in [Req -> Status]
    BY <1>0, <1>6, DrainedFacts DEF Kept, Outcome
  <2>1. CASE collector = None
    BY <1>6, <2>0, <2>1, NobodyStarts DEF Cancelled, Outcome
  <2>2. CASE collector # None /\ guest # None
    BY <1>6, <2>0, <2>2, NobodyStarts DEF Cancelled, Outcome
  <2>3. CASE collector # None /\ guest = None
    BY <1>0, <1>6, <2>3, SettleStarts DEF Cancelled, OwnerInv
  <2> QED
    BY <2>1, <2>2, <2>3
<1>7. CASE Ports
  <2>1. \A r \in Req : st[r] = "queued" => Drained(st)[r] # "running" /\ st[r] # "running"
    BY <1>0, DrainedFacts DEF Outcome
  <2>2. CASE PortError \/ CloseDone
    BY <2>1, <2>2, NobodyStarts DEF PortError, CloseDone
  <2>3. CASE Connect
    BY <2>1, <2>3, NobodyStarts DEF Connect, gateVars
  <2>4. CASE Disconnect
    BY <1>1, <1>6, <2>4 DEF Disconnect
  <2>5. CASE PortClosed
    <3>1. session' \in 0 .. MaxSession
      BY <1>0, <2>5, GateAssumption DEF PortClosed, TypeOK
    <3>2. Kept(<<>>, Drained(st))
      BY <2>5, <3>1 DEF PortClosed, Kept
    <3> QED
      BY <1>6, <2>5, <3>2 DEF PortClosed
  <2> QED
    BY <1>7, <2>2, <2>3, <2>4, <2>5 DEF Ports
<1>8. CASE Page
  <2>1. ASSUME NEW r \in Req, QueueTimeout(r) \/ Abort(r) PROVE Starts
    BY <1>0, <2>1, NobodyStarts DEF QueueTimeout, Abort, DropQueued
  <2>2. ASSUME NEW r \in Req, NEW c \in Class, NEW n \in 1 .. Lines, Run(r, c, n) PROVE Starts
    <3>0. RunStep(r, c, n) /\ st[r] # "queued"
      BY <2>2 DEF Run, RunStep
    <3>1. CASE Refuses(c)
      BY <1>0, <2>2, <3>1, NobodyStarts DEF Run
    <3>2. CASE ~Refuses(c) /\ current = None
      <4>1. Pump(Insert(queue, r, c), [st EXCEPT ![r] = "queued"], gen', lines')
        BY <2>2, <3>2 DEF Run
      <4>2. \A x \in Req : st'[x] = IF x = r THEN "running" ELSE st[x]
        BY <2>2, <3>0, <3>2, <4>1, DispatchedKeeps
      <4> QED
        BY <3>0, <4>2, NobodyStarts
    <3>3. CASE ~Refuses(c) /\ current # None
      BY <1>0, <2>2, <3>3, NobodyStarts DEF Run
    <3> QED
      BY <3>1, <3>2, <3>3
  <2> QED
    BY <1>8, <2>1, <2>2 DEF Page
<1> QED
  BY <1>2, <1>3, <1>5, <1>7, <1>8 DEF Next, Continue

\* Who writes, and what waits then.
StepWritesWell ==
  \A r \in Req : Writes(r) =>
    /\ gen[r] = session
    /\ cls[r] # "urgent" => \A i \in 1 .. Len(queue) : cls[queue[i]] # "urgent"

LEMMA StepWrites == GateInv /\ Next => StepWritesWell
<1> SUFFICES ASSUME GateInv, Next PROVE StepWritesWell
  OBVIOUS
<1>0. TypeOK /\ OwnerInv /\ PortInv /\ LinesInv
  BY DEF GateInv
<1>1. CASE YieldToUrgent
  <2>1. /\ queue # <<>> /\ cls[Head(queue)] = "urgent" /\ phase = "ready"
        /\ \/ collector' = Head(queue) /\ gen[Head(queue)] = session
           \/ phase' = phase
    BY <1>1 DEF YieldToUrgent, Yields
  <2> QED
    BY <2>1 DEF StepWritesWell, Writes
<1>2. CASE SendLine
  <2>1. CASE CanSend
    <3>1. /\ collector' = current /\ link = "connected" /\ phase = "ready" /\ ~Yields
          /\ current # None /\ current \in Req /\ gen[current] = session
      BY <1>0, <1>2, <2>1 DEF SendLine, CanSend, OwnerInv, PortInv, TypeOK
    <3>2. ASSUME cls[current] # "urgent", NEW i \in 1 .. Len(queue)
          PROVE  cls[queue[i]] # "urgent"
      <4>1. lines[current] \in 1 .. Lines
        BY <1>0, <3>1 DEF TypeOK
      <4>2. CASE lines[current] = 1
        BY <1>0, <3>1, <3>2, <4>2 DEF LinesInv
      <4>3. CASE lines[current] > 1
        <5>1. queue # <<>>
          BY <3>2, EmptySeq
        <5>2. cls[queue[1]] # "urgent"
          BY <3>1, <4>3, <5>1, HeadFacts DEF Yields
        <5> QED
          BY <3>2, <5>1, <5>2, HeadFacts
      <4> QED
        BY <4>1, <4>2, <4>3
    <3> QED
      BY <3>1, <3>2 DEF StepWritesWell, Writes
  <2>2. CASE ~CanSend
    <3>1. Settle(queue, st)
      BY <1>2, <2>2 DEF SendLine
    <3>2. phase' # "wire"
      BY <3>1 DEF Settle, Pump
    <3> QED
      BY <3>2 DEF StepWritesWell, Writes
  <2> QED
    BY <2>1, <2>2
<1>3. CASE LineEnds
  BY <1>3, EventsWriteNothing DEF LineEnds, Reply, Timeout, StepWritesWell
<1>4. CASE Ports
  <2>1. Quiet /\ collector' \in {None, collector}
    BY <1>4 DEF Ports, PortError, PortClosed, Disconnect, CloseDone, Connect
  <2> QED
    BY <2>1, EventsWriteNothing DEF StepWritesWell
<1>5. CASE Page
  <2>1. Quiet /\ collector' \in {None, collector}
    BY <1>5 DEF Page, Run, QueueTimeout, Abort
  <2> QED
    BY <2>1, EventsWriteNothing DEF StepWritesWell
<1> QED
  BY <1>1, <1>2, <1>3, <1>4, <1>5 DEF Next, Continue

LEMMA StepCrossed == GateInv /\ [Next]_vars => [Crossed]_vars
  BY StepWrites DEF StepWritesWell, Crossed

LEMMA StepWired == GateInv /\ [Next]_vars => [Wired]_vars
<1> SUFFICES ASSUME GateInv, Next PROVE Wired
  OBVIOUS
<1>1. StepWritesWell /\ Starts
  BY StepWrites, StepStarts
<1>2. ASSUME NEW r \in Req, Writes(r), cls[r] # "urgent", NEW u \in Queued
      PROVE  cls[u] # "urgent"
  <2>1. u \in Req /\ st[u] = "queued"
    BY DEF Queued
  <2>2. PICK i \in 1 .. Len(queue) : u = queue[i]
    BY <2>1 DEF GateInv, QueueInv
  <2> QED
    BY <1>1, <1>2, <2>2 DEF StepWritesWell
<1>3. ASSUME NEW r \in Req, st[r] = "queued", st'[r] = "running"
      PROVE  older[r] \cap Queued = {}
  BY <1>1, <1>3, HeadFacts DEF Starts
<1> QED
  BY <1>2, <1>3 DEF Wired

\* No request is sent in a USB session other than the one it was made in, nor
\* any later line of a compound one, for any number of requests and sessions:
\* the generation check of commandGate.ts and createHost.ts's numbering.
THEOREM NeverCrossesSessions == Spec => NoCrossSession
<1>1. GateInv /\ [Next]_vars => [Crossed]_vars
  BY StepCrossed
<1> QED
  BY <1>1, GateInvariant, PTL DEF Spec, NoCrossSession, Crossed

\* No other line is written while an urgent request waits, and within a class
\* requests are dispatched in the order they were made: run()'s stable insert,
\* pump() and yieldToUrgent() of commandGate.ts.
THEOREM KeepsWireOrder == Spec => WireOrder
<1>1. GateInv /\ [Next]_vars => [Wired]_vars
  BY StepWired
<1> QED
  BY <1>1, GateInvariant, PTL DEF Spec, WireOrder, Wired
=============================================================================
