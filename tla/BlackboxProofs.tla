--------------------------- MODULE BlackboxProofs ---------------------------
(***************************************************************************)
(* Proofs about Blackbox for every capacity of the FIFO and of the ring,   *)
(* every sector length, header and rate, and sessions of any length.       *)
(*                                                                         *)
(* A log is described by position: At(h, k, i) is unit i of a log of k     *)
(* frames under a header of rate h.  The invariant says that file, sector  *)
(* on its way and ring, read one after the other, are such a log of the    *)
(* samples encoded so far, and that the FIFO holds the samples that        *)
(* follow.  Each step of the poll moves units from one part to the next.   *)
(***************************************************************************)
EXTENDS Blackbox, WellFoundedInduction, TLAPS

-----------------------------------------------------------------------------
(* FlattenSeq.                                                             *)

LEMMA LeastNat ==
  ASSUME NEW S, S \subseteq Nat, S # {}
  PROVE  \E m \in S : \A n \in S : m <= n
<1> DEFINE R == OpToRel(<, Nat)
<1>1. IsWellFoundedOn(R, Nat)
  BY NatLessThanWellFounded
<1>2. \A x, y \in Nat : <<x, y>> \in R <=> x < y
  BY DEF OpToRel
<1> HIDE DEF R
<1>3. PICK m \in S : \A n \in S : <<n, m>> \notin R
  BY <1>1, WFMin
<1>4. ASSUME NEW n \in S PROVE m <= n
  <2>1. n \in Nat /\ m \in Nat
    OBVIOUS
  <2>2. ~(n < m)
    BY <2>1, <1>2, <1>3
  <2> QED
    BY <2>1, <2>2
<1> QED
  BY <1>4

\* f[i] is the concatenation of the first i of the n sequences s.
Flattens(f, s, n) == f = [i \in 1 .. n |-> IF i = 1 THEN s[i] ELSE f[i - 1] \o s[i]]

LEMMA FlattenExists ==
  ASSUME NEW s, NEW n \in Nat
  PROVE  \E f : Flattens(f, s, n)
<1> DEFINE B == {m \in Nat : ~\E f : Flattens(f, s, m)}
<1> SUFFICES ASSUME B # {} PROVE FALSE
  OBVIOUS
<1>1. PICK m \in B : \A k \in B : m <= k
  <2>1. B \subseteq Nat
    OBVIOUS
  <2> HIDE DEF B
  <2> QED
    BY <2>1, LeastNat
<1>2. m # 0
  <2>1. Flattens([i \in 1 .. 0 |-> 0], s, 0)
    BY DEF Flattens
  <2> QED
    BY <2>1
<1>3. PICK f : Flattens(f, s, m - 1)
  <2>1. m - 1 \in Nat /\ ~(m <= m - 1)
    BY <1>2
  <2> QED
    BY <2>1, <1>1
<1> DEFINE g == [i \in 1 .. m |-> IF i < m THEN f[i] ELSE IF i = 1 THEN s[i] ELSE f[i - 1] \o s[i]]
<1>4. ASSUME NEW i \in 1 .. m
      PROVE  g[i] = IF i = 1 THEN s[i] ELSE g[i - 1] \o s[i]
  <2>1. i < m => f[i] = IF i = 1 THEN s[i] ELSE f[i - 1] \o s[i]
    <3>1. i < m => i \in 1 .. m - 1
      OBVIOUS
    <3> QED
      BY <3>1, <1>3 DEF Flattens
  <2>2. i # 1 => i - 1 \in 1 .. m /\ i - 1 < m
    OBVIOUS
  <2>3. i # 1 => g[i - 1] = f[i - 1]
    BY <2>2
  <2> QED
    BY <2>1, <2>3
<1>5. Flattens(g, s, m)
  <2> HIDE DEF g
  <2>1. g = [i \in 1 .. m |-> g[i]]
    BY DEF g
  <2> QED
    BY <2>1, <1>4 DEF Flattens
<1> QED
  BY <1>1, <1>5

LEMMA FlattenIs ==
  ASSUME NEW s, Len(s) \in Nat \ {0}
  PROVE  \E f : Flattens(f, s, Len(s)) /\ FlattenSeq(s) = f[Len(s)]
<1> DEFINE f == CHOOSE h : Flattens(h, s, Len(s))
<1>1. Flattens(f, s, Len(s))
  BY FlattenExists
<1>2. FlattenSeq(s) = f[Len(s)]
  BY DEF FlattenSeq, Flattens
<1> QED
  BY <1>1, <1>2

LEMMA FlattenSame ==
  ASSUME NEW s, NEW t, NEW n \in Nat, \A i \in 1 .. n : s[i] = t[i],
         NEW f, Flattens(f, s, n), NEW g, Flattens(g, t, n + 1)
  PROVE  \A i \in 1 .. n : f[i] = g[i]
<1> DEFINE B == {i \in 1 .. n : f[i] # g[i]}
<1> SUFFICES ASSUME B # {} PROVE FALSE
  OBVIOUS
<1>1. PICK i \in B : \A j \in B : i <= j
  <2>1. B \subseteq Nat
    OBVIOUS
  <2> HIDE DEF B
  <2> QED
    BY <2>1, LeastNat
<1>2. i \in 1 .. n /\ i \in 1 .. n + 1
  OBVIOUS
<1>3. /\ f[i] = IF i = 1 THEN s[i] ELSE f[i - 1] \o s[i]
      /\ g[i] = IF i = 1 THEN t[i] ELSE g[i - 1] \o t[i]
  BY <1>2 DEF Flattens
<1>4. i # 1 => f[i - 1] = g[i - 1]
  <2>1. i # 1 => i - 1 \in 1 .. n /\ ~(i <= i - 1)
    OBVIOUS
  <2> QED
    BY <2>1, <1>1
<1> QED
  BY <1>1, <1>3, <1>4

\* A sector more.
LEMMA FlattenAppend ==
  ASSUME NEW U, NEW s \in Seq(U), NEW x \in U
  PROVE  FlattenSeq(Append(s, x)) = IF s = <<>> THEN x ELSE FlattenSeq(s) \o x
<1> DEFINE t == Append(s, x)
           n == Len(s)
<1>1. n \in Nat /\ Len(t) = n + 1 /\ t[n + 1] = x /\ \A i \in 1 .. n : t[i] = s[i]
  OBVIOUS
<1> HIDE DEF t
<1>2. PICK g : Flattens(g, t, n + 1) /\ FlattenSeq(t) = g[n + 1]
  BY <1>1, FlattenIs
<1>3. g[n + 1] = IF n = 0 THEN x ELSE g[n] \o x
  <2>1. n + 1 \in 1 .. n + 1 /\ (n + 1) - 1 = n /\ (n + 1 = 1 <=> n = 0)
    BY <1>1
  <2>2. g[n + 1] = IF n + 1 = 1 THEN t[n + 1] ELSE g[(n + 1) - 1] \o t[n + 1]
    BY <2>1, <1>2 DEF Flattens
  <2> QED
    BY <1>1, <2>1, <2>2
<1>4. CASE s = <<>>
  BY <1>2, <1>3, <1>4 DEF t
<1>5. CASE s # <<>>
  <2>1. n # 0
    BY <1>5
  <2>2. PICK f : Flattens(f, s, n) /\ FlattenSeq(s) = f[n]
    BY <1>1, <2>1, FlattenIs
  <2>3. n \in 1 .. n
    BY <1>1, <2>1
  <2>4. \A i \in 1 .. n : f[i] = g[i]
    <3>1. /\ n \in Nat /\ \A i \in 1 .. n : s[i] = t[i]
          /\ Flattens(f, s, n) /\ Flattens(g, t, n + 1)
      BY <1>1, <1>2, <2>2
    <3> HIDE DEF n
    <3> QED
      BY <3>1, FlattenSame
  <2> QED
    BY <1>2, <1>3, <1>5, <2>1, <2>2, <2>3, <2>4 DEF t
<1> QED
  BY <1>4, <1>5

\* Another first sector of the same length.
LEMMA FlattenPatch ==
  ASSUME NEW U, NEW s \in Seq(Seq(U)), s # <<>>, NEW p \in Seq(U), Len(p) = Len(s[1]),
         NEW t, Len(t) = Len(s), t[1] = p, \A i \in 1 .. Len(s) : i # 1 => t[i] = s[i],
         NEW a, a = FlattenSeq(s), NEW b, b = FlattenSeq(t)
  PROVE  /\ b \in Seq(U) /\ Len(b) = Len(a) /\ Len(p) <= Len(a)
         /\ \A j \in 1 .. Len(a) : b[j] = IF j <= Len(p) THEN p[j] ELSE a[j]
<1> DEFINE n == Len(s)
<1>1. /\ n \in Nat \ {0} /\ Len(t) = n /\ t[1] = p /\ 1 \in 1 .. n
      /\ \A i \in 1 .. n : s[i] \in Seq(U) /\ (i # 1 => t[i] = s[i])
  OBVIOUS
<1>2. PICK f : Flattens(f, s, n) /\ FlattenSeq(s) = f[n]
  BY <1>1, FlattenIs
<1>3. PICK g : Flattens(g, t, n) /\ FlattenSeq(t) = g[n]
  BY <1>1, FlattenIs
<1> DEFINE Right(v, w) == /\ v \in Seq(U) /\ w \in Seq(U)
                          /\ Len(w) = Len(v) /\ Len(p) <= Len(v)
                          /\ \A j \in 1 .. Len(v) : w[j] = IF j <= Len(p) THEN p[j] ELSE v[j]
           B == {i \in 1 .. n : ~Right(f[i], g[i])}
<1>4. Right(s[1], t[1])
  BY <1>1
<1>5. ASSUME NEW v, NEW w, Right(v, w), NEW x \in Seq(U)
      PROVE  Right(v \o x, w \o x)
  <2>1. /\ v \o x \in Seq(U) /\ w \o x \in Seq(U)
        /\ Len(v \o x) = Len(v) + Len(x) /\ Len(w \o x) = Len(w) + Len(x)
    <3>1. v \in Seq(U) /\ w \in Seq(U)
      BY <1>5
    <3> QED
      BY <3>1
  <2>2. ASSUME NEW j \in 1 .. Len(v) + Len(x)
        PROVE  (w \o x)[j] = IF j <= Len(p) THEN p[j] ELSE (v \o x)[j]
    <3>1. /\ (w \o x)[j] = IF j <= Len(w) THEN w[j] ELSE x[j - Len(w)]
          /\ (v \o x)[j] = IF j <= Len(v) THEN v[j] ELSE x[j - Len(v)]
      BY <1>5
    <3>2. j <= Len(v) => w[j] = IF j <= Len(p) THEN p[j] ELSE v[j]
      BY <1>5
    <3> QED
      BY <3>1, <3>2, <1>5
  <2>3. Len(p) <= Len(v) + Len(x)
    BY <1>5
  <2> QED
    BY <1>5, <2>1, <2>2, <2>3
<1>6. B = {}
  <2> SUFFICES ASSUME B # {} PROVE FALSE
    OBVIOUS
  <2>1. PICK i \in B : \A j \in B : i <= j
    <3>1. B \subseteq Nat
      OBVIOUS
    <3> HIDE DEF B
    <3> QED
      BY <3>1, LeastNat
  <2>2. i \in 1 .. n /\ ~Right(f[i], g[i])
    OBVIOUS
  <2>3. /\ f[i] = IF i = 1 THEN s[i] ELSE f[i - 1] \o s[i]
        /\ g[i] = IF i = 1 THEN t[i] ELSE g[i - 1] \o t[i]
    BY <2>2, <1>2, <1>3 DEF Flattens
  <2>4. i # 1 => Right(f[i - 1], g[i - 1])
    <3>1. i # 1 => i - 1 \in 1 .. n /\ ~(i <= i - 1)
      BY <2>2
    <3> QED
      BY <2>1, <3>1
  <2> HIDE DEF Right, B
  <2>5. CASE i = 1
    BY <2>2, <2>3, <2>5, <1>4
  <2>6. CASE i # 1
    BY <1>1, <1>5, <2>2, <2>3, <2>4, <2>6
  <2> QED
    BY <2>5, <2>6
<1>7. n \in 1 .. n
  BY <1>1
<1>8. Right(f[n], g[n])
  BY <1>6, <1>7
<1> QED
  BY <1>2, <1>3, <1>8

-----------------------------------------------------------------------------
(* The invariant.                                                          *)

Units  == {"rate", "meta", "frame", "end"} \X Nat
Sample == [id : Nat, armed : BOOLEAN, events : SUBSET Event]

\* Unit i of a log with header rate h and k frames.
At(h, k, i) == IF i = 1 THEN Unit("rate", h)
               ELSE IF i <= Meta + 1 THEN Unit("meta", i - 1)
               ELSE IF i <= Meta + 1 + k THEN Frame(i - (Meta + 1)) ELSE EndUnit

\* a, b and c are what is stored, on its way and in the ring of a log with header
\* rate h, of k frames and, with e = 1, its end marker.
Parts(a, b, c, h, k, e) ==
  /\ a \in Seq(Units) /\ b \in Seq(Units) /\ c \in Seq(Units)
  /\ Len(a) + Len(b) + Len(c) = Meta + 1 + k + e
  /\ \A i \in 1 .. Len(a) : a[i] = At(h, k, i)
  /\ \A i \in 1 .. Len(b) : b[i] = At(h, k, Len(a) + i)
  /\ \A i \in 1 .. Len(c) : c[i] = At(h, k, Len(a) + Len(b) + i)

Stored  == FlattenSeq(content)
Sent    == IF op = "append" THEN pend ELSE <<>>
Encoded == Len(accepted) - Len(queue)
Marker  == IF end_created THEN 1 ELSE 0
OnCard  == IF op = "patch" THEN Rate ELSE header_hz

Numbered == accepted \in Seq(Sample) /\ \A i \in 1 .. Len(accepted) : accepted[i].id = i

\* The FIFO holds the last samples accepted, numbered as they came.
QueueInv ==
  /\ Numbered
  /\ queue \in Seq(Sample) /\ Len(queue) <= Len(accepted)
  /\ \A i \in 1 .. Len(queue) : queue[i] = accepted[Encoded + i]

\* The first sector is a full one of the header alone; its patch differs in the rate.
FileInv ==
  /\ content \in Seq(Seq(Units))
  /\ content # <<>> => Len(content[1]) = SectorLen
  /\ op = "append" /\ content = <<>> => Len(pend) = SectorLen
  /\ op = "patch" => /\ content # <<>> /\ pend \in Seq(Units) /\ Len(pend) = SectorLen
                     /\ \A i \in 1 .. SectorLen : pend[i] = At(header_hz, 0, i)

\* Where a session is, and what it has begun.
ControlInv ==
  /\ phase = "WRITING" <=> op # "none"
  /\ sphase = "DRAINING" => stop_requested
  /\ init => sphase = "IDLE" /\ phase = "IDLE"
  /\ pc = "file" => busy
  /\ pc = "session" => busy /\ sphase # "CLOSING"
  /\ active => sphase = "RECORDING" /\ ~stop_requested
  /\ busy /\ end_created => sphase \in {"DRAINING", "CLOSING"} /\ queue = <<>>
  /\ busy /\ patch_done => end_created /\ header_hz = hz
  /\ busy /\ ~patch_done => header_hz = Rate /\ op # "patch"
  /\ sphase \in {"PREPARING", "HEADER"} =>
       content = <<>> /\ op = "none" /\ queue = <<>> /\ accepted = <<>>
  /\ sphase = "CLOSING" => phase = "CLOSING" /\ ring = <<>> /\ end_created /\ header_hz = hz

EventInv == active => noted = pending \cup UNION {accepted[i].events : i \in 1 .. Len(accepted)}

\* A log that is done stays whole.
DoneInv == sphase = "DONE" /\ phase = "DONE" =>
             Numbered /\ Parts(Stored, <<>>, <<>>, hz, Len(accepted), 1)

StreamInv == busy => /\ QueueInv /\ FileInv
                     /\ Parts(Stored, Sent, ring, OnCard, Encoded, Marker)

RecorderInv == TypeOK /\ ControlInv /\ EventInv /\ DoneInv /\ StreamInv

-----------------------------------------------------------------------------
(* The parts of a log.                                                     *)

LEMMA Shape ==
  /\ Meta \in Nat /\ Rate \in Nat /\ SectorLen \in Nat /\ SectorLen >= 1
  /\ SectorLen <= Meta + 1 /\ Meta + 1 <= Ring /\ SectorLen + 1 <= Ring
  /\ Ring \in Nat /\ Queue \in Nat /\ FloorHz \in Nat \ {0} /\ FloorHz <= Rate
  BY PipelineAssumption

LEMMA HeaderFacts ==
  ASSUME NEW h \in Nat, NEW k \in Nat
  PROVE  /\ Header(h) \in Seq(Units) /\ Len(Header(h)) = Meta + 1
         /\ \A i \in 1 .. Meta + 1 : Header(h)[i] = At(h, k, i)
<1> DEFINE a == <<Unit("rate", h)>>
           b == [i \in 1 .. Meta |-> Unit("meta", i)]
<1>1. /\ a \in Seq(Units) /\ Len(a) = 1 /\ a[1] = Unit("rate", h)
  BY DEF Units, Unit
<1>2. /\ b \in Seq(Units) /\ Len(b) = Meta /\ \A i \in 1 .. Meta : b[i] = Unit("meta", i)
  BY Shape DEF Units, Unit
<1> HIDE DEF a, b
<1>3. /\ a \o b \in Seq(Units) /\ Len(a \o b) = Meta + 1
      /\ \A i \in 1 .. Meta + 1 : (a \o b)[i] = IF i = 1 THEN a[1] ELSE b[i - 1]
  <2>1. /\ a \o b \in Seq(Units) /\ Len(a \o b) = Len(a) + Len(b)
        /\ \A i \in 1 .. Len(a) + Len(b) :
             (a \o b)[i] = IF i <= Len(a) THEN a[i] ELSE b[i - Len(a)]
    <3>1. a \in Seq(Units) /\ b \in Seq(Units)
      BY <1>1, <1>2
    <3> QED
      BY <3>1
  <2>2. Len(a) + Len(b) = Meta + 1 /\ \A i \in 1 .. Meta + 1 : i <= 1 <=> i = 1
    BY <1>1, <1>2, Shape
  <2> QED
    BY <1>1, <2>1, <2>2
<1>4. ASSUME NEW i \in 1 .. Meta + 1 PROVE (a \o b)[i] = At(h, k, i)
  <2>1. i # 1 => i - 1 \in 1 .. Meta
    BY Shape
  <2> QED
    BY <1>1, <1>2, <1>3, <2>1 DEF At
<1> QED
  BY <1>3, <1>4 DEF Header, a, b

\* The ring takes the next frame.
LEMMA TakeFrame ==
  ASSUME NEW a, NEW b, NEW c, NEW h, NEW k \in Nat, Parts(a, b, c, h, k, 0)
  PROVE  Parts(a, b, Append(c, Frame(k + 1)), h, k + 1, 0)
<1> DEFINE x == Frame(k + 1)
           d == Append(c, x)
<1>1. /\ a \in Seq(Units) /\ b \in Seq(Units) /\ c \in Seq(Units) /\ Meta \in Nat
      /\ Len(a) \in Nat /\ Len(b) \in Nat /\ Len(c) \in Nat
      /\ Len(a) + Len(b) + Len(c) = Meta + 1 + k
  BY Shape DEF Parts
<1>2. x \in Units
  BY DEF Frame, Unit, Units
<1>3. /\ d \in Seq(Units) /\ Len(d) = Len(c) + 1 /\ d[Len(c) + 1] = x
      /\ \A i \in 1 .. Len(c) : d[i] = c[i]
  <2> HIDE DEF x
  <2> QED
    BY <1>1, <1>2
<1>4. \A i \in 1 .. Meta + 1 + k : At(h, k + 1, i) = At(h, k, i)
  BY <1>1 DEF At
<1> DEFINE last == Meta + 1 + k + 1
<1>5. At(h, k + 1, last) = x
  <2>1. /\ last # 1 /\ ~(last <= Meta + 1) /\ last <= Meta + 1 + (k + 1)
        /\ last - (Meta + 1) = k + 1
    BY <1>1
  <2> HIDE DEF last, x
  <2>2. At(h, k + 1, last) = Frame(last - (Meta + 1))
    BY <2>1 DEF At
  <2> QED
    BY <2>1, <2>2 DEF x
<1> HIDE DEF x, d
<1>6. ASSUME NEW i \in 1 .. Len(d) PROVE d[i] = At(h, k + 1, Len(a) + Len(b) + i)
  <2>1. CASE i = Len(c) + 1
    <3>1. Len(a) + Len(b) + i = Meta + 1 + k + 1
      <4>1. Len(a) + Len(b) + (Len(c) + 1) = Len(a) + Len(b) + Len(c) + 1
        BY <1>1
      <4> QED
        BY <1>1, <2>1, <4>1
    <3> QED
      BY <1>3, <1>5, <2>1, <3>1
  <2>2. CASE i # Len(c) + 1
    <3>1. i \in 1 .. Len(c) /\ Len(a) + Len(b) + i \in 1 .. Meta + 1 + k
      BY <1>1, <1>3, <2>2
    <3> QED
      BY <1>3, <1>4, <3>1 DEF Parts
  <2> QED
    BY <2>1, <2>2
<1>7. /\ \A i \in 1 .. Len(a) : i \in 1 .. Meta + 1 + k
      /\ \A i \in 1 .. Len(b) : Len(a) + i \in 1 .. Meta + 1 + k
  BY <1>1
<1>8. /\ \A i \in 1 .. Len(a) : a[i] = At(h, k + 1, i)
      /\ \A i \in 1 .. Len(b) : b[i] = At(h, k + 1, Len(a) + i)
  BY <1>4, <1>7 DEF Parts
<1>9. Len(a) + Len(b) + Len(d) = Meta + 1 + (k + 1) + 0
  BY <1>1, <1>3
<1> QED
  BY <1>1, <1>3, <1>6, <1>8, <1>9 DEF Parts, x, d

\* The ring takes the end marker.
LEMMA TakeEnd ==
  ASSUME NEW a, NEW b, NEW c, NEW h, NEW k \in Nat, Parts(a, b, c, h, k, 0)
  PROVE  Parts(a, b, Append(c, EndUnit), h, k, 1)
<1> DEFINE d == Append(c, EndUnit)
<1>1. /\ a \in Seq(Units) /\ b \in Seq(Units) /\ c \in Seq(Units) /\ Meta \in Nat
      /\ Len(a) \in Nat /\ Len(b) \in Nat /\ Len(c) \in Nat
      /\ Len(a) + Len(b) + Len(c) = Meta + 1 + k
  BY Shape DEF Parts
<1>2. EndUnit \in Units
  BY DEF EndUnit, Unit, Units
<1>3. /\ d \in Seq(Units) /\ Len(d) = Len(c) + 1 /\ d[Len(c) + 1] = EndUnit
      /\ \A i \in 1 .. Len(c) : d[i] = c[i]
  BY <1>1, <1>2
<1>4. At(h, k, Meta + 1 + k + 1) = EndUnit
  <2>1. /\ Meta + 1 + k + 1 # 1 /\ ~(Meta + 1 + k + 1 <= Meta + 1)
        /\ ~(Meta + 1 + k + 1 <= Meta + 1 + k)
    BY <1>1
  <2> QED
    BY <2>1 DEF At
<1> HIDE DEF d
<1>5. ASSUME NEW i \in 1 .. Len(d) PROVE d[i] = At(h, k, Len(a) + Len(b) + i)
  <2>1. CASE i = Len(c) + 1
    <3>1. Len(a) + Len(b) + i = Meta + 1 + k + 1
      <4>1. Len(a) + Len(b) + (Len(c) + 1) = Len(a) + Len(b) + Len(c) + 1
        BY <1>1
      <4> QED
        BY <1>1, <2>1, <4>1
    <3> QED
      BY <1>3, <1>4, <2>1, <3>1
  <2>2. CASE i # Len(c) + 1
    <3>1. i \in 1 .. Len(c)
      BY <1>1, <1>3, <2>2
    <3> QED
      BY <1>3, <3>1 DEF Parts
  <2> QED
    BY <2>1, <2>2
<1>6. Len(a) + Len(b) + Len(d) = Meta + 1 + k + 1
  BY <1>1, <1>3
<1> QED
  BY <1>1, <1>3, <1>5, <1>6 DEF Parts, d

\* The first units of the ring are handed to the file.
LEMMA HandOver ==
  ASSUME NEW a, NEW c, NEW h, NEW k \in Nat, NEW e \in {0, 1}, Parts(a, <<>>, c, h, k, e),
         NEW n \in Nat, n <= Len(c)
  PROVE  /\ SubSeq(c, 1, n) \in Seq(Units) /\ Len(SubSeq(c, 1, n)) = n
         /\ Len(SubSeq(c, n + 1, Len(c))) = Len(c) - n
         /\ Parts(a, SubSeq(c, 1, n), SubSeq(c, n + 1, Len(c)), h, k, e)
<1> DEFINE b == SubSeq(c, 1, n)
           d == SubSeq(c, n + 1, Len(c))
<1>1. /\ a \in Seq(Units) /\ c \in Seq(Units) /\ Len(c) \in Nat /\ Len(a) \in Nat
      /\ Len(a) + Len(c) = Meta + 1 + k + e /\ Meta \in Nat
      /\ \A i \in 1 .. Len(c) : c[i] = At(h, k, Len(a) + i)
  BY Shape DEF Parts
<1>2. /\ b \in Seq(Units) /\ Len(b) = n /\ \A i \in 1 .. n : b[i] = c[i]
  BY <1>1
<1>3. /\ d \in Seq(Units) /\ Len(d) = Len(c) - n /\ \A i \in 1 .. Len(c) - n : d[i] = c[n + i]
  BY <1>1
<1> HIDE DEF b, d
<1>4. \A i \in 1 .. n : b[i] = At(h, k, Len(a) + i)
  BY <1>1, <1>2
<1>5. ASSUME NEW i \in 1 .. Len(c) - n PROVE d[i] = At(h, k, Len(a) + n + i)
  <2>1. n + i \in 1 .. Len(c) /\ Len(a) + (n + i) = Len(a) + n + i
    BY <1>1
  <2> QED
    BY <1>1, <1>3, <2>1
<1>6. Len(a) + Len(b) + Len(d) = Meta + 1 + k + e
  <2>1. Len(a) + n + (Len(c) - n) = Len(a) + Len(c)
    BY <1>1
  <2> QED
    BY <1>1, <1>2, <1>3, <2>1
<1>7. Parts(a, b, d, h, k, e)
  BY <1>1, <1>2, <1>3, <1>4, <1>5, <1>6 DEF Parts
<1> QED
  BY <1>2, <1>3, <1>7 DEF b, d

\* The last units of the ring are handed to the file.
LEMMA HandLast ==
  ASSUME NEW a, NEW c, NEW h, NEW k \in Nat, NEW e \in {0, 1}, Parts(a, <<>>, c, h, k, e)
  PROVE  Parts(a, c, <<>>, h, k, e)
<1>1. /\ a \in Seq(Units) /\ c \in Seq(Units) /\ <<>> \in Seq(Units) /\ Len(c) \in Nat
      /\ Len(a) \in Nat /\ Len(<<>>) = 0
      /\ Len(a) + Len(<<>>) + Len(c) = Meta + 1 + k + e /\ Meta \in Nat
      /\ \A i \in 1 .. Len(a) : a[i] = At(h, k, i)
      /\ \A i \in 1 .. Len(c) : c[i] = At(h, k, Len(a) + Len(<<>>) + i)
  BY Shape DEF Parts
<1>2. Len(a) + Len(<<>>) = Len(a)
  BY <1>1
<1>3. Len(a) + Len(c) + Len(<<>>) = Meta + 1 + k + e
  BY <1>1
<1>4. \A i \in 1 .. Len(c) : c[i] = At(h, k, Len(a) + i)
  BY <1>1, <1>2
<1>5. \A i \in 1 .. Len(<<>>) : FALSE
  BY <1>1
<1> QED
  BY <1>1, <1>3, <1>4, <1>5 DEF Parts

\* What was on its way is stored.
LEMMA Arrives ==
  ASSUME NEW a, NEW b, NEW c, NEW h, NEW k \in Nat, NEW e \in {0, 1}, Parts(a, b, c, h, k, e)
  PROVE  Parts(a \o b, <<>>, c, h, k, e)
<1>1. /\ a \in Seq(Units) /\ b \in Seq(Units) /\ c \in Seq(Units) /\ <<>> \in Seq(Units)
      /\ Len(a) \in Nat /\ Len(b) \in Nat /\ Len(<<>>) = 0
  BY DEF Parts
<1>2. /\ a \o b \in Seq(Units) /\ Len(a \o b) = Len(a) + Len(b)
      /\ \A i \in 1 .. Len(a) + Len(b) :
           (a \o b)[i] = IF i <= Len(a) THEN a[i] ELSE b[i - Len(a)]
  BY <1>1
<1>3. ASSUME NEW i \in 1 .. Len(a) + Len(b) PROVE (a \o b)[i] = At(h, k, i)
  <2>1. CASE i <= Len(a)
    BY <1>1, <1>2, <2>1 DEF Parts
  <2>2. CASE ~(i <= Len(a))
    <3>1. i - Len(a) \in 1 .. Len(b) /\ Len(a) + (i - Len(a)) = i
      BY <1>1, <2>2
    <3>2. b[i - Len(a)] = At(h, k, Len(a) + (i - Len(a)))
      BY <3>1 DEF Parts
    <3> QED
      BY <1>2, <2>2, <3>1, <3>2
  <2> QED
    BY <2>1, <2>2
<1>4. Len(a \o b) + Len(<<>>) = Len(a) + Len(b)
  BY <1>1, <1>2
<1> QED
  BY <1>1, <1>2, <1>3, <1>4 DEF Parts

\* The first units are rewritten with another rate.
LEMMA Patched ==
  ASSUME NEW a, NEW c, NEW h, NEW k \in Nat, NEW e \in {0, 1}, Parts(a, <<>>, c, h, k, e),
         NEW g, NEW p \in Seq(Units), Len(p) >= 1, Len(p) <= Meta + 1, Len(p) <= Len(a),
         \A i \in 1 .. Len(p) : p[i] = At(g, 0, i),
         NEW b \in Seq(Units), Len(b) = Len(a),
         \A j \in 1 .. Len(a) : b[j] = IF j <= Len(p) THEN p[j] ELSE a[j]
  PROVE  Parts(b, <<>>, c, g, k, e)
<1>1. /\ a \in Seq(Units) /\ c \in Seq(Units) /\ Len(a) \in Nat /\ Len(p) \in Nat /\ Meta \in Nat
      /\ <<>> \in Seq(Units) /\ Len(<<>>) = 0 /\ Len(a) + Len(<<>>) = Len(a)
  BY Shape DEF Parts
<1>2. ASSUME NEW i \in Nat, i > 1 PROVE At(g, k, i) = At(h, k, i)
  BY <1>2 DEF At
<1>3. ASSUME NEW i \in 1 .. Len(b) PROVE b[i] = At(g, k, i)
  <2>1. CASE i <= Len(p)
    <3>1. i \in 1 .. Len(p) /\ i <= Meta + 1
      BY <1>1, <2>1
    <3>2. At(g, 0, i) = At(g, k, i)
      BY <3>1 DEF At
    <3> QED
      BY <2>1, <3>1, <3>2
  <2>2. CASE ~(i <= Len(p))
    <3>1. i \in Nat /\ i > 1 /\ i \in 1 .. Len(a)
      BY <1>1, <2>2
    <3> QED
      BY <1>2, <2>2, <3>1 DEF Parts
  <2> QED
    BY <2>1, <2>2
<1>4. ASSUME NEW i \in 1 .. Len(c) PROVE c[i] = At(g, k, Len(b) + Len(<<>>) + i)
  <2>1. Len(a) + Len(<<>>) + i \in Nat /\ Len(a) + Len(<<>>) + i > 1
    BY <1>1
  <2>2. c[i] = At(h, k, Len(a) + Len(<<>>) + i)
    BY DEF Parts
  <2> QED
    BY <1>2, <2>1, <2>2
<1> QED
  BY <1>1, <1>3, <1>4 DEF Parts

\* A log that has not begun is in the ring alone.
LEMMA Fresh ==
  ASSUME NEW h \in Nat
  PROVE  Parts(<<>>, <<>>, Header(h), h, 0, 0)
<1>1. /\ <<>> \in Seq(Units) /\ Len(<<>>) = 0 /\ Meta \in Nat
      /\ Header(h) \in Seq(Units) /\ Len(Header(h)) = Meta + 1
      /\ \A i \in 1 .. Meta + 1 : Header(h)[i] = At(h, 0, i) /\ 0 + 0 + i = i
  BY HeaderFacts, Shape
<1> QED
  BY <1>1 DEF Parts

-----------------------------------------------------------------------------
(* The steps.                                                              *)

LEMMA StreamSame ==
  ASSUME StreamInv, busy' => busy,
         UNCHANGED <<queue, accepted, content, op, pend, ring, header_hz, end_created>>
  PROVE  StreamInv'
  BY DEF StreamInv, QueueInv, Numbered, FileInv, Parts, Stored, Sent, OnCard, Encoded, Marker

LEMMA DoneSame ==
  ASSUME DoneInv, sphase' = "DONE" /\ phase' = "DONE" => sphase = "DONE" /\ phase = "DONE",
         UNCHANGED <<accepted, content, hz>>
  PROVE  DoneInv'
  BY DEF DoneInv, Numbered, Parts, Stored

LEMMA EventSame ==
  ASSUME EventInv, active' => active, UNCHANGED <<noted, pending, accepted>>
  PROVE  EventInv'
  BY DEF EventInv

LEMMA UnionOne ==
  ASSUME NEW A, NEW B, NEW x, \A y : y \in B <=> y \in A \/ y = x
  PROVE  UNION B = (UNION A) \cup x
  OBVIOUS

LEMMA UnionMoved ==
  ASSUME NEW A, NEW B, NEW C
  PROVE  A \cup (B \cup C) = (B \cup A) \cup C /\ {} \cup A = A
  OBVIOUS

\* The control loop.
LEMMA ObserveKeeps ==
  ASSUME RecorderInv, NEW a \in BOOLEAN, NEW outcome \in {"skip", "invalid", "due", "clock"},
         Observe(a, outcome)
  PROVE  RecorderInv'
<1> DEFINE events == pending \cup Edge(IF a THEN "yes" ELSE "no")
           taken  == outcome = "due" /\ Len(queue) # Queue
           sample == [id |-> Len(accepted) + 1, armed |-> a, events |-> events]
<1>1. /\ pc = "loop" /\ active /\ sphase = "RECORDING" /\ busy /\ ~init
      /\ QueueInv /\ FileInv /\ Parts(Stored, Sent, ring, OnCard, Encoded, Marker)
  BY DEF RecorderInv, ControlInv, StreamInv, Observe, busy
<1>2. /\ armed' = a
      /\ UNCHANGED <<pc, init, init_stop, phase, op, pend, short, content>>
      /\ UNCHANGED <<sphase, stop_requested, end_created, seen_armed, ring, hz, header_hz,
                     patch_done, settle>>
  BY DEF Observe, cliVars, fileVars
<1>3. Edge(IF a THEN "yes" ELSE "no") \subseteq Event
  BY DEF Edge, Event
<1>4. ~end_created
  BY <1>1 DEF RecorderInv, ControlInv
<1>5. CASE outcome = "clock"
  <2>1. /\ active' = FALSE /\ UNCHANGED <<queue, pending, last_armed, lost, accepted, noted>>
    BY <1>5 DEF Observe, histVars
  <2>2. TypeOK'
    <3>1. armed' \in BOOLEAN /\ active' \in BOOLEAN
      BY <1>2, <2>1
    <3> HIDE DEF events, taken, sample
    <3> QED
      BY <1>2, <2>1, <3>1 DEF RecorderInv, TypeOK
  <2>3. ControlInv'
    BY <1>2, <2>1 DEF RecorderInv, ControlInv, busy
  <2>4. EventInv' /\ DoneInv' /\ StreamInv'
    BY <1>2, <2>1, EventSame, DoneSame, StreamSame DEF RecorderInv, busy
  <2> QED
    BY <2>2, <2>3, <2>4 DEF RecorderInv
<1>6. CASE outcome # "clock" /\ ~taken
  <2>1. /\ UNCHANGED <<queue, accepted, active>> /\ last_armed' \in {"yes", "no"}
        /\ noted' = noted \cup Edge(IF a THEN "yes" ELSE "no") /\ pending' = events
        /\ lost' \in BOOLEAN
    BY <1>6 DEF Observe, KeptEvents
  <2>2. TypeOK'
    <3>1. noted' \subseteq Event /\ pending' \subseteq Event
      BY <1>3, <2>1 DEF RecorderInv, TypeOK
    <3> HIDE DEF events
    <3> QED
      BY <1>2, <2>1, <3>1 DEF RecorderInv, TypeOK
  <2>3. ControlInv'
    BY <1>2, <2>1 DEF RecorderInv, ControlInv, busy
  <2>4. EventInv'
    BY <1>1, <2>1 DEF RecorderInv, EventInv
  <2>5. DoneInv' /\ StreamInv'
    BY <1>2, <2>1, DoneSame, StreamSame DEF RecorderInv, busy
  <2> QED
    BY <2>2, <2>3, <2>4, <2>5 DEF RecorderInv
<1>7. CASE outcome # "clock" /\ taken
  <2>1. /\ queue' = Append(queue, sample) /\ accepted' = Append(accepted, sample)
        /\ UNCHANGED active /\ last_armed' \in {"yes", "no"}
        /\ noted' = noted \cup Edge(IF a THEN "yes" ELSE "no") /\ pending' = {}
        /\ lost' \in BOOLEAN
    <3>1. lost \in BOOLEAN
      BY DEF RecorderInv, TypeOK
    <3> QED
      BY <1>7, <3>1 DEF Observe, KeptEvents
  <2>2. /\ accepted \in Seq(Sample) /\ queue \in Seq(Sample) /\ sample \in Sample
        /\ Len(queue) <= Len(accepted) /\ Len(queue) \in Nat /\ Len(accepted) \in Nat
    BY <1>1, <1>3 DEF QueueInv, Numbered, Sample, RecorderInv, TypeOK
  <2>3. sample.id = Len(accepted) + 1 /\ sample.events = events
    OBVIOUS
  <2> HIDE DEF sample
  <2>4. /\ accepted' \in Seq(Sample) /\ Len(accepted') = Len(accepted) + 1
        /\ accepted'[Len(accepted) + 1] = sample
        /\ \A i \in 1 .. Len(accepted) : accepted'[i] = accepted[i]
    BY <2>1, <2>2
  <2>5. /\ queue' \in Seq(Sample) /\ Len(queue') = Len(queue) + 1
        /\ queue'[Len(queue) + 1] = sample
        /\ \A i \in 1 .. Len(queue) : queue'[i] = queue[i]
    BY <2>1, <2>2
  <2>6. Encoded' = Encoded /\ Encoded \in Nat /\ Encoded + Len(queue) = Len(accepted)
    BY <2>2, <2>4, <2>5 DEF Encoded
  <2>7. Numbered'
    <3>1. ASSUME NEW i \in 1 .. Len(accepted') PROVE accepted'[i].id = i
      <4>1. CASE i = Len(accepted) + 1
        BY <2>3, <2>4, <4>1
      <4>2. CASE i # Len(accepted) + 1
        <5>1. i \in 1 .. Len(accepted)
          BY <2>2, <2>4, <4>2
        <5> QED
          BY <1>1, <2>4, <5>1 DEF QueueInv, Numbered
      <4> QED
        BY <4>1, <4>2
    <3> QED
      BY <2>4, <3>1 DEF Numbered
  <2>8. ASSUME NEW i \in 1 .. Len(queue') PROVE queue'[i] = accepted'[Encoded + i]
    <3>1. CASE i = Len(queue) + 1
      <4>1. Encoded + (Len(queue) + 1) = Len(accepted) + 1
        BY <2>2, <2>6
      <4> QED
        BY <2>4, <2>5, <3>1, <4>1
    <3>2. CASE i # Len(queue) + 1
      <4>1. i \in 1 .. Len(queue) /\ Encoded + i \in 1 .. Len(accepted)
        BY <2>2, <2>5, <2>6, <3>2
      <4> QED
        BY <1>1, <2>4, <2>5, <4>1 DEF QueueInv
    <3> QED
      BY <3>1, <3>2
  <2>9. StreamInv'
    <3>1. QueueInv'
      BY <2>2, <2>4, <2>5, <2>6, <2>7, <2>8 DEF QueueInv
    <3>2. FileInv' /\ Parts(Stored, Sent, ring, OnCard, Encoded, Marker)'
      BY <1>1, <1>2, <2>6 DEF FileInv, Parts, Stored, Sent, OnCard, Marker
    <3> QED
      BY <3>1, <3>2 DEF StreamInv
  <2>10. EventInv'
    <3> DEFINE all == {accepted[i].events : i \in 1 .. Len(accepted)}
               new == {accepted'[i].events : i \in 1 .. Len(accepted')}
    <3>1. ASSUME NEW x PROVE x \in new <=> x \in all \/ x = events
      <4>1. 1 .. Len(accepted') = 1 .. Len(accepted) \cup {Len(accepted) + 1}
        BY <2>2, <2>4
      <4>2. x \in new <=> \E i \in 1 .. Len(accepted') : x = accepted'[i].events
        OBVIOUS
      <4>3. x \in all <=> \E i \in 1 .. Len(accepted) : x = accepted[i].events
        OBVIOUS
      <4> HIDE DEF all, new, events
      <4> QED
        BY <2>3, <2>4, <4>1, <4>2, <4>3
    <3>2. UNION new = (UNION all) \cup events
      <4> HIDE DEF all, new, events
      <4> QED
        BY <3>1, UnionOne
    <3>3. noted = pending \cup UNION all
      BY <1>1 DEF RecorderInv, EventInv
    <3>4. noted' = pending' \cup UNION new
      <4>1. (UNION all) \cup (pending \cup Edge(IF a THEN "yes" ELSE "no"))
              = (pending \cup UNION all) \cup Edge(IF a THEN "yes" ELSE "no")
        BY UnionMoved
      <4>2. {} \cup UNION new = UNION new
        <5> HIDE DEF new
        <5> QED
          BY UnionMoved
      <4> HIDE DEF all, new
      <4> QED
        BY <2>1, <3>2, <3>3, <4>1, <4>2
    <3> QED
      BY <3>4 DEF EventInv
  <2>11. TypeOK'
    <3>1. Len(queue') <= Queue
      BY <1>7, <2>2, <2>5, Shape DEF RecorderInv, TypeOK
    <3>2. noted' \subseteq Event /\ pending' \subseteq Event
      BY <1>3, <2>1 DEF RecorderInv, TypeOK
    <3> QED
      BY <1>2, <2>1, <3>1, <3>2 DEF RecorderInv, TypeOK
  <2>12. ControlInv'
    BY <1>1, <1>2, <1>4, <2>1 DEF RecorderInv, ControlInv, busy
  <2>13. DoneInv'
    BY <1>1, <1>2 DEF DoneInv
  <2> QED
    BY <2>9, <2>10, <2>11, <2>12, <2>13 DEF RecorderInv
<1> QED
  BY <1>5, <1>6, <1>7

LEMMA FlyKeeps == RecorderInv /\ Fly => RecorderInv'
<1> SUFFICES ASSUME RecorderInv, Fly PROVE RecorderInv'
  OBVIOUS
<1>1. UNCHANGED <<pc, active, queue, pending, last_armed, init, init_stop, sphase, stop_requested,
                  end_created, seen_armed, ring, hz, header_hz, patch_done, settle, lost,
                  phase, op, pend, short, content, accepted, noted>>
      /\ armed' \in BOOLEAN
  BY DEF Fly, recVars, cliVars, sessVars, fileVars, histVars
<1>2. TypeOK' /\ ControlInv'
  BY <1>1 DEF RecorderInv, TypeOK, ControlInv, busy
<1>3. EventInv' /\ DoneInv' /\ StreamInv'
  BY <1>1, EventSame, DoneSame, StreamSame DEF RecorderInv, busy
<1> QED
  BY <1>2, <1>3 DEF RecorderInv

\* The CLI.
LEMMA StartKeeps == RecorderInv /\ CliStart => RecorderInv'
<1> SUFFICES ASSUME RecorderInv, CliStart PROVE RecorderInv'
  OBVIOUS
<1>1. ~active
  BY DEF RecorderInv, ControlInv, CliStart, busy
<1>2. /\ pc = "loop" /\ sphase' = "IDLE" /\ init' = TRUE /\ init_stop' = FALSE /\ queue' = <<>>
      /\ stop_requested' = FALSE /\ end_created' = FALSE /\ seen_armed' = FALSE
      /\ ring' = <<>> /\ hz' = Rate /\ header_hz' = Rate
      /\ patch_done' = FALSE /\ settle' = 0 /\ lost' = FALSE
      /\ phase' = "IDLE" /\ op' = "none" /\ short' = FALSE /\ content' = <<>>
      /\ UNCHANGED <<pc, armed, active, pending, last_armed, accepted, noted>>
  BY <1>1 DEF CliStart, histVars, File!Forget, File!Idle
<1>3. Len(<<>>) = 0 /\ Rate \in FloorHz .. Rate
  BY Shape
<1>4. TypeOK'
  <2>1. Len(queue') <= Queue /\ Len(ring') <= Ring /\ settle' \in 0 .. 1
        /\ hz' \in FloorHz .. Rate /\ header_hz' \in FloorHz .. Rate
    BY <1>2, <1>3, Shape
  <2>2. sphase' \in Phase /\ phase' \in File!Phase
    BY <1>2 DEF Phase, File!Phase
  <2> QED
    BY <1>2, <2>1, <2>2 DEF RecorderInv, TypeOK
<1>5. ControlInv' /\ DoneInv' /\ StreamInv' /\ EventInv'
  BY <1>1, <1>2 DEF ControlInv, DoneInv, StreamInv, EventInv, busy
<1> QED
  BY <1>4, <1>5 DEF RecorderInv

LEMMA ReadyKeeps == ASSUME RecorderInv, NEW ok \in BOOLEAN, CardReady(ok) PROVE RecorderInv'
<1>1. /\ pc = "loop" /\ init /\ sphase = "IDLE" /\ phase = "IDLE" /\ ~active /\ init' = FALSE
      /\ UNCHANGED <<pc, armed, active, pending, last_armed, init_stop>>
  BY DEF RecorderInv, ControlInv, CardReady
<1>2. CASE ok /\ ~init_stop
  <2>1. /\ sphase' = "PREPARING" /\ queue' = <<>> /\ accepted' = <<>> /\ noted' = {}
        /\ stop_requested' = FALSE /\ end_created' = FALSE /\ seen_armed' = FALSE
        /\ ring' = Header(Rate) /\ hz' = Rate /\ header_hz' = Rate
        /\ patch_done' = FALSE /\ settle' = 0 /\ lost' = FALSE
        /\ phase' = "PREPARING" /\ op' = "none" /\ short' = FALSE /\ content' = <<>>
    BY <1>2 DEF CardReady, File!Start, File!Idle
  <2>2. /\ Len(<<>>) = 0 /\ Rate \in FloorHz .. Rate /\ Rate \in Nat /\ Meta \in Nat
        /\ Len(Header(Rate)) = Meta + 1 /\ Meta + 1 <= Ring /\ Queue \in Nat
    BY Shape, HeaderFacts
  <2>3. TypeOK'
    <3>1. Len(queue') <= Queue /\ Len(ring') <= Ring /\ settle' \in 0 .. 1
          /\ hz' \in FloorHz .. Rate /\ header_hz' \in FloorHz .. Rate
      BY <2>1, <2>2
    <3>2. sphase' \in Phase /\ phase' \in File!Phase
      BY <2>1 DEF Phase, File!Phase
    <3> QED
      BY <1>1, <2>1, <3>1, <3>2 DEF RecorderInv, TypeOK
  <2>4. ControlInv' /\ DoneInv' /\ EventInv'
    BY <1>1, <2>1 DEF ControlInv, DoneInv, EventInv, busy
  <2>5. Stored' = <<>> /\ Sent' = <<>> /\ Encoded' = 0 /\ Marker' = 0 /\ OnCard' = Rate
    BY <2>1, <2>2 DEF Stored, Sent, Encoded, Marker, OnCard, FlattenSeq
  <2>6. QueueInv' /\ FileInv'
    BY <2>1, <2>2, <2>5 DEF QueueInv, Numbered, FileInv
  <2>7. Parts(Stored, Sent, ring, OnCard, Encoded, Marker)'
    <3>1. Parts(<<>>, <<>>, Header(Rate), Rate, 0, 0)
      BY <2>2, Fresh
    <3> QED
      BY <2>1, <2>5, <3>1 DEF Parts, At
  <2> QED
    BY <2>3, <2>4, <2>6, <2>7 DEF RecorderInv, StreamInv
<1>3. CASE ~(ok /\ ~init_stop)
  <2>1. /\ sphase' \in {"DONE", "ERROR"} /\ phase' = "IDLE"
        /\ UNCHANGED <<queue, stop_requested, end_created, seen_armed, ring, hz, header_hz,
                       patch_done, settle, lost, phase, op, pend, short, content, accepted, noted>>
    BY <1>1, <1>3 DEF CardReady, fileVars, histVars
  <2>2. TypeOK'
    <3>1. sphase' \in Phase
      BY <2>1 DEF Phase
    <3> QED
      BY <1>1, <2>1, <3>1 DEF RecorderInv, TypeOK
  <2>3. ControlInv' /\ DoneInv' /\ EventInv' /\ StreamInv'
    BY <1>1, <2>1 DEF RecorderInv, ControlInv, DoneInv, EventInv, StreamInv, busy
  <2> QED
    BY <2>2, <2>3 DEF RecorderInv
<1> QED
  BY <1>2, <1>3

LEMMA StopKeeps == RecorderInv /\ CliStop => RecorderInv'
<1> SUFFICES ASSUME RecorderInv, CliStop PROVE RecorderInv'
  OBVIOUS
<1>1. /\ active' \in BOOLEAN /\ init_stop' \in BOOLEAN /\ stop_requested' \in BOOLEAN
      /\ active' => active /\ stop_requested' = stop_requested
      /\ stop_requested => stop_requested'
      /\ UNCHANGED <<pc, armed, queue, pending, last_armed, init, sphase, end_created, seen_armed,
                     ring, hz, header_hz, patch_done, settle, lost, phase, op, pend, short,
                     content, accepted, noted>>
  BY DEF CliStop, RecorderInv, TypeOK, fileVars, histVars
<1>2. TypeOK' /\ ControlInv'
  BY <1>1 DEF RecorderInv, TypeOK, ControlInv, busy
<1>3. EventInv' /\ DoneInv' /\ StreamInv'
  BY <1>1, EventSame, DoneSame, StreamSame DEF RecorderInv, busy
<1> QED
  BY <1>2, <1>3 DEF RecorderInv

\* The poll.
LEMMA BeginKeeps == ASSUME RecorderInv, NEW limit \in BOOLEAN, PollBegin(limit) PROVE RecorderInv'
<1>1. /\ active' \in BOOLEAN /\ stop_requested' \in BOOLEAN /\ pc' = "file" /\ busy
      /\ active' => active /\ stop_requested' = stop_requested
      /\ stop_requested => stop_requested'
      /\ UNCHANGED <<armed, queue, pending, last_armed, init, init_stop, sphase, end_created,
                     seen_armed, ring, hz, header_hz, patch_done, settle, lost, phase, op, pend,
                     short, content, accepted, noted>>
  BY DEF PollBegin, RecorderInv, TypeOK, cliVars, fileVars, histVars
<1>2. TypeOK' /\ ControlInv'
  BY <1>1 DEF RecorderInv, TypeOK, ControlInv, busy
<1>3. EventInv' /\ DoneInv' /\ StreamInv'
  BY <1>1, EventSame, DoneSame, StreamSame DEF RecorderInv, busy
<1> QED
  BY <1>2, <1>3 DEF RecorderInv

\* A session that fails promises nothing more.
LEMMA Fails ==
  ASSUME RecorderInv, TypeOK', SessionFail, ~init, init' = init,
         phase' = "WRITING" <=> op' # "none"
  PROVE  RecorderInv'
  BY DEF RecorderInv, SessionFail, ControlInv, EventInv, DoneInv, StreamInv, busy

LEMMA TimeoutKeeps == RecorderInv /\ PollTimeout => RecorderInv'
<1> SUFFICES ASSUME RecorderInv, PollTimeout PROVE RecorderInv'
  OBVIOUS
<1>1. /\ ~init /\ init' = init /\ phase' = phase /\ op' = op /\ SessionFail
  BY DEF PollTimeout, cliVars, fileVars
<1>2. TypeOK'
  BY DEF PollTimeout, SessionFail, cliVars, fileVars, histVars, RecorderInv, TypeOK, Phase
<1> QED
  BY <1>1, <1>2, Fails DEF RecorderInv, ControlInv

\* The file took the sector on its way.
LEMMA StoredKeeps ==
  ASSUME StreamInv, busy, op \in {"append", "patch"}, header_hz \in Nat,
         op = "append" => content' = Append(content, pend),
         op = "patch" => content' = [content EXCEPT ![1] = pend],
         op' = "none", op # "patch" \/ OnCard = Rate,
         UNCHANGED <<queue, accepted, ring, header_hz, end_created>>
  PROVE  StreamInv'
<1>1. /\ QueueInv /\ FileInv /\ Parts(Stored, Sent, ring, OnCard, Encoded, Marker)
      /\ content \in Seq(Seq(Units))
  BY DEF StreamInv, FileInv
<1>2. QueueInv' /\ Encoded' = Encoded /\ Marker' = Marker /\ Encoded \in Nat /\ Marker \in {0, 1}
      /\ Sent' = <<>> /\ OnCard' = header_hz /\ ring' = ring
  BY <1>1 DEF QueueInv, Numbered, Encoded, Marker, Sent, OnCard
<1>3. CASE op = "append"
  <2>1. /\ Sent = pend /\ OnCard = header_hz /\ pend \in Seq(Units) /\ Stored \in Seq(Units)
    BY <1>1, <1>3 DEF Sent, OnCard, Parts
  <2>2. content' = Append(content, pend)
    BY <1>3
  <2>3. Stored' = Stored \o Sent
    <3>1. FlattenSeq(content') = IF content = <<>> THEN pend ELSE FlattenSeq(content) \o pend
      BY <1>1, <2>1, <2>2, FlattenAppend
    <3>2. content = <<>> => Stored = <<>>
      BY DEF Stored, FlattenSeq
    <3>3. <<>> \o pend = pend
      BY <2>1
    <3> QED
      BY <2>1, <3>1, <3>2, <3>3 DEF Stored
  <2>4. FileInv'
    <3>1. /\ content' \in Seq(Seq(Units))
          /\ content'[1] = IF content = <<>> THEN pend ELSE content[1]
      BY <1>1, <2>1, <2>2
    <3> QED
      BY <1>1, <1>3, <3>1 DEF FileInv
  <2>5. Parts(Stored \o Sent, <<>>, ring, OnCard, Encoded, Marker)
    BY <1>1, <1>2, Arrives
  <2> QED
    BY <1>2, <2>1, <2>3, <2>4, <2>5 DEF StreamInv, Parts, At
<1>4. CASE op = "patch"
  <2>1. /\ Sent = <<>> /\ content # <<>> /\ pend \in Seq(Units) /\ Len(pend) = SectorLen
        /\ Len(content[1]) = SectorLen
        /\ \A i \in 1 .. SectorLen : pend[i] = At(header_hz, 0, i)
        /\ content' = [content EXCEPT ![1] = pend]
    BY <1>1, <1>4 DEF Sent, FileInv
  <2>2. /\ Stored' \in Seq(Units) /\ Len(Stored') = Len(Stored) /\ SectorLen <= Len(Stored)
        /\ \A j \in 1 .. Len(Stored) : Stored'[j] = IF j <= SectorLen THEN pend[j] ELSE Stored[j]
    <3> DEFINE t == content'
               d == Stored'
    <3>1. /\ Len(t) = Len(content) /\ t[1] = pend
          /\ \A i \in 1 .. Len(content) : i # 1 => t[i] = content[i]
      BY <1>1, <2>1
    <3>2. d = FlattenSeq(t) /\ Stored = FlattenSeq(content) /\ Len(pend) = Len(content[1])
      BY <2>1 DEF Stored
    <3> HIDE DEF t, d
    <3>3. /\ d \in Seq(Units) /\ Len(d) = Len(Stored) /\ Len(pend) <= Len(Stored)
          /\ \A j \in 1 .. Len(Stored) : d[j] = IF j <= Len(pend) THEN pend[j] ELSE Stored[j]
      BY <1>1, <2>1, <3>1, <3>2, FlattenPatch
    <3> QED
      BY <2>1, <3>3 DEF d
  <2>3. FileInv'
    <3>1. content' \in Seq(Seq(Units)) /\ content'[1] = pend
      BY <1>1, <2>1
    <3> QED
      BY <2>1, <3>1 DEF FileInv
  <2>4. Parts(Stored', <<>>, ring, header_hz, Encoded, Marker)
    <3> DEFINE b == Stored'
    <3>1. Parts(Stored, <<>>, ring, OnCard, Encoded, Marker)
      BY <1>1, <2>1
    <3>2. /\ b \in Seq(Units) /\ Len(b) = Len(Stored) /\ Len(pend) <= Len(Stored)
          /\ \A j \in 1 .. Len(Stored) : b[j] = IF j <= Len(pend) THEN pend[j] ELSE Stored[j]
      BY <2>1, <2>2
    <3>3. /\ Len(pend) >= 1 /\ Len(pend) <= Meta + 1
          /\ \A i \in 1 .. Len(pend) : pend[i] = At(header_hz, 0, i)
      BY <2>1, Shape
    <3> HIDE DEF b
    <3>4. Parts(b, <<>>, ring, header_hz, Encoded, Marker)
      BY <1>2, <2>1, <3>1, <3>2, <3>3, Patched
    <3> QED
      BY <3>4 DEF b
  <2> QED
    BY <1>2, <2>3, <2>4 DEF StreamInv, Parts, At
<1> QED
  BY <1>3, <1>4

LEMMA FileKeeps == RecorderInv /\ FilePoll => RecorderInv'
<1> SUFFICES ASSUME RecorderInv, FilePoll PROVE RecorderInv'
  OBVIOUS
<1>1. /\ TypeOK /\ ControlInv /\ EventInv /\ DoneInv /\ StreamInv /\ busy /\ ~init /\ pc = "file"
      /\ UNCHANGED <<armed, queue, pending, last_armed, init, init_stop, stop_requested,
                     end_created, seen_armed, ring, hz, header_hz, patch_done, settle, lost,
                     accepted, noted>>
  BY DEF RecorderInv, ControlInv, FilePoll, cliVars, histVars, busy
<1>2. /\ phase' \in File!Phase /\ op' \in {"none", "append", "patch"} /\ short' \in BOOLEAN
      /\ phase' = "WRITING" <=> op' # "none"
      /\ op' \in {op, "none"}
  BY <1>1 DEF FilePoll, File!Prepared, File!Stored, File!Closed, File!Fail, File!Idle, fileVars,
     TypeOK, ControlInv, File!Phase, File!Working
<1>3. CASE phase' = "ERROR"
  <2>1. SessionFail
    BY <1>3 DEF FilePoll
  <2>2. TypeOK'
    BY <1>1, <1>2, <2>1 DEF TypeOK, SessionFail, Phase
  <2> QED
    BY <1>1, <1>2, <2>1, <2>2, Fails
<1>4. CASE phase' # "ERROR"
  <2>1. /\ sphase' = IF sphase = "CLOSING" /\ phase' = "DONE" THEN "DONE" ELSE sphase
        /\ pc' = IF sphase = "CLOSING" THEN "loop" ELSE "session"
        /\ UNCHANGED active
    BY <1>4 DEF FilePoll
  <2>2. TypeOK'
    <3>1. sphase' \in Phase /\ pc' \in {"loop", "file", "session"}
      BY <1>1, <2>1 DEF TypeOK, Phase
    <3> QED
      BY <1>1, <1>2, <2>1, <3>1 DEF TypeOK
  <2>3. \/ UNCHANGED <<op, pend, content>>
        \/ File!Stored
    BY <1>4 DEF FilePoll, File!Prepared, File!Closed, File!Fail, fileVars
  <2>4. busy' => sphase' = sphase
    BY <2>1 DEF busy
  <2>5. sphase = "CLOSING" => phase = "CLOSING" /\ phase' \in {"CLOSING", "DONE"}
    BY <1>1, <1>4 DEF FilePoll, File!Prepared, File!Stored, File!Closed, File!Fail, File!Working,
       ControlInv, fileVars
  <2>6. sphase \in {"PREPARING", "HEADER"} => content' = content
    BY <1>1, <2>3 DEF ControlInv, File!Stored
  <2>7. ControlInv'
    BY <1>1, <1>2, <2>1, <2>4, <2>5, <2>6 DEF ControlInv, busy
  <2>8. EventInv'
    BY <1>1, <2>1, EventSame
  <2>9. StreamInv'
    <3>1. CASE UNCHANGED <<op, pend, content>>
      BY <1>1, <3>1, StreamSame
    <3>2. CASE File!Stored
      <4>1. /\ op \in {"append", "patch"} /\ header_hz \in Nat /\ op' = "none"
            /\ op = "append" => content' = Append(content, pend)
            /\ op = "patch" => content' = [content EXCEPT ![1] = pend]
        BY <1>1, <3>2, Shape DEF File!Stored, File!Idle, ControlInv, TypeOK
      <4>2. op # "patch" \/ OnCard = Rate
        BY DEF OnCard
      <4> QED
        BY <1>1, <4>1, <4>2, StoredKeeps
    <3> QED
      BY <2>3, <3>1, <3>2
  <2>10. DoneInv'
    <3> SUFFICES ASSUME sphase' = "DONE", phase' = "DONE" PROVE DoneInv'
      BY DEF DoneInv
    <3>1. sphase = "CLOSING" /\ phase = "CLOSING"
      BY <1>1, <2>1, <2>5 DEF busy
    <3>2. /\ ring = <<>> /\ end_created /\ header_hz = hz /\ queue = <<>> /\ op = "none"
      BY <1>1, <3>1 DEF ControlInv
    <3>3. UNCHANGED content
      BY <2>3, <3>1 DEF File!Stored
    <3>4. Sent = <<>> /\ OnCard = hz /\ Encoded = Len(accepted) /\ Marker = 1
      <4>1. Len(accepted) \in Nat /\ Len(<<>>) = 0
        BY <1>1 DEF StreamInv, QueueInv, Numbered
      <4> QED
        BY <3>2, <4>1 DEF Sent, OnCard, Encoded, Marker
    <3>5. Numbered /\ Parts(Stored, <<>>, <<>>, hz, Len(accepted), 1)
      BY <1>1, <3>2, <3>4 DEF StreamInv, QueueInv
    <3> QED
      BY <1>1, <3>3, <3>5 DEF DoneInv, Numbered, Parts, Stored
  <2> QED
    BY <2>2, <2>7, <2>8, <2>9, <2>10 DEF RecorderInv
<1> QED
  BY <1>3, <1>4

\* Drops halve the rate, never below the floor.
LEMMA HalvedRange ==
  ASSUME hz \in FloorHz .. Rate
  PROVE  Halved \in FloorHz .. Rate
<1>1. hz \in Nat /\ FloorHz \in Nat /\ Rate \in Nat /\ hz \div 2 \in Nat /\ hz \div 2 <= hz
  BY Shape
<1> QED
  BY <1>1 DEF Halved

\* The FIFO gives its oldest sample to the encoder.
LEMMA DrainQueue ==
  ASSUME QueueInv, queue # <<>>
  PROVE  /\ Encoded \in Nat /\ Head(queue).id = Encoded + 1 /\ Head(queue).armed \in BOOLEAN
         /\ Tail(queue) \in Seq(Sample) /\ Len(Tail(queue)) = Len(queue) - 1
         /\ Len(accepted) - Len(Tail(queue)) = Encoded + 1
         /\ \A i \in 1 .. Len(Tail(queue)) : Tail(queue)[i] = accepted[Encoded + 1 + i]
<1>1. /\ queue \in Seq(Sample) /\ Len(queue) \in Nat /\ Len(queue) >= 1 /\ Len(accepted) \in Nat
      /\ Len(queue) <= Len(accepted) /\ Encoded \in Nat /\ Encoded + Len(queue) = Len(accepted)
  BY DEF QueueInv, Numbered, Encoded
<1>2. Head(queue) = queue[1] /\ queue[1] \in Sample
  BY <1>1
<1>3. /\ Tail(queue) \in Seq(Sample) /\ Len(Tail(queue)) = Len(queue) - 1
      /\ \A i \in 1 .. Len(queue) - 1 : Tail(queue)[i] = queue[i + 1]
  BY <1>1
<1>4. queue[1] = accepted[Encoded + 1] /\ Encoded + 1 \in 1 .. Len(accepted)
  BY <1>1 DEF QueueInv
<1>5. ASSUME NEW i \in 1 .. Len(queue) - 1 PROVE Tail(queue)[i] = accepted[Encoded + 1 + i]
  <2>1. i + 1 \in 1 .. Len(queue) /\ Encoded + (i + 1) = Encoded + 1 + i
    BY <1>1
  <2> QED
    BY <1>3, <2>1 DEF QueueInv
<1>6. Head(queue).id = Encoded + 1
  BY <1>2, <1>4 DEF QueueInv, Numbered
<1>7. Len(accepted) - (Len(queue) - 1) = Encoded + 1
  BY <1>1
<1> QED
  BY <1>1, <1>2, <1>3, <1>5, <1>6, <1>7 DEF Sample

LEMMA SessionKeeps ==
  ASSUME RecorderInv, NEW window \in BOOLEAN, NEW breach \in BOOLEAN, NEW encoded \in BOOLEAN,
         SessionStep(window, breach, encoded)
  PROVE  RecorderInv'
<1> DEFINE policy == window /\ sphase = "RECORDING" /\ ~stop_requested
           lowers == Lowers(window, breach)
           hz1    == IF lowers THEN Halved ELSE hz
           drains == Drains
           queue1 == IF drains THEN Tail(queue) ELSE queue
           ring1  == IF drains THEN Append(ring, Frame(Head(queue).id)) ELSE ring
           stops  == drains /\ StopsDisarmed(Head(queue))
           stop1  == stop_requested \/ stops
           ready  == phase = "READY"
           begins == ready /\ sphase \in {"PREPARING", "HEADER"} /\ ~stop1
           sphase1 == CASE ~ready -> sphase
                        [] ready /\ stop1 -> "DRAINING"
                        [] OTHER -> "RECORDING"
           ends   == ready /\ Ends(sphase1, queue1, ring1)
           ring2  == IF ends THEN Append(ring1, EndUnit) ELSE ring1
           end1   == end_created \/ ends
           full   == ready /\ Len(ring2) >= SectorLen
           final  == ready /\ end1 /\ ~full /\ ring2 # <<>>
           drained == ready /\ end1 /\ ring2 = <<>>
           patches == Patches(drained, hz1)
           fails  == (drains /\ ~encoded) \/ (begins /\ active)
           k      == Len(accepted) - Len(queue1)
           e      == IF end1 THEN 1 ELSE 0
<1>1. /\ pc = "session" /\ hz' = hz1
      /\ settle' = IF ~policy THEN settle
                   ELSE IF settle > 0 THEN settle - 1 ELSE IF lowers THEN 1 ELSE 0
      /\ seen_armed' = (seen_armed \/ (drains /\ Head(queue).armed))
      /\ UNCHANGED <<armed, init, init_stop, accepted>>
  BY DEF SessionStep, cliVars
<1>2. fails => /\ SessionFail
               /\ queue' = queue1 /\ lost' = (lost /\ ~policy)
               /\ UNCHANGED <<pending, last_armed, stop_requested, end_created, ring,
                              header_hz, patch_done, phase, op, pend, short, content, noted>>
  BY DEF SessionStep, fileVars
<1>3. ~fails => /\ pc' = "loop"
                /\ sphase' = IF drained /\ ~patches THEN "CLOSING" ELSE sphase1
                /\ stop_requested' = stop1 /\ end_created' = end1
                /\ active' = (begins \/ (active /\ ~stops))
                /\ queue' = IF begins THEN <<>> ELSE queue1
                /\ pending' = IF begins THEN {} ELSE pending
                /\ last_armed' = IF begins THEN "none" ELSE last_armed
                /\ noted' = IF begins THEN {} ELSE noted
                /\ lost' = (lost /\ ~policy /\ ~begins)
                /\ ring' = IF full THEN SubSeq(ring2, SectorLen + 1, Len(ring2))
                           ELSE IF final THEN <<>> ELSE ring2
                /\ patch_done' = (patch_done \/ patches)
                /\ header_hz' = IF patches THEN hz1 ELSE header_hz
  BY DEF SessionStep
<1>4. ~fails => CASE full    -> File!Write(SubSeq(ring2, 1, SectorLen), FALSE)
                  [] final   -> File!Write(ring2, TRUE)
                  [] patches -> File!Rewrite(SubSeq(Header(hz1), 1, SectorLen))
                  [] drained /\ ~patches -> File!Close
                  [] OTHER   -> UNCHANGED fileVars
  BY DEF SessionStep
<1>5. /\ TypeOK /\ ControlInv /\ EventInv /\ busy /\ ~init
      /\ sphase \in {"PREPARING", "HEADER", "RECORDING", "DRAINING"}
      /\ QueueInv /\ FileInv /\ Parts(Stored, Sent, ring, OnCard, Encoded, Marker)
  BY <1>1 DEF RecorderInv, ControlInv, StreamInv, busy
<1>6. /\ drains \in BOOLEAN /\ lowers \in BOOLEAN /\ stops \in BOOLEAN /\ stop1 \in BOOLEAN
      /\ ready \in BOOLEAN /\ begins \in BOOLEAN /\ ends \in BOOLEAN /\ end1 \in BOOLEAN
      /\ policy \in BOOLEAN /\ full \in BOOLEAN /\ final \in BOOLEAN /\ drained \in BOOLEAN
      /\ patches \in BOOLEAN
  BY <1>5 DEF TypeOK, Drains, Lowers, StopsDisarmed, Ends, Patches
\* What was drained.
<1>7. /\ drains => /\ sphase \in {"RECORDING", "DRAINING"} /\ queue # <<>>
                    /\ Len(ring) < Ring /\ ~end_created
      /\ drains \/ (queue1 = queue /\ ring1 = ring)
      /\ lowers => sphase = "RECORDING"
      /\ begins => ready /\ sphase \in {"PREPARING", "HEADER"} /\ ~stop1
      /\ stop_requested => stop1
  <2>1. drains => /\ sphase \in {"RECORDING", "DRAINING"} /\ queue # <<>>
                  /\ Len(ring) < Ring /\ ~end_created
    BY <1>5 DEF Drains, ControlInv, room
  <2>2. lowers => sphase = "RECORDING"
    BY DEF Lowers
  <2> QED
    BY <2>1, <2>2
<1>8. /\ k \in Nat /\ queue1 \in Seq(Sample) /\ Len(queue1) <= Len(accepted)
      /\ Len(queue1) <= Len(queue) /\ Len(queue1) \in Nat
      /\ \A i \in 1 .. Len(queue1) : queue1[i] = accepted[k + i]
      /\ Parts(Stored, Sent, ring1, OnCard, k, Marker)
      /\ Len(ring1) <= Ring /\ ring1 \in Seq(Units)
  <2>1. /\ Len(queue) \in Nat /\ Len(ring) \in Nat /\ Len(accepted) \in Nat /\ Len(ring) <= Ring
        /\ Len(queue) <= Len(accepted) /\ Ring \in Nat /\ ring \in Seq(Units)
    BY <1>5, Shape DEF QueueInv, Numbered, Parts, TypeOK
  <2>2. CASE drains
    <3> DEFINE f == Frame(Encoded + 1)
    <3>1. queue1 = Tail(queue) /\ ring1 = Append(ring, Frame(Head(queue).id)) /\ queue # <<>>
      BY <1>7, <2>2
    <3>2. Marker = 0 /\ ~end_created
      BY <1>7, <2>2 DEF Marker
    <3>3. /\ Encoded \in Nat /\ ring1 = Append(ring, f) /\ k = Encoded + 1
          /\ queue1 \in Seq(Sample) /\ Len(queue1) = Len(queue) - 1
          /\ \A i \in 1 .. Len(queue1) : queue1[i] = accepted[Encoded + 1 + i]
      BY <1>5, <3>1, DrainQueue
    <3>4. Parts(Stored, Sent, Append(ring, f), OnCard, Encoded + 1, 0)
      BY <1>5, <3>2, <3>3, TakeFrame
    <3>5. f \in Units
      BY <3>3 DEF Frame, Unit, Units
    <3>6. Len(Append(ring, f)) = Len(ring) + 1 /\ Append(ring, f) \in Seq(Units)
      <4> HIDE DEF f
      <4> QED
        BY <2>1, <3>5
    <3>7. Len(queue) - 1 \in Nat
      <4>1. Len(queue) # 0
        BY <1>5, <3>1 DEF QueueInv
      <4> QED
        BY <2>1, <4>1
    <3> HIDE DEF drains, queue1, ring1, k, f
    <3> QED
      BY <1>7, <2>1, <2>2, <3>2, <3>3, <3>4, <3>6, <3>7
  <2>3. CASE ~drains
    <3>1. queue1 = queue /\ ring1 = ring /\ k = Encoded
      BY <1>7, <2>3 DEF Encoded
    <3>2. k \in Nat
      BY <2>1, <3>1 DEF Encoded
    <3> HIDE DEF queue1, ring1, k
    <3> QED
      BY <1>5, <2>1, <3>1, <3>2 DEF QueueInv
  <2> QED
    BY <1>6, <2>2, <2>3
<1>9. ends => ready /\ sphase1 = "DRAINING" /\ ~end_created /\ queue1 = <<>> /\ Len(ring1) < Ring
  BY DEF Ends
<1>10. /\ Parts(Stored, Sent, ring2, OnCard, k, e) /\ Len(ring2) <= Ring /\ ring2 \in Seq(Units)
       /\ e \in {0, 1}
  <2>1. CASE ends
    <3>1. ring2 = Append(ring1, EndUnit) /\ e = 1 /\ Marker = 0
      BY <1>9, <2>1 DEF Marker
    <3>2. Parts(Stored, Sent, Append(ring1, EndUnit), OnCard, k, 1)
      <4> HIDE DEF k, ring1
      <4> QED
        BY <1>8, <3>1, TakeEnd
    <3>3. EndUnit \in Units
      BY DEF EndUnit, Unit, Units
    <3>4. Len(Append(ring1, EndUnit)) = Len(ring1) + 1 /\ Append(ring1, EndUnit) \in Seq(Units)
      <4> HIDE DEF ring1
      <4> QED
        BY <1>8, <3>3
    <3>5. Len(ring1) \in Nat /\ Ring \in Nat /\ Len(ring1) < Ring
      <4> HIDE DEF ring1, ends
      <4> QED
        BY <1>8, <1>9, <2>1, Shape
    <3> HIDE DEF ring1, ring2, k, e
    <3> QED
      BY <3>1, <3>2, <3>4, <3>5
  <2>2. CASE ~ends
    <3>1. ring2 = ring1 /\ e = Marker
      BY <2>2 DEF Marker
    <3>2. e \in {0, 1}
      OBVIOUS
    <3> HIDE DEF ring1, ring2, k, e
    <3> QED
      BY <1>8, <3>1, <3>2
  <2> QED
    BY <1>6, <2>1, <2>2
<1>11. /\ full => ready /\ Len(ring2) >= SectorLen
       /\ final => ready /\ end1 /\ ~full /\ ring2 # <<>>
       /\ drained => ready /\ end1 /\ ring2 = <<>>
       /\ patches => drained /\ ~patch_done /\ hz1 # header_hz
       /\ drained /\ ~patches => patch_done \/ hz1 = header_hz
       /\ full => ~final /\ ~drained
       /\ final => ~drained
  <2>1. ring2 = <<>> => ~(Len(ring2) >= SectorLen)
    <3> HIDE DEF ring2
    <3> QED
      BY Shape
  <2> QED
    BY <2>1 DEF Patches
<1>12. /\ end1 => end_created \/ ends
       /\ end_created => end1
       /\ ~ready => sphase1 = sphase
       /\ ready /\ stop1 => sphase1 = "DRAINING"
       /\ ready /\ ~stop1 => sphase1 = "RECORDING"
       /\ ready => phase = "READY"
       /\ hz1 = IF lowers THEN Halved ELSE hz
       /\ ~stops /\ ~stop_requested => ~stop1
       /\ e = IF end1 THEN 1 ELSE 0
       /\ k = Len(accepted) - Len(queue1)
       /\ fails <=> (drains /\ ~encoded) \/ (begins /\ active)
  OBVIOUS
<1>13. begins => queue1 = <<>> /\ queue = <<>> /\ accepted = <<>>
  BY <1>5, <1>7 DEF ControlInv
<1> HIDE DEF policy, lowers, hz1, drains, queue1, ring1, stops, stop1, ready, begins, sphase1, ends,
             ring2, end1, full, final, drained, patches, fails, k, e
<1>14. hz1 \in FloorHz .. Rate
  BY <1>5, <1>12, HalvedRange DEF TypeOK
<1>15. settle' \in 0 .. 1 /\ seen_armed' \in BOOLEAN /\ hz' \in FloorHz .. Rate
  <2>1. drains => Head(queue).armed \in BOOLEAN
    BY <1>5, <1>7, DrainQueue
  <2>2. settle' \in 0 .. 1
    BY <1>1, <1>5 DEF TypeOK
  <2>3. seen_armed' \in BOOLEAN
    BY <1>1, <1>5, <1>6, <2>1 DEF TypeOK
  <2> QED
    BY <1>1, <1>14, <2>2, <2>3
<1>16. Len(queue1) <= Queue
  BY <1>5, <1>8, Shape DEF TypeOK, QueueInv
<1>17. CASE fails
  <2>1. TypeOK'
    <3>1. lost' \in BOOLEAN /\ active' \in BOOLEAN /\ sphase' \in Phase /\ pc' = "loop"
      BY <1>2, <1>5, <1>6, <1>17 DEF TypeOK, SessionFail, Phase
    <3> QED
      BY <1>1, <1>2, <1>5, <1>15, <1>16, <1>17, <3>1 DEF TypeOK
  <2> QED
    BY <1>1, <1>2, <1>5, <1>17, <2>1, Fails DEF ControlInv
<1>18. CASE ~fails
  \* What the file is given.
  <2>1. /\ full => /\ phase' = "WRITING" /\ op' = "append" /\ content' = content
                   /\ pend' = SubSeq(ring2, 1, SectorLen) /\ short' = FALSE
        /\ final => /\ phase' = "WRITING" /\ op' = "append" /\ content' = content
                    /\ pend' = ring2 /\ short' = TRUE
        /\ patches => /\ phase' = "WRITING" /\ op' = "patch" /\ content' = content /\ content # <<>>
                      /\ pend' = SubSeq(Header(hz1), 1, SectorLen) /\ short' = short
        /\ drained /\ ~patches => phase' = "CLOSING" /\ UNCHANGED <<op, pend, content, short>>
        /\ ~full /\ ~final /\ ~drained => UNCHANGED <<phase, op, pend, content, short>>
    BY <1>4, <1>6, <1>11, <1>18 DEF File!Write, File!Rewrite, File!Close, fileVars
  <2>2. content' = content /\ Stored' = Stored
    BY <1>6, <1>11, <2>1 DEF Stored
  <2>3. /\ pc' = "loop" /\ active' = (begins \/ (active /\ ~stops)) /\ queue' = queue1
        /\ pending' = IF begins THEN {} ELSE pending
        /\ noted' = IF begins THEN {} ELSE noted
        /\ ring' = IF full THEN SubSeq(ring2, SectorLen + 1, Len(ring2))
                   ELSE IF final THEN <<>> ELSE ring2
        /\ header_hz' = IF patches THEN hz1 ELSE header_hz
        /\ patch_done' = (patch_done \/ patches)
        /\ sphase' = IF drained /\ ~patches THEN "CLOSING" ELSE sphase1
        /\ stop_requested' = stop1 /\ end_created' = end1
    BY <1>3, <1>13, <1>18
  <2>4. sphase1 \in {sphase, "DRAINING", "RECORDING"}
    BY <1>6, <1>12
  <2>5. Marker' = e /\ Encoded' = k
    BY <1>1, <1>12, <2>3 DEF Marker, Encoded
  <2>6. ready => /\ phase = "READY" /\ op = "none" /\ Sent = <<>> /\ OnCard = header_hz
                 /\ Parts(Stored, <<>>, ring2, header_hz, k, e)
    BY <1>5, <1>10, <1>12 DEF ControlInv, Sent, OnCard
  <2>7. end_created => /\ sphase = "DRAINING" /\ queue1 = <<>> /\ stop_requested /\ ~lowers /\ ~drains
                       /\ ~begins
    BY <1>5, <1>7 DEF ControlInv
  <2>8. end1 => sphase1 = "DRAINING" /\ queue1 = <<>>
    BY <1>6, <1>7, <1>9, <1>12, <2>7
  <2>9. SectorLen \in Nat /\ SectorLen >= 1 /\ Len(ring2) \in Nat /\ Ring \in Nat /\ Len(<<>>) = 0
    BY <1>10, Shape
  <2>10. /\ full => SectorLen <= Len(ring2) /\ Len(ring') = Len(ring2) - SectorLen
         /\ Len(ring') <= Ring
    <3>1. CASE full
      <4>1. Len(SubSeq(ring2, SectorLen + 1, Len(ring2))) = Len(ring2) - SectorLen
        BY <1>6, <1>10, <1>11, <2>6, <2>9, <3>1, HandOver
      <4>2. SectorLen <= Len(ring2)
        BY <1>11, <2>9, <3>1
      <4>3. Len(ring') = Len(ring2) - SectorLen
        BY <2>3, <3>1, <4>1
      <4> QED
        BY <1>10, <2>9, <4>2, <4>3
    <3>2. CASE ~full
      BY <1>10, <2>3, <2>9, <3>2
    <3> QED
      BY <3>1, <3>2
  <2>11. TypeOK'
    <3>1. /\ phase' \in File!Phase /\ op' \in {"none", "append", "patch"} /\ short' \in BOOLEAN
      BY <1>5, <1>6, <1>11, <2>1 DEF TypeOK, File!Phase
    <3>2. sphase' \in Phase /\ pending' \subseteq Event /\ noted' \subseteq Event
          /\ last_armed' \in {"none", "yes", "no"}
      BY <1>3, <1>5, <1>18, <2>3, <2>4 DEF TypeOK, Phase
    <3>3. /\ active' \in BOOLEAN /\ stop_requested' \in BOOLEAN /\ end_created' \in BOOLEAN
          /\ patch_done' \in BOOLEAN /\ lost' \in BOOLEAN
      BY <1>3, <1>5, <1>6, <1>18, <2>3 DEF TypeOK
    <3>4. header_hz' \in FloorHz .. Rate
      BY <1>5, <1>14, <2>3 DEF TypeOK
    <3> QED
      BY <1>1, <1>5, <1>15, <1>16, <2>3, <2>10, <3>1, <3>2, <3>3, <3>4 DEF TypeOK
  <2>12. EventInv'
    <3>1. CASE begins
      <4>1. noted' = {} /\ pending' = {} /\ accepted' = <<>>
        BY <1>1, <1>13, <2>3, <3>1
      <4>2. UNION {accepted'[i].events : i \in 1 .. Len(accepted')} = {}
        BY <4>1
      <4> QED
        BY <4>1, <4>2 DEF EventInv
    <3>2. CASE ~begins
      BY <1>1, <1>5, <1>6, <2>3, <3>2, EventSame
    <3> QED
      BY <3>1, <3>2
  <2>13. DoneInv'
    BY <1>5, <2>3, <2>4 DEF DoneInv
  <2>14. ControlInv'
    <3>1. phase' = "WRITING" <=> op' # "none"
      BY <1>5, <1>6, <1>11, <2>1, <2>6 DEF ControlInv
    <3>2. active' => sphase' = "RECORDING" /\ ~stop_requested'
      <4>1. begins => ready /\ ~stop1 /\ ~end1 /\ ~drained
        BY <1>7, <1>9, <1>11, <1>12, <2>7
      <4>2. active /\ ~stops => ~stop1 /\ ~end1 /\ sphase1 = "RECORDING"
        BY <1>5, <1>6, <1>9, <1>12, <2>7 DEF ControlInv
      <4> QED
        BY <1>6, <1>11, <1>12, <2>3, <4>1, <4>2
    <3>3. busy' /\ end_created' => sphase' \in {"DRAINING", "CLOSING"} /\ queue' = <<>>
      BY <2>3, <2>8
    <3>4. sphase' = "DRAINING" => stop_requested'
      BY <1>5, <1>6, <1>7, <1>12, <2>3 DEF ControlInv
    <3>5. patch_done => end_created /\ header_hz = hz /\ hz1 = hz /\ ~patches /\ end1
      BY <1>5, <1>11, <1>12, <2>7 DEF ControlInv
    <3>6. patch_done' => end_created' /\ header_hz' = hz'
      BY <1>1, <1>6, <1>11, <2>3, <3>5
    <3>7. ~patch_done' => header_hz' = Rate /\ op' # "patch"
      BY <1>5, <1>6, <1>11, <2>1, <2>3 DEF ControlInv
    <3>8. sphase' \in {"PREPARING", "HEADER"} =>
            content' = <<>> /\ op' = "none" /\ queue' = <<>> /\ accepted' = <<>>
      <4> SUFFICES ASSUME sphase' \in {"PREPARING", "HEADER"}
                   PROVE  content' = <<>> /\ op' = "none" /\ queue' = <<>> /\ accepted' = <<>>
        OBVIOUS
      <4>1. ~ready /\ sphase \in {"PREPARING", "HEADER"}
        BY <1>6, <1>12, <2>3
      <4>2. op' = op /\ queue1 = queue
        BY <1>7, <1>11, <2>1, <4>1
      <4> QED
        BY <1>1, <1>5, <2>2, <2>3, <4>1, <4>2 DEF ControlInv
    <3>9. sphase' = "CLOSING" => phase' = "CLOSING" /\ ring' = <<>> /\ end_created' /\ header_hz' = hz'
      <4> SUFFICES ASSUME sphase' = "CLOSING"
                   PROVE  phase' = "CLOSING" /\ ring' = <<>> /\ end_created' /\ header_hz' = hz'
        OBVIOUS
      <4>1. drained /\ ~patches
        BY <1>5, <2>3, <2>4
      <4> QED
        BY <1>1, <1>11, <2>1, <2>3, <3>5, <4>1
    <3> QED
      BY <1>1, <1>5, <2>3, <3>1, <3>2, <3>3, <3>4, <3>6, <3>7, <3>8, <3>9 DEF ControlInv
  <2>15. StreamInv'
    <3>1. QueueInv'
      BY <1>1, <1>5, <1>8, <2>3, <2>5 DEF QueueInv, Numbered
    <3>2. CASE full
      <4> DEFINE b == SubSeq(ring2, 1, SectorLen)
                 d == SubSeq(ring2, SectorLen + 1, Len(ring2))
      <4>1. /\ ready /\ op' = "append" /\ pend' = b /\ ring' = d /\ header_hz' = header_hz
        BY <1>11, <2>1, <2>3, <3>2
      <4>2. Len(b) = SectorLen /\ Parts(Stored, b, d, header_hz, k, e)
        BY <1>8, <1>10, <2>6, <2>9, <2>10, <3>2, <4>1, HandOver
      <4> HIDE DEF b, d
      <4>3. Sent' = b /\ OnCard' = header_hz
        BY <4>1 DEF Sent, OnCard
      <4>4. Parts(Stored, Sent, ring, OnCard, Encoded, Marker)'
        BY <2>2, <2>5, <4>1, <4>2, <4>3 DEF Parts, At
      <4>5. FileInv'
        BY <1>5, <2>2, <4>1, <4>2 DEF FileInv
      <4> QED
        BY <3>1, <4>4, <4>5 DEF StreamInv
    <3>3. CASE final
      <4>1. /\ ready /\ op' = "append" /\ pend' = ring2 /\ ring' = <<>> /\ header_hz' = header_hz
            /\ ~full /\ e = 1 /\ Len(ring2) < SectorLen
        <5>1. ready /\ end1 /\ ~full /\ ~drained /\ ~patches
          BY <1>11, <3>3
        <5>2. Len(ring2) < SectorLen
          BY <2>9, <5>1 DEF full
        <5> QED
          BY <1>12, <2>1, <2>3, <3>3, <5>1, <5>2
      <4>2. Parts(Stored, ring2, <<>>, header_hz, k, e)
        BY <1>8, <1>10, <2>6, <4>1, HandLast
      <4>3. content # <<>>
        <5> SUFFICES ASSUME content = <<>> PROVE FALSE
          OBVIOUS
        <5>1. Stored = <<>>
          BY DEF Stored, FlattenSeq
        <5>2. Len(<<>>) + Len(ring2) + Len(<<>>) = Meta + 1 + k + 1
          BY <4>1, <4>2, <5>1 DEF Parts
        <5> QED
          BY <1>8, <2>9, <4>1, <5>2, Shape
      <4>4. Sent' = ring2 /\ OnCard' = header_hz
        BY <4>1 DEF Sent, OnCard
      <4>5. Parts(Stored, Sent, ring, OnCard, Encoded, Marker)'
        BY <2>2, <2>5, <4>1, <4>2, <4>4 DEF Parts, At
      <4>6. FileInv'
        BY <1>5, <2>2, <4>1, <4>3 DEF FileInv
      <4> QED
        BY <3>1, <4>5, <4>6 DEF StreamInv
    <3>4. CASE patches
      <4> DEFINE p == SubSeq(Header(hz1), 1, SectorLen)
      <4>1. /\ drained /\ ready /\ ring2 = <<>> /\ ~full /\ ~final /\ op' = "patch" /\ pend' = p
            /\ ring' = <<>> /\ header_hz' = hz1 /\ content # <<>> /\ header_hz = Rate
        BY <1>5, <1>11, <2>1, <2>3, <3>4 DEF ControlInv
      <4>2. /\ p \in Seq(Units) /\ Len(p) = SectorLen
            /\ \A i \in 1 .. SectorLen : p[i] = At(hz1, 0, i)
        <5>1. hz1 \in Nat
          BY <1>14, Shape
        <5>2. /\ Header(hz1) \in Seq(Units) /\ Len(Header(hz1)) = Meta + 1
              /\ \A i \in 1 .. Meta + 1 : Header(hz1)[i] = At(hz1, 0, i)
          BY <5>1, HeaderFacts
        <5>3. /\ p \in Seq(Units) /\ Len(p) = SectorLen
              /\ \A i \in 1 .. SectorLen : p[i] = Header(hz1)[i]
          BY <5>2, Shape
        <5>4. \A i \in 1 .. SectorLen : i \in 1 .. Meta + 1
          BY Shape
        <5> HIDE DEF p
        <5> QED
          BY <5>2, <5>3, <5>4
      <4> HIDE DEF p
      <4>3. Sent' = <<>> /\ OnCard' = Rate
        BY <4>1 DEF Sent, OnCard
      <4>4. Parts(Stored, <<>>, <<>>, Rate, k, e)
        BY <2>6, <4>1
      <4>5. Parts(Stored, Sent, ring, OnCard, Encoded, Marker)'
        BY <2>2, <2>5, <4>1, <4>3, <4>4 DEF Parts, At
      <4>6. FileInv'
        BY <1>5, <2>2, <4>1, <4>2 DEF FileInv, At
      <4> QED
        BY <3>1, <4>5, <4>6 DEF StreamInv
    <3>5. CASE ~full /\ ~final /\ ~patches
      <4>1. /\ UNCHANGED <<op, pend, content>> /\ ring' = ring2 /\ header_hz' = header_hz
        BY <1>6, <2>1, <2>3, <3>5
      <4>2. Sent' = Sent /\ OnCard' = OnCard
        BY <4>1 DEF Sent, OnCard
      <4>3. Parts(Stored, Sent, ring, OnCard, Encoded, Marker)'
        BY <1>10, <2>2, <2>5, <4>1, <4>2 DEF Parts, At
      <4>4. FileInv'
        BY <1>5, <4>1 DEF FileInv, At
      <4> QED
        BY <3>1, <4>3, <4>4 DEF StreamInv
    <3> QED
      BY <1>6, <3>2, <3>3, <3>4, <3>5
  <2> QED
    BY <2>11, <2>12, <2>13, <2>14, <2>15 DEF RecorderInv
<1> QED
  BY <1>17, <1>18

-----------------------------------------------------------------------------
(* The theorems.                                                           *)

LEMMA InitHolds == Init => RecorderInv
<1> SUFFICES ASSUME Init PROVE RecorderInv
  OBVIOUS
<1>1. /\ pc = "loop" /\ armed = FALSE
      /\ active = FALSE /\ queue = <<>> /\ pending = {} /\ last_armed = "none"
      /\ init = FALSE /\ init_stop = FALSE
      /\ sphase = "IDLE" /\ stop_requested = FALSE /\ end_created = FALSE
      /\ seen_armed = FALSE /\ ring = <<>> /\ hz = Rate /\ header_hz = Rate
      /\ patch_done = FALSE /\ settle = 0 /\ lost = FALSE
      /\ phase = "IDLE" /\ op = "none" /\ short = FALSE /\ content = <<>>
      /\ accepted = <<>> /\ noted = {}
  BY DEF Init, File!Init, File!At
<1>2. TypeOK
  <2>1. Len(queue) <= Queue /\ Len(ring) <= Ring /\ settle \in 0 .. 1
        /\ hz \in FloorHz .. Rate /\ header_hz \in FloorHz .. Rate
    BY <1>1, Shape
  <2>2. sphase \in Phase /\ phase \in File!Phase
    BY <1>1 DEF Phase, File!Phase
  <2> QED
    BY <1>1, <2>1, <2>2 DEF TypeOK
<1>3. ControlInv /\ EventInv /\ DoneInv /\ StreamInv
  BY <1>1 DEF ControlInv, EventInv, DoneInv, StreamInv, busy
<1> QED
  BY <1>2, <1>3 DEF RecorderInv

LEMMA StepKeeps == RecorderInv /\ [Next]_vars => RecorderInv'
<1> SUFFICES ASSUME RecorderInv, [Next]_vars PROVE RecorderInv'
  OBVIOUS
<1>1. CASE ControlLoop
  BY <1>1, FlyKeeps, ObserveKeeps DEF ControlLoop
<1>2. CASE Commands
  BY <1>2, StartKeeps, StopKeeps, ReadyKeeps DEF Commands
<1>3. CASE Poll
  BY <1>3, BeginKeeps, FileKeeps, SessionKeeps DEF Poll
<1>4. CASE PollTimeout
  BY <1>4, TimeoutKeeps
<1>5. CASE UNCHANGED vars
  <2>1. UNCHANGED <<pc, armed, active, queue, pending, last_armed, init, init_stop, sphase,
                    stop_requested, end_created, seen_armed, ring, hz, header_hz, patch_done,
                    settle, lost, phase, op, pend, short, content, accepted, noted>>
    BY <1>5 DEF vars, recVars, cliVars, sessVars, fileVars, histVars
  <2>2. TypeOK' /\ ControlInv'
    BY <2>1 DEF RecorderInv, TypeOK, ControlInv, busy
  <2>3. EventInv' /\ DoneInv' /\ StreamInv'
    BY <2>1, EventSame, DoneSame, StreamSame DEF RecorderInv, busy
  <2> QED
    BY <2>2, <2>3 DEF RecorderInv
<1> QED
  BY <1>1, <1>2, <1>3, <1>4, <1>5 DEF Next

\* Through any run of the control loop, the CLI and the poll the units of a
\* session stay in place: every unit of file, sector on its way, ring and FIFO is
\* the one its position calls for.
THEOREM RecordingInvariant == Spec => []RecorderInv
<1>1. Init => RecorderInv
  BY InitHolds
<1>2. RecorderInv /\ [Next]_vars => RecorderInv'
  BY StepKeeps
<1> QED
  BY <1>1, <1>2, PTL DEF Spec

\* Every variable keeps its type; FIFO and ring never exceed their capacity, the
\* rate never leaves the range from floor to default.
THEOREM TypeCorrect == Spec => []TypeOK
<1>1. RecorderInv => TypeOK
  BY DEF RecorderInv
<1> QED
  BY <1>1, RecordingInvariant, PTL

LEMMA Concat ==
  ASSUME NEW U, NEW x \in Seq(U), NEW y \in Seq(U)
  PROVE  /\ x \o y \in Seq(U) /\ Len(x \o y) = Len(x) + Len(y)
         /\ \A i \in 1 .. Len(x) + Len(y) :
              (x \o y)[i] = IF i <= Len(x) THEN x[i] ELSE y[i - Len(x)]
  OBVIOUS

LEMMA SameSeq ==
  ASSUME NEW U, NEW x \in Seq(U), NEW y \in Seq(U), Len(x) = Len(y),
         \A i \in 1 .. Len(x) : x[i] = y[i]
  PROVE  x = y
  OBVIOUS

LEMMA TailConcat ==
  ASSUME NEW U, NEW x \in Seq(U), x # <<>>, NEW y \in Seq(U)
  PROVE  Tail(x \o y) = Tail(x) \o y
<1> DEFINE l == Tail(x \o y)
           r == Tail(x) \o y
<1>1. Len(x) \in Nat \ {0} /\ Len(y) \in Nat
  OBVIOUS
<1>2. /\ Tail(x) \in Seq(U) /\ Len(Tail(x)) = Len(x) - 1
      /\ \A i \in 1 .. Len(x) - 1 : Tail(x)[i] = x[i + 1]
  OBVIOUS
<1>3. /\ l \in Seq(U) /\ Len(l) = Len(x) + Len(y) - 1
      /\ \A i \in 1 .. Len(x) + Len(y) - 1 : l[i] = (x \o y)[i + 1]
  <2> DEFINE z == x \o y
  <2>1. z \in Seq(U) /\ Len(z) = Len(x) + Len(y) /\ z # <<>>
    BY <1>1, Concat
  <2> HIDE DEF z
  <2>2. /\ Tail(z) \in Seq(U) /\ Len(Tail(z)) = Len(z) - 1
        /\ \A i \in 1 .. Len(z) - 1 : Tail(z)[i] = z[i + 1]
    BY <2>1
  <2> QED
    BY <2>1, <2>2 DEF z
<1>4. /\ r \in Seq(U) /\ Len(r) = Len(x) - 1 + Len(y)
      /\ \A i \in 1 .. Len(x) - 1 + Len(y) :
           r[i] = IF i <= Len(x) - 1 THEN Tail(x)[i] ELSE y[i - (Len(x) - 1)]
  BY <1>2, Concat
<1>5. ASSUME NEW i \in 1 .. Len(x) - 1 + Len(y) PROVE l[i] = r[i]
  <2>1. /\ i + 1 \in 1 .. Len(x) + Len(y) /\ (i + 1) - Len(x) = i - (Len(x) - 1)
        /\ i <= Len(x) - 1 <=> i + 1 <= Len(x)
        /\ i <= Len(x) - 1 => i \in 1 .. Len(x) - 1
        /\ i \in 1 .. Len(x) + Len(y) - 1
    BY <1>1
  <2>2. (x \o y)[i + 1] = IF i + 1 <= Len(x) THEN x[i + 1] ELSE y[(i + 1) - Len(x)]
    BY <2>1, Concat
  <2> HIDE DEF l, r
  <2> QED
    BY <1>2, <1>3, <1>4, <2>1, <2>2
<1>6. Len(x) - 1 + Len(y) = Len(x) + Len(y) - 1
  BY <1>1
<1> HIDE DEF l, r
<1>7. l = r
  BY <1>3, <1>4, <1>5, <1>6, SameSeq
<1> QED
  BY <1>7 DEF l, r

LEMMA IdsFacts ==
  ASSUME NEW q \in Seq(Sample)
  PROVE  Ids(q) \in Seq(Units) /\ Len(Ids(q)) = Len(q) /\ \A i \in 1 .. Len(q) : Ids(q)[i] = Frame(q[i].id)
<1>1. ASSUME NEW i \in 1 .. Len(q) PROVE Frame(q[i].id) \in Units
  <2>1. q[i] \in Sample
    OBVIOUS
  <2>2. q[i].id \in Nat
    BY <2>1 DEF Sample
  <2> QED
    BY <2>2 DEF Units, Frame, Unit
<1>2. Len(q) \in Nat
  OBVIOUS
<1> QED
  BY <1>1, <1>2 DEF Ids

\* The whole log of the samples accepted.
Whole(h, z) == (Header(h) \o Ids(accepted)) \o z

LEMMA WholeFacts ==
  ASSUME Numbered, NEW h \in Nat, NEW z \in {<<>>, <<EndUnit>>}
  PROVE  /\ Whole(h, z) \in Seq(Units) /\ Len(Whole(h, z)) = Meta + 1 + Len(accepted) + Len(z)
         /\ \A i \in 1 .. Meta + 1 + Len(accepted) + Len(z) : Whole(h, z)[i] = At(h, Len(accepted), i)
         /\ Tail(Whole(h, z)) = (Tail(Header(h)) \o Ids(accepted)) \o z
         /\ Len(z) \in {0, 1}
<1> DEFINE a == Header(h)
           b == Ids(accepted)
           n == Len(accepted)
<1>1. n \in Nat /\ Meta \in Nat /\ accepted \in Seq(Sample) /\ \A i \in 1 .. n : accepted[i].id = i
  BY Shape DEF Numbered
<1>2. /\ a \in Seq(Units) /\ Len(a) = Meta + 1
      /\ \A i \in 1 .. Meta + 1 : a[i] = At(h, n, i)
  BY <1>1, HeaderFacts
<1>3. b \in Seq(Units) /\ Len(b) = n /\ \A i \in 1 .. n : b[i] = Frame(i)
  BY <1>1, IdsFacts
<1>4. z \in Seq(Units) /\ Len(z) \in {0, 1} /\ (Len(z) = 1 => z[1] = EndUnit)
  <2>1. EndUnit \in Units
    BY DEF EndUnit, Unit, Units
  <2>2. CASE z = <<>>
    BY <2>2
  <2>3. CASE z = <<EndUnit>>
    BY <2>1, <2>3
  <2> QED
    BY <2>2, <2>3
<1> HIDE DEF a, b, n
<1>5. /\ a \o b \in Seq(Units) /\ Len(a \o b) = Meta + 1 + n
      /\ \A i \in 1 .. Meta + 1 + n : (a \o b)[i] = IF i <= Meta + 1 THEN a[i] ELSE b[i - (Meta + 1)]
  <2>1. /\ a \o b \in Seq(Units) /\ Len(a \o b) = Len(a) + Len(b)
        /\ \A i \in 1 .. Len(a) + Len(b) :
             (a \o b)[i] = IF i <= Len(a) THEN a[i] ELSE b[i - Len(a)]
    BY <1>2, <1>3, Concat
  <2> QED
    BY <1>2, <1>3, <2>1
<1>6. /\ (a \o b) \o z \in Seq(Units) /\ Len((a \o b) \o z) = Meta + 1 + n + Len(z)
      /\ \A i \in 1 .. Meta + 1 + n + Len(z) :
           ((a \o b) \o z)[i] = IF i <= Meta + 1 + n THEN (a \o b)[i] ELSE z[i - (Meta + 1 + n)]
  BY <1>4, <1>5, Concat
<1>7. ASSUME NEW i \in 1 .. Meta + 1 + n + Len(z) PROVE ((a \o b) \o z)[i] = At(h, n, i)
  <2>1. CASE i <= Meta + 1
    <3>1. i \in 1 .. Meta + 1 /\ i <= Meta + 1 + n /\ i \in 1 .. Meta + 1 + n
      BY <1>1, <2>1
    <3> QED
      BY <1>2, <1>5, <1>6, <3>1
  <2>2. CASE ~(i <= Meta + 1) /\ i <= Meta + 1 + n
    <3>1. i - (Meta + 1) \in 1 .. n /\ i \in 1 .. Meta + 1 + n /\ i # 1
      BY <1>1, <2>2
    <3>2. ((a \o b) \o z)[i] = Frame(i - (Meta + 1))
      BY <1>3, <1>5, <1>6, <2>2, <3>1
    <3> QED
      BY <2>2, <3>1, <3>2 DEF At
  <2>3. CASE ~(i <= Meta + 1 + n)
    <3>1. i - (Meta + 1 + n) = 1 /\ Len(z) = 1 /\ i # 1 /\ ~(i <= Meta + 1)
      <4>1. i \in Nat /\ i <= Meta + 1 + n + Len(z) /\ i > Meta + 1 + n
        BY <1>1, <1>4, <2>3
      <4>2. CASE Len(z) = 0
        BY <1>1, <4>1, <4>2
      <4>3. CASE Len(z) = 1
        <5>1. i <= Meta + 1 + n + 1
          BY <4>1, <4>3
        <5> QED
          BY <1>1, <4>1, <4>3, <5>1
      <4> QED
        BY <1>4, <4>2, <4>3
    <3> QED
      BY <1>4, <1>6, <2>3, <3>1 DEF At
  <2> QED
    BY <1>1, <2>1, <2>2, <2>3
<1>8. Tail((a \o b) \o z) = (Tail(a) \o b) \o z
  <2>1. a # <<>> /\ a \o b # <<>>
    BY <1>1, <1>2, <1>5
  <2> QED
    BY <1>2, <1>3, <1>4, <1>5, <2>1, TailConcat
<1> QED
  BY <1>4, <1>6, <1>7, <1>8 DEF Whole, a, b, n

\* A session that reports done has left the whole recording on the card, under
\* a header that states the rate it ended with (bb_session_poll(), closing).
THEOREM LogIsWhole == Spec => []WholeLog
<1>1. RecorderInv => WholeLog
  <2> SUFFICES ASSUME RecorderInv, sphase = "DONE", phase = "DONE"
               PROVE  FlattenSeq(content) = Header(hz) \o Ids(accepted) \o <<EndUnit>>
    BY DEF WholeLog
  <2> DEFINE w == Whole(hz, <<EndUnit>>)
  <2>1. Numbered /\ Parts(Stored, <<>>, <<>>, hz, Len(accepted), 1) /\ hz \in Nat
    BY Shape DEF RecorderInv, DoneInv, TypeOK
  <2>2. Len(accepted) \in Nat /\ Meta \in Nat /\ Len(<<>>) = 0 /\ Len(<<EndUnit>>) = 1
    BY <2>1, Shape DEF Numbered
  <2>3. /\ Stored \in Seq(Units) /\ Len(Stored) = Meta + 1 + Len(accepted) + 1
        /\ \A i \in 1 .. Len(Stored) : Stored[i] = At(hz, Len(accepted), i)
    BY <2>1, <2>2 DEF Parts
  <2>4. /\ w \in Seq(Units) /\ Len(w) = Meta + 1 + Len(accepted) + 1
        /\ \A i \in 1 .. Meta + 1 + Len(accepted) + 1 : w[i] = At(hz, Len(accepted), i)
    BY <2>1, <2>2, WholeFacts
  <2> HIDE DEF w
  <2>5. Stored = w
    BY <2>3, <2>4, SameSeq
  <2> QED
    BY <2>5 DEF w, Stored, Whole
<1> QED
  BY <1>1, RecordingInvariant, PTL

LEMMA Joined ==
  ASSUME NEW a, NEW b, NEW c, NEW h, NEW k \in Nat, NEW e \in {0, 1}, Parts(a, b, c, h, k, e)
  PROVE  /\ (a \o b) \o c \in Seq(Units) /\ Len((a \o b) \o c) = Meta + 1 + k + e
         /\ \A i \in 1 .. Meta + 1 + k + e : ((a \o b) \o c)[i] = At(h, k, i)
<1> DEFINE s == a \o b
           t == s \o c
<1>1. Parts(s, <<>>, c, h, k, e)
  BY Arrives
<1> HIDE DEF s
<1>2. Parts(s, c, <<>>, h, k, e)
  BY <1>1, HandLast
<1>3. Parts(t, <<>>, <<>>, h, k, e)
  BY <1>2, Arrives
<1> HIDE DEF t
<1>4. /\ t \in Seq(Units) /\ Len(<<>>) = 0 /\ Len(t) \in Nat
      /\ Len(t) + Len(<<>>) + Len(<<>>) = Meta + 1 + k + e
      /\ \A i \in 1 .. Len(t) : t[i] = At(h, k, i)
  BY <1>3 DEF Parts
<1> QED
  BY <1>4 DEF s, t

\* Every accepted sample is in exactly one place and in its order, from the ring
\* buffer of flight_recorder.c to the file; the header is first and the end marker
\* last; an arm or disarm event waits until a sample takes it.
THEOREM NothingIsLost == Spec => []NothingLost
<1>1. RecorderInv => NothingLost
  <2> SUFFICES ASSUME RecorderInv, busy
               PROVE  LET stream == FlattenSeq(content) \o (IF op = "append" THEN pend ELSE <<>>) \o ring
                      IN Tail(stream) \o Ids(queue) =
                           Tail(Header(Rate)) \o Ids(accepted) \o Closing
    BY DEF RecorderInv, EventInv, NothingLost
  <2> DEFINE s == (Stored \o Sent) \o ring
             x == s \o Ids(queue)
             w == Whole(Rate, Closing)
             n == Len(accepted)
  <2>1. /\ QueueInv /\ Parts(Stored, Sent, ring, OnCard, Encoded, Marker)
        /\ Closing \in {<<>>, <<EndUnit>>} /\ (end_created => queue = <<>>)
    BY DEF RecorderInv, ControlInv, StreamInv, Closing
  <2>2. /\ queue \in Seq(Sample) /\ Len(queue) \in Nat /\ n \in Nat /\ Encoded \in Nat
        /\ Encoded + Len(queue) = n /\ Marker \in {0, 1} /\ Meta \in Nat
        /\ Len(Closing) = Marker /\ (Marker = 1 => Len(queue) = 0)
    BY <2>1, Shape DEF QueueInv, Numbered, Encoded, Marker, Closing
  <2>3. /\ s \in Seq(Units) /\ Len(s) = Meta + 1 + Encoded + Marker
        /\ \A i \in 1 .. Meta + 1 + Encoded + Marker : s[i] = At(OnCard, Encoded, i)
    <3>1. Parts(Stored, Sent, ring, OnCard, Encoded, Marker) /\ Encoded \in Nat /\ Marker \in {0, 1}
      BY <2>1, <2>2
    <3> QED
      BY <3>1, Joined
  <2>4. Ids(queue) \in Seq(Units) /\ Len(Ids(queue)) = Len(queue)
        /\ \A i \in 1 .. Len(queue) : Ids(queue)[i] = Frame(Encoded + i)
    <3>1. ASSUME NEW i \in 1 .. Len(queue) PROVE queue[i].id = Encoded + i
      <4>1. Encoded + i \in 1 .. n
        BY <2>2
      <4> QED
        BY <2>1, <4>1 DEF QueueInv, Numbered
    <3> QED
      BY <2>2, <3>1, IdsFacts
  <2> HIDE DEF s, n
  <2>5. /\ x \in Seq(Units) /\ Len(x) = Meta + 1 + Encoded + Marker + Len(queue)
        /\ \A i \in 1 .. Meta + 1 + Encoded + Marker + Len(queue) :
             x[i] = IF i <= Meta + 1 + Encoded + Marker THEN s[i]
                    ELSE Ids(queue)[i - (Meta + 1 + Encoded + Marker)]
    <3>1. /\ x \in Seq(Units) /\ Len(x) = Len(s) + Len(Ids(queue))
          /\ \A i \in 1 .. Len(s) + Len(Ids(queue)) :
               x[i] = IF i <= Len(s) THEN s[i] ELSE Ids(queue)[i - Len(s)]
      BY <2>3, <2>4, Concat
    <3> HIDE DEF x
    <3> QED
      BY <2>3, <2>4, <3>1
  <2>6. Meta + 1 + Encoded + Marker + Len(queue) = Meta + 1 + n + Marker
    BY <2>2
  <2>7. ASSUME NEW i \in 1 .. Meta + 1 + n + Marker PROVE x[i] = At(OnCard, n, i)
    <3> HIDE DEF x
    <3>1. i \in Nat /\ i \in 1 .. Meta + 1 + Encoded + Marker + Len(queue)
      BY <2>2, <2>6
    <3>2. CASE Marker = 1
      <4>1. Encoded = n /\ Len(queue) = 0
        BY <2>2, <3>2
      <4>2. i <= Meta + 1 + Encoded + Marker /\ i \in 1 .. Meta + 1 + Encoded + Marker
        BY <2>2, <4>1
      <4> QED
        BY <2>3, <2>5, <3>1, <4>1, <4>2
    <3>3. CASE Marker = 0 /\ i <= Meta + 1 + Encoded
      <4>1. i <= Meta + 1 + Encoded + Marker /\ i \in 1 .. Meta + 1 + Encoded + Marker
        BY <2>2, <3>1, <3>3
      <4>2. x[i] = At(OnCard, Encoded, i)
        BY <2>3, <2>5, <3>1, <4>1
      <4>3. i <= Meta + 1 + n
        BY <2>2, <3>1, <3>3
      <4> QED
        BY <3>3, <4>2, <4>3 DEF At
    <3>4. CASE Marker = 0 /\ ~(i <= Meta + 1 + Encoded)
      <4> DEFINE j == i - (Meta + 1 + Encoded)
      <4>1. /\ j \in 1 .. Len(queue) /\ Encoded + j = i - (Meta + 1)
            /\ i # 1 /\ ~(i <= Meta + 1) /\ i <= Meta + 1 + n
            /\ Meta + 1 + Encoded + Marker = Meta + 1 + Encoded
        BY <2>2, <3>1, <3>4
      <4>2. x[i] = Ids(queue)[j]
        BY <2>5, <3>1, <3>4, <4>1
      <4>3. x[i] = Frame(i - (Meta + 1))
        <5> HIDE DEF j
        <5> QED
          BY <2>4, <4>1, <4>2
      <4> QED
        BY <4>1, <4>3 DEF At
    <3> QED
      BY <2>2, <3>2, <3>3, <3>4
  <2>8. /\ w \in Seq(Units) /\ Len(w) = Meta + 1 + n + Marker
        /\ \A i \in 1 .. Meta + 1 + n + Marker : w[i] = At(Rate, n, i)
        /\ Tail(w) = (Tail(Header(Rate)) \o Ids(accepted)) \o Closing
    BY <2>1, <2>2, Shape, WholeFacts DEF QueueInv, n
  <2>9. Tail(x) = Tail(s) \o Ids(queue)
    <3>1. s # <<>>
      BY <2>2, <2>3
    <3> QED
      BY <2>3, <2>4, <3>1, TailConcat
  <2> HIDE DEF x, w
  <2>10. Tail(x) = Tail(w)
    <3>1. /\ x # <<>> /\ w # <<>> /\ Len(x) = Meta + 1 + n + Marker /\ Len(x) \in Nat
          /\ Len(w) = Len(x)
      BY <2>2, <2>5, <2>6, <2>8
    <3>2. /\ Tail(x) \in Seq(Units) /\ Len(Tail(x)) = Len(x) - 1
          /\ \A i \in 1 .. Len(x) - 1 : Tail(x)[i] = x[i + 1]
      BY <2>5, <3>1
    <3>3. /\ Tail(w) \in Seq(Units) /\ Len(Tail(w)) = Len(x) - 1
          /\ \A i \in 1 .. Len(x) - 1 : Tail(w)[i] = w[i + 1]
      BY <2>8, <3>1
    <3>4. ASSUME NEW i \in 1 .. Len(x) - 1 PROVE Tail(x)[i] = Tail(w)[i]
      <4>1. i + 1 \in 1 .. Meta + 1 + n + Marker /\ i + 1 # 1
        BY <2>2, <3>1
      <4>2. At(OnCard, n, i + 1) = At(Rate, n, i + 1)
        BY <4>1 DEF At
      <4> QED
        BY <2>7, <2>8, <3>2, <3>3, <4>1, <4>2
    <3> QED
      BY <3>2, <3>3, <3>4, SameSeq
  <2> QED
    BY <2>8, <2>9, <2>10 DEF s, Stored, Sent
<1> QED
  BY <1>1, RecordingInvariant, PTL
=============================================================================
