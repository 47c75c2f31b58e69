------------------------------ MODULE SfpProof ------------------------------
(***************************************************************************)
(* Proofs about Sfp, for every sequence range, every history shorter than  *)
(* it, any number of packets, connections and damaged frames: its types,   *)
(* and between applications that keep within the history exact delivery,   *)
(* and delivery of everything by the time the lines are quiet.             *)
(*                                                                         *)
(* The inductive invariant of exact delivery is Link.  It says             *)
(* what may be on the two lines in every pair of states (Handshake), that  *)
(* an endpoint in the middle of a handshake has nothing to lose (Fresh),   *)
(* and that between two open endpoints every number on the lines means the *)
(* packet it is meant to mean (Transfer).  Lines are only looked at        *)
(* through which frames are on them and which are ahead of which, which    *)
(* damage, taking and sending change in few ways.  Heals, at the end of    *)
(* the module, adds that what is missing is on the lines or asked for.     *)
(***************************************************************************)
EXTENDS Sfp, FiniteSetTheorems, SequenceTheorems, TLAPS

-----------------------------------------------------------------------------
(* Remainders.  Sequence numbers are compared modulo SEQ_RANGE.            *)

\* A set of naturals that is not empty has a least element.
LEMMA LeastNatural ==
  ASSUME NEW T \in SUBSET Nat, T # {}
  PROVE  \E m \in T : \A n \in T : m <= n
  <1>1. PICK m \in T : \A n \in T : <<n, m>> \notin OpToRel(<, Nat)
    BY NatLessThanWellFounded, WFMin, Zenon
  <1>2. \A n \in T : ~ (n < m)
    BY <1>1 DEF OpToRel
  <1> QED
    BY <1>2

\* A remainder is known by the equation it satisfies.
LEMMA ModUnique ==
  ASSUME NEW c \in Nat \ {0}, NEW q \in Int, NEW r \in 0 .. (c - 1)
  PROVE  (q * c + r) % c = r
  OBVIOUS

\* The distributive law, stated for the leaves that would not find it.
LEMMA Distribute ==
  ASSUME NEW c \in Int, NEW p \in Int, NEW q \in Int
  PROVE  /\ (q - p) * c = q * c - p * c
         /\ (q + p) * c = q * c + p * c
         /\ (q + 1) * c = q * c + c
         /\ q * c \in Int
  OBVIOUS

\* Every integer is a multiple of the modulus and a remainder.
LEMMA Quotient ==
  ASSUME NEW c \in Nat \ {0}, NEW a \in Int
  PROVE  \E q \in Int : \E r \in 0 .. (c - 1) : a = q * c + r /\ a % c = r
  <1> DEFINE Rest(n) == \E q \in Int : a = q * c + n
             T == {n \in Nat : Rest(n)}
  <1>1. \E n \in Nat : Rest(n)
    <2>1. CASE a >= 0
      <3>1. a = 0 * c + a /\ a \in Nat
        BY <2>1
      <3>0. 0 \in Int
        OBVIOUS
      <3>2. Rest(a)
        BY <3>0, <3>1, Zenon
      <3> QED BY <3>1, <3>2, Zenon
    <2>2. CASE a < 0
      <3>1. a = a * c + (a - a * c)
        BY Distribute
      <3>2. Rest(a - a * c)
        BY <3>1, Zenon
      <3>3. (0 - a) * (c - 1) >= 0 /\ (0 - a) * (c - 1) = a - a * c
        BY <2>2
      <3>4. a - a * c \in Nat
        BY <3>3, Distribute
      <3> HIDE DEF Rest
      <3> QED BY <3>2, <3>4, Zenon
    <2> QED BY <2>1, <2>2
  <1> HIDE DEF Rest
  <1>2. T \in SUBSET Nat /\ T # {}
    BY <1>1, Zenon
  <1> HIDE DEF T
  <1>3. PICK r \in T : \A n \in T : r <= n
    BY <1>2, LeastNatural, Zenon
  <1>4. r \in Nat /\ Rest(r)
    BY <1>3, Zenon DEF T
  <1>5. PICK q \in Int : a = q * c + r
    BY <1>4, Zenon DEF Rest
  <1>6. r < c
    <2> SUFFICES ASSUME r >= c PROVE FALSE
      BY <1>4
    <2>0. (q + 1) * c = q * c + c /\ q * c \in Int
      BY Distribute
    <2>1. a = (q + 1) * c + (r - c) /\ r - c \in Nat /\ q + 1 \in Int
      BY <1>4, <1>5, <2>0
    <2>2. Rest(r - c)
      BY <2>1, Zenon DEF Rest
    <2>3. r - c \in T
      BY <2>1, <2>2, Zenon DEF T
    <2>4. r <= r - c
      BY <1>3, <2>3
    <2> QED BY <1>4, <2>4
  <1>7. r \in 0 .. (c - 1)
    BY <1>4, <1>6
  <1>8. a % c = r
    BY <1>5, <1>7, ModUnique
  <1> QED
    BY <1>5, <1>7, <1>8

\* Two numbers with the same remainder that are less than the modulus apart are
\* equal ...
LEMMA Close ==
  ASSUME NEW c \in Nat \ {0}, NEW q \in Int, NEW p \in Int, NEW m \in Int,
         NEW a \in Int, NEW b \in Int, a = q * c + m, b = p * c + m,
         -c < a - b, a - b < c
  PROVE  a = b
  <1>1. q * c \in Int /\ p * c \in Int /\ (q - p) * c = q * c - p * c
    BY Distribute
  <1>2. a - b = (q - p) * c
    BY <1>1
  <1>3. CASE q - p >= 1
    <2>1. (q - p) * c >= c
      BY <1>3
    <2> QED BY <1>2, <2>1
  <1>4. CASE q - p <= -1
    <2>1. (q - p) * c <= -c
      BY <1>4
    <2> QED BY <1>2, <2>1
  <1>5. CASE q = p
    BY <1>5
  <1> QED BY <1>3, <1>4, <1>5

\* Two numbers less than the modulus apart that have the same remainder.
LEMMA ModClose ==
  ASSUME NEW c \in Nat \ {0}, NEW a \in Int, NEW b \in Int, a % c = b % c, -c < a - b, a - b < c
  PROVE  a = b
  <1>1. PICK q \in Int : \E r \in 0 .. (c - 1) : a = q * c + r /\ a % c = r
    BY Quotient, Zenon
  <1>2. PICK r \in 0 .. (c - 1) : a = q * c + r /\ a % c = r
    BY <1>1, Zenon
  <1>3. PICK p \in Int : \E t \in 0 .. (c - 1) : b = p * c + t /\ b % c = t
    BY Quotient, Zenon
  <1>4. PICK t \in 0 .. (c - 1) : b = p * c + t /\ b % c = t
    BY <1>3, Zenon
  <1>5. r = t
    BY <1>2, <1>4, Zenon
  <1>6. a = q * c + r /\ b = p * c + r /\ r \in Int
    BY <1>2, <1>4, <1>5
  <1> HIDE <1>1, <1>2, <1>3, <1>4
  <1> QED BY <1>6, Close, Zenon

\* The remainder of a difference, from the remainder of what is subtracted.
LEMMA DifferenceMod ==
  ASSUME NEW c \in Nat \ {0}, NEW q \in Int, NEW p \in Int, NEW m \in Int, NEW n \in 0 .. (c - 1),
         NEW a \in Int, NEW b \in Int, a = q * c + m, b - m = p * c + n
  PROVE  (b - a) % c = n
  <1>1. q * c \in Int /\ p * c \in Int /\ (p - q) * c = p * c - q * c
    BY Distribute
  <1>2. b - a = (p - q) * c + n
    BY <1>1
  <1>3. ((p - q) * c + n) % c = n
    BY ModUnique
  <1> QED BY <1>2, <1>3, Zenon

\* A remainder may be taken before or after a sum or difference.
LEMMA ModAdd ==
  ASSUME NEW c \in Nat \ {0}, NEW a \in Int, NEW b \in Int
  PROVE  ((a % c) + b) % c = (a + b) % c
  <1>1. PICK q \in Int : \E r \in 0 .. (c - 1) : a = q * c + r /\ a % c = r
    BY Quotient, Zenon
  <1>2. PICK m \in 0 .. (c - 1) : a = q * c + m /\ a % c = m
    BY <1>1, Zenon
  <1>3. m \in Int /\ m + b \in Int
    OBVIOUS
  <1>4. PICK p \in Int : \E r \in 0 .. (c - 1) : m + b = p * c + r /\ (m + b) % c = r
    BY <1>3, Quotient, Zenon
  <1>5. PICK n \in 0 .. (c - 1) : m + b = p * c + n /\ (m + b) % c = n
    BY <1>4, Zenon
  <1>6. a = q * c + m
    BY <1>2
  <1>7. m + b = p * c + n
    BY <1>5
  <1>8. (a + b) % c = n
    <2>1. q * c \in Int /\ p * c \in Int /\ (q + p) * c = q * c + p * c
      BY Distribute
    <2>2. a + b = (q + p) * c + n
      BY <1>3, <1>6, <1>7, <2>1
    <2>3. ((q + p) * c + n) % c = n
      BY ModUnique
    <2> QED BY <2>2, <2>3, Zenon
  <1>9. a % c = m /\ (m + b) % c = n
    BY <1>2, <1>5
  <1> HIDE <1>1, <1>2, <1>6, <1>7, <1>4, <1>5
  <1> QED BY <1>8, <1>9

\* ... and before or after a difference.
LEMMA ModSub ==
  ASSUME NEW c \in Nat \ {0}, NEW a \in Int, NEW b \in Int
  PROVE  (b - (a % c)) % c = (b - a) % c
  <1>1. PICK q \in Int : \E r \in 0 .. (c - 1) : a = q * c + r /\ a % c = r
    BY Quotient, Zenon
  <1>2. PICK m \in 0 .. (c - 1) : a = q * c + m /\ a % c = m
    BY <1>1, Zenon
  <1>3. m \in Int /\ b - m \in Int
    OBVIOUS
  <1>4. PICK p \in Int : \E r \in 0 .. (c - 1) : b - m = p * c + r /\ (b - m) % c = r
    BY <1>3, Quotient, Zenon
  <1>5. PICK n \in 0 .. (c - 1) : b - m = p * c + n /\ (b - m) % c = n
    BY <1>4, Zenon
  <1>6. a = q * c + m
    BY <1>2
  <1>7. b - m = p * c + n
    BY <1>5
  <1>8. (b - a) % c = n
    BY <1>3, <1>6, <1>7, DifferenceMod
  <1>9. a % c = m /\ (b - m) % c = n
    BY <1>2, <1>5
  <1> HIDE <1>1, <1>2, <1>6, <1>7, <1>4, <1>5
  <1> QED BY <1>8, <1>9

\* Numbers below the modulus are their own remainder.
LEMMA ModSmall ==
  ASSUME NEW c \in Nat \ {0}, NEW a \in 0 .. (c - 1)
  PROVE  a % c = a
  OBVIOUS

-----------------------------------------------------------------------------
(* The order of the frames on a line.                                      *)

\* Frame f is on line q; f is ahead of g there.
In(q, f) == \E i \in 1 .. Len(q) : q[i] = f
Before(q, f, g) == \E i, j \in 1 .. Len(q) : i < j /\ q[i] = f /\ q[j] = g

\* Line t is line q with frames taken off or spoilt.
Thinner(t, q) ==
  /\ \A f \in Frame : In(t, f) => (In(q, f) \/ f.type = "BAD")
  /\ \A f, g \in Frame : Before(t, f, g) => (Before(q, f, g) \/ f.type = "BAD" \/ g.type = "BAD")

\* What is left of a line when its head is taken was behind the head.
LEMMA TailLine ==
  ASSUME NEW q \in Seq(Frame), q # <<>>
  PROVE  /\ Tail(q) \in Seq(Frame) /\ Head(q) \in Frame
         /\ In(q, Head(q))
         /\ \A f \in Frame : In(Tail(q), f) => (In(q, f) /\ Before(q, Head(q), f))
         /\ \A f, g \in Frame : Before(Tail(q), f, g) => Before(q, f, g)
  <1>1. /\ Len(q) \in Nat /\ Len(q) >= 1 /\ Tail(q) \in Seq(Frame) /\ Len(Tail(q)) = Len(q) - 1
        /\ \A i \in 1 .. Len(Tail(q)) : Tail(q)[i] = q[i + 1]
        /\ Head(q) = q[1] /\ Head(q) \in Frame
    OBVIOUS
  <1>2. In(q, Head(q))
    BY <1>1 DEF In
  <1>3. ASSUME NEW f \in Frame, In(Tail(q), f)
        PROVE  In(q, f) /\ Before(q, Head(q), f)
    <2>1. PICK i \in 1 .. Len(Tail(q)) : Tail(q)[i] = f
      BY <1>3 DEF In
    <2>2. i + 1 \in 1 .. Len(q) /\ q[i + 1] = f /\ 1 \in 1 .. Len(q) /\ 1 < i + 1
      BY <1>1, <2>1
    <2> QED BY <1>1, <2>2, Zenon DEF In, Before
  <1>4. ASSUME NEW f \in Frame, NEW g \in Frame, Before(Tail(q), f, g)
        PROVE  Before(q, f, g)
    <2>1. PICK i \in 1 .. Len(Tail(q)), j \in 1 .. Len(Tail(q)) :
            i < j /\ Tail(q)[i] = f /\ Tail(q)[j] = g
      BY <1>4, Zenon DEF Before
    <2>2. i + 1 \in 1 .. Len(q) /\ q[i + 1] = f /\ j + 1 \in 1 .. Len(q) /\ q[j + 1] = g /\ i + 1 < j + 1
      BY <1>1, <2>1
    <2> QED BY <2>2, Zenon DEF Before
  <1> QED BY <1>1, <1>2, <1>3, <1>4

\* Frames that are sent are behind those on the line.
LEMMA ConcatLine ==
  ASSUME NEW q \in Seq(Frame), NEW fs \in Seq(Frame)
  PROVE  /\ q \o fs \in Seq(Frame)
         /\ \A f \in Frame : In(q \o fs, f) <=> (In(q, f) \/ In(fs, f))
         /\ \A f, g \in Frame : Before(q \o fs, f, g)
                                  => (Before(q, f, g) \/ Before(fs, f, g) \/ (In(q, f) /\ In(fs, g)))
  <1>1. /\ Len(q) \in Nat /\ Len(fs) \in Nat
        /\ q \o fs \in Seq(Frame) /\ Len(q \o fs) = Len(q) + Len(fs)
        /\ \A i \in 1 .. Len(q) : (q \o fs)[i] = q[i]
        /\ \A i \in 1 .. (Len(q) + Len(fs)) : i > Len(q) => (q \o fs)[i] = fs[i - Len(q)]
    OBVIOUS
  <1>2. ASSUME NEW f \in Frame, In(q, f)
        PROVE  In(q \o fs, f)
    <2>1. PICK i \in 1 .. Len(q) : q[i] = f
      BY <1>2 DEF In
    <2>2. i \in 1 .. Len(q \o fs) /\ (q \o fs)[i] = f
      BY <1>1, <2>1
    <2> QED BY <2>2, Zenon DEF In
  <1>3. ASSUME NEW f \in Frame, In(fs, f)
        PROVE  In(q \o fs, f)
    <2>1. PICK i \in 1 .. Len(fs) : fs[i] = f
      BY <1>3 DEF In
    <2>2. Len(q) + i \in 1 .. Len(q \o fs) /\ Len(q) + i > Len(q) /\ (Len(q) + i) - Len(q) = i
      BY <1>1, <2>1
    <2>3. (q \o fs)[Len(q) + i] = f
      BY <1>1, <2>1, <2>2
    <2> QED BY <2>2, <2>3, Zenon DEF In
  <1>4. ASSUME NEW i \in 1 .. Len(q \o fs)
        PROVE  \/ i \in 1 .. Len(q) /\ (q \o fs)[i] = q[i]
               \/ i > Len(q) /\ i - Len(q) \in 1 .. Len(fs) /\ (q \o fs)[i] = fs[i - Len(q)]
    BY <1>1
  <1>5. ASSUME NEW f \in Frame, In(q \o fs, f)
        PROVE  In(q, f) \/ In(fs, f)
    <2>1. PICK i \in 1 .. Len(q \o fs) : (q \o fs)[i] = f
      BY <1>5, Zenon DEF In
    <2> QED BY <1>4, <2>1, Zenon DEF In
  <1>6. ASSUME NEW f \in Frame, NEW g \in Frame, Before(q \o fs, f, g)
        PROVE  Before(q, f, g) \/ Before(fs, f, g) \/ (In(q, f) /\ In(fs, g))
    <2>1. PICK i \in 1 .. Len(q \o fs), j \in 1 .. Len(q \o fs) :
            i < j /\ (q \o fs)[i] = f /\ (q \o fs)[j] = g
      BY <1>6, Zenon DEF Before
    <2>2. CASE j \in 1 .. Len(q) /\ (q \o fs)[j] = q[j]
      <3>1. i \in 1 .. Len(q) /\ (q \o fs)[i] = q[i]
        BY <1>1, <2>1, <2>2
      <3> QED BY <2>1, <2>2, <3>1, Zenon DEF Before
    <2>3. CASE j > Len(q) /\ j - Len(q) \in 1 .. Len(fs) /\ (q \o fs)[j] = fs[j - Len(q)]
      <3>1. CASE i \in 1 .. Len(q) /\ (q \o fs)[i] = q[i]
        BY <2>1, <2>3, <3>1, Zenon DEF In
      <3>2. CASE i > Len(q) /\ i - Len(q) \in 1 .. Len(fs) /\ (q \o fs)[i] = fs[i - Len(q)]
        <4>1. i - Len(q) < j - Len(q)
          BY <1>1, <2>1
        <4> QED BY <2>1, <2>3, <3>2, <4>1, Zenon DEF Before
      <3> QED BY <1>4, <3>1, <3>2
    <2> QED BY <1>4, <2>2, <2>3
  <1> QED BY <1>1, <1>2, <1>3, <1>5, <1>6, Zenon

\* Three stretches of a line.
LEMMA ConcatThree ==
  ASSUME NEW u \in Seq(Frame), NEW v \in Seq(Frame), NEW w \in Seq(Frame)
  PROVE  (u \o v) \o w = u \o (v \o w)
  BY ConcatAssociative

\* What is where on a line made of two stretches.
LEMMA Places ==
  ASSUME NEW u \in Seq(Frame), NEW r \in Seq(Frame)
  PROVE  /\ u \o r \in Seq(Frame) /\ Len(u \o r) = Len(u) + Len(r)
         /\ Len(u) \in Nat /\ Len(r) \in Nat
         /\ \A j \in 1 .. Len(u) : (u \o r)[j] = u[j]
         /\ \A j \in 1 .. (Len(u) + Len(r)) : j > Len(u) => (u \o r)[j] = r[j - Len(u)]
  OBVIOUS

\* A line of one frame.
LEMMA OneFrame ==
  ASSUME NEW f \in Frame
  PROVE  /\ <<f>> \in Seq(Frame)
         /\ \A g \in Frame : In(<<f>>, g) <=> g = f
         /\ \A g, h \in Frame : ~ Before(<<f>>, g, h)
  BY DEF In, Before

\* The empty line.
LEMMA NoFrame ==
  /\ <<>> \in Seq(Frame)
  /\ \A g \in Frame : ~ In(<<>>, g)
  /\ \A g, h \in Frame : ~ Before(<<>>, g, h)
  BY DEF In, Before

\* Frames in order are on the line.
LEMMA BeforeIn ==
  ASSUME NEW q, NEW f, NEW g, Before(q, f, g)
  PROVE  In(q, f) /\ In(q, g)
  BY Zenon DEF In, Before

\* Taking the head makes a line thinner, ...
LEMMA TailThinner ==
  ASSUME NEW q \in Seq(Frame), q # <<>>
  PROVE  Thinner(Tail(q), q)
  BY TailLine, Zenon DEF Thinner

\* ... a line is as thin as itself, ...
LEMMA SameThinner ==
  ASSUME NEW q
  PROVE  Thinner(q, q)
  BY Zenon DEF Thinner

\* ... and the frame the line puts in the place of one it spoils is BAD.
LEMMA BadFrame ==
  Control("BAD", 0) \in Frame /\ Control("BAD", 0).type = "BAD"
  BY SfpAssumption DEF Control, Frame, Seq6, Packet, NoPacket

\* A frame that vanishes ...
LEMMA LoseThinner ==
  ASSUME NEW q \in Seq(Frame), NEW i \in 1 .. Len(q)
  PROVE  /\ RemoveAt(q, i) \in Seq(Frame)
         /\ Thinner(RemoveAt(q, i), q)
  <1> DEFINE u == SubSeq(q, 1, i - 1)
             v == SubSeq(q, i + 1, Len(q))
             t == RemoveAt(q, i)
  <1>1. /\ Len(q) \in Nat
        /\ u \in Seq(Frame) /\ Len(u) = i - 1 /\ \A k \in 1 .. (i - 1) : u[k] = q[k]
        /\ v \in Seq(Frame) /\ Len(v) = Len(q) - i /\ \A k \in 1 .. (Len(q) - i) : v[k] = q[i + k]
    OBVIOUS
  <1>2. t = u \o v
    BY DEF RemoveAt
  <1> HIDE DEF u, v, t
  <1>3. /\ t \in Seq(Frame) /\ Len(t) = Len(q) - 1
        /\ \A k \in 1 .. (Len(q) - 1) : k < i => t[k] = u[k]
        /\ \A k \in 1 .. (Len(q) - 1) : k >= i => t[k] = v[k - (i - 1)]
    <2>1. /\ u \o v \in Seq(Frame) /\ Len(u \o v) = Len(u) + Len(v)
          /\ \A k \in 1 .. Len(u) : (u \o v)[k] = u[k]
          /\ \A k \in 1 .. (Len(u) + Len(v)) : k > Len(u) => (u \o v)[k] = v[k - Len(u)]
      BY <1>1, Places, Zenon
    <2>2. Len(t) = Len(q) - 1
      BY <1>1, <1>2, <2>1
    <2>3. ASSUME NEW k \in 1 .. (Len(q) - 1), k < i
          PROVE  t[k] = u[k]
      <3>1. k \in 1 .. Len(u)
        BY <1>1, <2>3
      <3> QED BY <1>2, <2>1, <3>1, Zenon
    <2>4. ASSUME NEW k \in 1 .. (Len(q) - 1), k >= i
          PROVE  t[k] = v[k - (i - 1)]
      <3>1. k \in 1 .. (Len(u) + Len(v)) /\ k > Len(u) /\ Len(u) = i - 1
        BY <1>1, <2>4
      <3> QED BY <1>2, <2>1, <3>1, Zenon
    <2> QED BY <1>2, <2>1, <2>2, <2>3, <2>4, Zenon
  <1>5. ASSUME NEW k \in 1 .. Len(t)
        PROVE  t[k] = q[IF k < i THEN k ELSE k + 1]
    <2>1. CASE k < i
      <3>1. k \in 1 .. (i - 1) /\ k \in 1 .. (Len(q) - 1)
        BY <1>1, <1>3, <2>1
      <3>2. t[k] = u[k] /\ u[k] = q[k]
        BY <1>1, <1>3, <2>1, <3>1, Zenon
      <3> QED BY <2>1, <3>2, Zenon
    <2>2. CASE k >= i
      <3>1. t[k] = v[k - (i - 1)] /\ k - (i - 1) \in 1 .. (Len(q) - i)
        <4>1. /\ Len(q) \in Nat /\ Len(t) = Len(q) - 1
              /\ \A j \in 1 .. (Len(q) - 1) : j >= i => t[j] = v[j - (i - 1)]
          BY <1>1, <1>3, Zenon
        <4>2. k \in 1 .. (Len(q) - 1)
          BY <4>1, Zenon
        <4>3. t[k] = v[k - (i - 1)]
          BY <2>2, <4>1, <4>2, Zenon
        <4>4. Len(q) \in Nat /\ i \in 1 .. Len(q) /\ k \in 1 .. (Len(q) - 1) /\ k >= i
          BY <2>2, <4>1, <4>2, Zenon
        <4>5. k - (i - 1) \in 1 .. (Len(q) - i)
          BY <4>4
        <4> QED BY <4>3, <4>5, Zenon
      <3>2. v[k - (i - 1)] = q[i + (k - (i - 1))]
        BY <1>1, <3>1, Zenon
      <3>3. i + (k - (i - 1)) = k + 1
        BY <1>1, <1>3
      <3>4. ~ (k < i)
        BY <1>1, <1>3, <2>2
      <3> QED BY <3>1, <3>2, <3>3, <3>4, Zenon
    <2> QED BY <1>1, <1>3, <2>1, <2>2
  <1>6. ASSUME NEW f \in Frame, In(t, f)
        PROVE  In(q, f)
    <2>1. PICK k \in 1 .. Len(t) : t[k] = f
      BY <1>6, Zenon DEF In
    <2>2. (IF k < i THEN k ELSE k + 1) \in 1 .. Len(q)
      BY <1>1, <1>3
    <2> QED BY <1>5, <2>1, <2>2, Zenon DEF In
  <1>4. ASSUME NEW f \in Frame, NEW g \in Frame, Before(t, f, g)
        PROVE  Before(q, f, g)
    <2>1. PICK k \in 1 .. Len(t), l \in 1 .. Len(t) : k < l /\ t[k] = f /\ t[l] = g
      BY <1>4, Zenon DEF Before
    <2> DEFINE a == IF k < i THEN k ELSE k + 1
               b == IF l < i THEN l ELSE l + 1
    <2>2. a \in 1 .. Len(q) /\ b \in 1 .. Len(q) /\ a < b
      BY <1>1, <1>3, <2>1
    <2>3. q[a] = f /\ q[b] = g
      BY <1>5, <2>1, Zenon
    <2> HIDE DEF a, b
    <2> QED BY <2>2, <2>3, Zenon DEF Before
  <1> QED BY <1>3, <1>4, <1>6, Zenon DEF Thinner, t

\* ... or is spoilt.
LEMMA CorruptThinner ==
  ASSUME NEW q \in Seq(Frame), NEW i \in 1 .. Len(q)
  PROVE  /\ [q EXCEPT ![i] = Control("BAD", 0)] \in Seq(Frame)
         /\ Thinner([q EXCEPT ![i] = Control("BAD", 0)], q)
  <1> DEFINE bad == Control("BAD", 0)
             t == [q EXCEPT ![i] = bad]
  <1>1. bad \in Frame /\ bad.type = "BAD"
    BY BadFrame
  <1> HIDE DEF bad
  <1>2. /\ t \in Seq(Frame) /\ Len(t) = Len(q)
        /\ \A k \in 1 .. Len(q) : t[k] = IF k = i THEN bad ELSE q[k]
    BY <1>1
  <1> HIDE DEF t
  <1>3. ASSUME NEW f \in Frame, In(t, f)
        PROVE  In(q, f) \/ f.type = "BAD"
    BY <1>1, <1>2, <1>3 DEF In
  <1>4. ASSUME NEW f \in Frame, NEW g \in Frame, Before(t, f, g)
        PROVE  Before(q, f, g) \/ f.type = "BAD" \/ g.type = "BAD"
    BY <1>1, <1>2, <1>4 DEF Before
  <1> QED BY <1>2, <1>3, <1>4, Zenon DEF Thinner, t, bad

-----------------------------------------------------------------------------
(* What a line can be told by: data, NAKs, and the SYNs in their order.    *)

Data(f) == f.type \in {"USR", "RTX"}
Syn(f, n) == f.type = "SYN" /\ f.seq = n
Has(q, n) == \E f \in Frame : In(q, f) /\ Syn(f, n)
NoData(q) == \A f \in Frame : In(q, f) => ~ Data(f)
Nak0(q) == \A f \in Frame : (In(q, f) /\ f.type = "NAK") => f.seq = 0
\* Before a SYN0 there are only SYN0s, NAKs and spoilt frames.
Pure(q) == \A f, g \in Frame : (Before(q, f, g) /\ Syn(g, SYN0))
             => ~ Data(f) /\ ~ Syn(f, SYN1) /\ ~ Syn(f, SYN2) /\ ~ Syn(f, DIS)
\* Behind a SYN1 there are only SYN1s, spoilt frames and NAKs of 0.
After1(q) == \A f, g \in Frame : (Before(q, f, g) /\ Syn(f, SYN1))
               => /\ ~ Data(g) /\ ~ Syn(g, SYN0) /\ ~ Syn(g, SYN2) /\ ~ Syn(g, DIS)
                  /\ g.type = "NAK" => g.seq = 0
\* Ahead of a SYN1 there is no data.
Before1(q) == \A f, g \in Frame : (Before(q, f, g) /\ Syn(g, SYN1)) => ~ Data(f)

\* Damage keeps everything these summaries say of a line.
LEMMA ThinSummary ==
  ASSUME NEW t, NEW q, Thinner(t, q)
  PROVE  /\ \A n : Has(t, n) => Has(q, n)
         /\ NoData(q) => NoData(t)
         /\ Nak0(q) => Nak0(t)
         /\ Pure(q) => Pure(t)
         /\ After1(q) => After1(t)
         /\ Before1(q) => Before1(t)
  <1>1. \A f \in Frame : In(t, f) => (In(q, f) \/ f.type = "BAD")
    BY DEF Thinner
  <1>2. \A f, g \in Frame : Before(t, f, g) => (Before(q, f, g) \/ f.type = "BAD" \/ g.type = "BAD")
    BY DEF Thinner
  <1>3. \A n : Has(t, n) => Has(q, n)
    BY <1>1 DEF Has, Syn
  <1>4. NoData(q) => NoData(t)
    BY <1>1 DEF NoData, Data
  <1>5. Nak0(q) => Nak0(t)
    BY <1>1 DEF Nak0
  <1>6. Pure(q) => Pure(t)
    BY <1>2 DEF Pure, Syn, Data
  <1>7. After1(q) => After1(t)
    BY <1>2 DEF After1, Syn, Data
  <1>8. Before1(q) => Before1(t)
    BY <1>2 DEF Before1, Syn, Data
  <1> QED BY <1>3, <1>4, <1>5, <1>6, <1>7, <1>8, Zenon

\* The summaries of a line that frames have been sent on.
LEMMA ConcatSummary ==
  ASSUME NEW q \in Seq(Frame), NEW s \in Seq(Frame)
  PROVE  /\ \A n : Has(q \o s, n) <=> (Has(q, n) \/ Has(s, n))
         /\ NoData(q \o s) <=> (NoData(q) /\ NoData(s))
         /\ Nak0(q \o s) <=> (Nak0(q) /\ Nak0(s))
         /\ (/\ Pure(q) /\ Pure(s)
             /\ Has(s, SYN0) => (NoData(q) /\ ~ Has(q, SYN1) /\ ~ Has(q, SYN2) /\ ~ Has(q, DIS)))
              => Pure(q \o s)
         /\ (/\ After1(q) /\ After1(s)
             /\ Has(q, SYN1)
                  => (NoData(s) /\ Nak0(s) /\ ~ Has(s, SYN0) /\ ~ Has(s, SYN2) /\ ~ Has(s, DIS)))
              => After1(q \o s)
         /\ (Before1(q) /\ Before1(s) /\ (Has(s, SYN1) => NoData(q))) => Before1(q \o s)
  <1> DEFINE c == q \o s
  <1>1. \A f \in Frame : In(c, f) <=> (In(q, f) \/ In(s, f))
    BY ConcatLine
  <1>2. \A f, g \in Frame : Before(c, f, g)
          => (Before(q, f, g) \/ Before(s, f, g) \/ (In(q, f) /\ In(s, g)))
    BY ConcatLine
  <1> HIDE DEF c
  <1>3. \A n : Has(c, n) <=> (Has(q, n) \/ Has(s, n))
    BY <1>1, Zenon DEF Has
  <1>4. NoData(c) <=> (NoData(q) /\ NoData(s))
    BY <1>1, Zenon DEF NoData
  <1>5. Nak0(c) <=> (Nak0(q) /\ Nak0(s))
    BY <1>1, Zenon DEF Nak0
  <1>6. ASSUME Pure(q), Pure(s),
               Has(s, SYN0) => (NoData(q) /\ ~ Has(q, SYN1) /\ ~ Has(q, SYN2) /\ ~ Has(q, DIS))
        PROVE  Pure(c)
    BY <1>2, <1>6 DEF Pure, Has, NoData
  <1>7. ASSUME After1(q), After1(s),
               Has(q, SYN1) => (NoData(s) /\ Nak0(s) /\ ~ Has(s, SYN0) /\ ~ Has(s, SYN2) /\ ~ Has(s, DIS))
        PROVE  After1(c)
    BY <1>2, <1>7 DEF After1, Has, NoData, Nak0
  <1>8. ASSUME Before1(q), Before1(s), Has(s, SYN1) => NoData(q)
        PROVE  Before1(c)
    BY <1>2, <1>8 DEF Before1, Has, NoData
  <1> QED BY <1>3, <1>4, <1>5, <1>6, <1>7, <1>8, Zenon DEF c

\* The fields of a NAK or a SYN.
LEMMA ControlFrame ==
  ASSUME NEW t \in {"NAK", "SYN"}, NEW n \in Seq6
  PROVE  /\ Control(t, n) \in Frame
         /\ Control(t, n).type = t /\ Control(t, n).seq = n
  BY SfpAssumption DEF Control, Frame, Packet, NoPacket

\* The four SYNs have different sequence numbers.
LEMMA SynNumbers ==
  {SYN0, SYN1, SYN2, DIS} \subseteq Seq6 /\ SYN0 = 0 /\ SYN1 = 1 /\ SYN2 = 2 /\ DIS = 3
  BY SfpAssumption DEF Seq6, SYN0, SYN1, SYN2, DIS

\* A line of one SYN or one NAK.
LEMMA SynSummary ==
  ASSUME NEW n \in Seq6
  PROVE  LET s == <<Control("SYN", n)>> IN
         /\ s \in Seq(Frame)
         /\ \A m : Has(s, m) <=> m = n
         /\ NoData(s) /\ Nak0(s) /\ Pure(s) /\ After1(s) /\ Before1(s)
  <1> DEFINE c == Control("SYN", n)
  <1>1. c \in Frame /\ c.type = "SYN" /\ c.seq = n
    BY ControlFrame
  <1> HIDE DEF c
  <1>2. /\ <<c>> \in Seq(Frame)
        /\ \A g \in Frame : In(<<c>>, g) <=> g = c
        /\ \A g, h \in Frame : ~ Before(<<c>>, g, h)
    BY <1>1, OneFrame
  <1>3. \A m : Has(<<c>>, m) <=> m = n
    BY <1>1, <1>2 DEF Has, Syn
  <1>4. NoData(<<c>>) /\ Nak0(<<c>>)
    BY <1>1, <1>2 DEF NoData, Nak0, Data
  <1>5. Pure(<<c>>) /\ After1(<<c>>) /\ Before1(<<c>>)
    BY <1>2 DEF Pure, After1, Before1
  <1> QED BY <1>2, <1>3, <1>4, <1>5, Zenon DEF c

\* A line of one NAK.
LEMMA NakSummary ==
  ASSUME NEW n \in Seq6
  PROVE  LET s == <<Control("NAK", n)>> IN
         /\ s \in Seq(Frame)
         /\ \A m : ~ Has(s, m)
         /\ NoData(s) /\ (Nak0(s) <=> n = 0) /\ Pure(s) /\ After1(s) /\ Before1(s)
  <1> DEFINE c == Control("NAK", n)
  <1>1. c \in Frame /\ c.type = "NAK" /\ c.seq = n
    BY ControlFrame
  <1> HIDE DEF c
  <1>2. /\ <<c>> \in Seq(Frame)
        /\ \A g \in Frame : In(<<c>>, g) <=> g = c
        /\ \A g, h \in Frame : ~ Before(<<c>>, g, h)
    BY <1>1, OneFrame
  <1>3. \A m : ~ Has(<<c>>, m)
    BY <1>1, <1>2 DEF Has, Syn
  <1>4. NoData(<<c>>) /\ (Nak0(<<c>>) <=> n = 0)
    BY <1>1, <1>2 DEF NoData, Nak0, Data
  <1>5. Pure(<<c>>) /\ After1(<<c>>) /\ Before1(<<c>>)
    BY <1>2 DEF Pure, After1, Before1
  <1> QED BY <1>2, <1>3, <1>4, <1>5, Zenon DEF c

\* Frames that are all data.
LEMMA DataSummary ==
  ASSUME NEW s \in Seq(Frame), \A f \in Frame : In(s, f) => Data(f)
  PROVE  /\ \A m : ~ Has(s, m)
         /\ Nak0(s) /\ Pure(s) /\ After1(s) /\ Before1(s)
  BY BeforeIn DEF Has, Nak0, Pure, After1, Before1, Syn, Data

\* The summaries of the empty line.
LEMMA EmptySummary ==
  /\ <<>> \in Seq(Frame)
  /\ \A m : ~ Has(<<>>, m)
  /\ NoData(<<>>) /\ Nak0(<<>>) /\ Pure(<<>>) /\ After1(<<>>) /\ Before1(<<>>)
  BY NoFrame DEF Has, NoData, Nak0, Pure, After1, Before1

\* What the head of a line says of the line.
LEMMA HeadSummary ==
  ASSUME NEW q \in Seq(Frame), q # <<>>
  PROVE  /\ \A n : Syn(Head(q), n) => Has(q, n)
         /\ Data(Head(q)) => ~ NoData(q)
         /\ (Nak0(q) /\ Head(q).type = "NAK") => Head(q).seq = 0
         /\ (/\ Pure(q)
             /\ Data(Head(q)) \/ Syn(Head(q), SYN1) \/ Syn(Head(q), SYN2) \/ Syn(Head(q), DIS))
              => ~ Has(Tail(q), SYN0)
         /\ (After1(q) /\ Syn(Head(q), SYN1))
              => /\ NoData(Tail(q)) /\ Nak0(Tail(q))
                 /\ ~ Has(Tail(q), SYN0) /\ ~ Has(Tail(q), SYN2) /\ ~ Has(Tail(q), DIS)
         /\ (Before1(q) /\ Data(Head(q))) => ~ Has(Tail(q), SYN1)
  <1>1. /\ Head(q) \in Frame /\ In(q, Head(q))
        /\ \A f \in Frame : In(Tail(q), f) => (In(q, f) /\ Before(q, Head(q), f))
    BY TailLine
  <1>2. /\ \A n : Syn(Head(q), n) => Has(q, n)
        /\ Data(Head(q)) => ~ NoData(q)
        /\ (Nak0(q) /\ Head(q).type = "NAK") => Head(q).seq = 0
    BY <1>1, Zenon DEF Has, NoData, Nak0
  <1>3. ASSUME Pure(q), Data(Head(q)) \/ Syn(Head(q), SYN1) \/ Syn(Head(q), SYN2) \/ Syn(Head(q), DIS)
        PROVE  ~ Has(Tail(q), SYN0)
    BY <1>1, <1>3, Zenon DEF Pure, Has
  <1>4. ASSUME After1(q), Syn(Head(q), SYN1)
        PROVE  /\ NoData(Tail(q)) /\ Nak0(Tail(q))
               /\ ~ Has(Tail(q), SYN0) /\ ~ Has(Tail(q), SYN2) /\ ~ Has(Tail(q), DIS)
    BY <1>1, <1>4, Zenon DEF After1, Has, NoData, Nak0
  <1>5. ASSUME Before1(q), Data(Head(q))
        PROVE  ~ Has(Tail(q), SYN1)
    BY <1>1, <1>5, Zenon DEF Before1, Has
  <1> QED BY <1>2, <1>3, <1>4, <1>5, Zenon

-----------------------------------------------------------------------------
(* The handshake.  Its frames carry no number of the attempt they
   belong to; what may be on the lines in every pair of states does.       *)

States == {"DISCONNECTED", "SENT_SYN0", "SENT_SYN1", "CONNECTED"}
\* The endpoint has started over for this connection and may be sent packets.
IsOpen(s) == s \in {"SENT_SYN1", "CONNECTED"}
\* Nothing is on the line that belongs to an earlier connection.
Quiet(q) == NoData(q) /\ Nak0(q) /\ ~ Has(q, SYN1) /\ ~ Has(q, SYN2) /\ ~ Has(q, DIS)

\* An endpoint in state se, its peer in state sp, the lines to it and from it.
Handshake(se, sp, qe, qp) ==
  /\ Pure(qp)
  /\ se = "SENT_SYN0" => Quiet(qp)
  /\ (Has(qp, SYN0) /\ se = "CONNECTED") => sp = "SENT_SYN1"
  /\ (Has(qp, SYN0) /\ se = "SENT_SYN1")
       => (sp \in {"SENT_SYN0", "SENT_SYN1"} /\ NoData(qe) /\ Nak0(qe) /\ ~ Has(qe, DIS))
  /\ (Has(qp, SYN0) /\ se # "CONNECTED") => (NoData(qp) /\ Nak0(qp))
  /\ (Has(qp, SYN0) /\ Has(qe, SYN0)) => (se # "DISCONNECTED" /\ ~ Has(qe, DIS))
  /\ (se = "SENT_SYN0" /\ Has(qe, SYN0)) => (~ Has(qe, DIS) /\ sp # "DISCONNECTED")
  /\ (IsOpen(sp) /\ ~ IsOpen(se)) => NoData(qp)
  /\ (se = "SENT_SYN0" /\ sp # "SENT_SYN1") => ~ Has(qe, SYN1)
  /\ (se = "SENT_SYN0" /\ sp = "SENT_SYN1") => After1(qe)
  /\ (Has(qp, SYN1) /\ (IsOpen(sp) \/ Has(qp, SYN0))) => IsOpen(se)
  /\ (Has(qp, SYN2) /\ (IsOpen(sp) \/ Has(qp, SYN0))) => se = "CONNECTED"
  /\ Has(qp, DIS) => (se = "DISCONNECTED" \/ (se = "SENT_SYN1" /\ ~ IsOpen(sp)))

\* The handshake, seen from both ends.
Both(sa, sb, qa, qb) == Handshake(sa, sb, qa, qb) /\ Handshake(sb, sa, qb, qa)

\* Damage does not disturb the handshake.
LEMMA ThinHandshake ==
  ASSUME NEW sa \in States, NEW sb \in States, NEW qa, NEW qb, NEW ta, NEW tb,
         Both(sa, sb, qa, qb), Thinner(ta, qa), Thinner(tb, qb)
  PROVE  Both(sa, sb, ta, tb)
  <1>1. /\ \A n : Has(ta, n) => Has(qa, n)
        /\ NoData(qa) => NoData(ta)
        /\ Nak0(qa) => Nak0(ta)
        /\ Pure(qa) => Pure(ta)
        /\ After1(qa) => After1(ta)
    BY ThinSummary
  <1>2. /\ \A n : Has(tb, n) => Has(qb, n)
        /\ NoData(qb) => NoData(tb)
        /\ Nak0(qb) => Nak0(tb)
        /\ Pure(qb) => Pure(tb)
        /\ After1(qb) => After1(tb)
    BY ThinSummary
  <1> QED BY <1>1, <1>2 DEF Both, Handshake, Quiet

\* a sends frames that are no SYN.
LEMMA PlainHandshake ==
  ASSUME NEW sa \in States, NEW sb \in States, NEW qa \in Seq(Frame), NEW qb \in Seq(Frame),
         NEW s \in Seq(Frame), Both(sa, sb, qa, qb),
         \A n : ~ Has(s, n), Pure(s), After1(s),
         NoData(s) \/ (sa = "CONNECTED"),
         Nak0(s) \/ (sa \in {"CONNECTED", "DISCONNECTED"} /\ (sa = "DISCONNECTED" => ~ Has(qb, SYN0)))
  PROVE  Both(sa, sb, qa, qb \o s)
  <1>1. /\ \A n : Has(qb \o s, n) <=> Has(qb, n)
        /\ NoData(qb \o s) <=> (NoData(qb) /\ NoData(s))
        /\ Nak0(qb \o s) <=> (Nak0(qb) /\ Nak0(s))
        /\ Pure(qb) => Pure(qb \o s)
        /\ (After1(qb) /\ (Has(qb, SYN1) => (NoData(s) /\ Nak0(s)))) => After1(qb \o s)
    BY ConcatSummary
  <1> QED BY <1>1 DEF Both, Handshake, Quiet, States, IsOpen

\* Both lines are empty: sfpInit and sfpConnect.
LEMMA StartHandshake ==
  ASSUME NEW sb \in States
  PROVE  /\ Both("DISCONNECTED", sb, <<>>, <<>>)
         /\ Both("SENT_SYN0", sb, <<>>, <<Control("SYN", SYN0)>>)
         /\ Both(sb, "SENT_SYN0", <<Control("SYN", SYN0)>>, <<>>)
  <1> DEFINE s == <<Control("SYN", SYN0)>>
  <1>1. /\ \A m : Has(s, m) <=> m = SYN0
        /\ NoData(s) /\ Nak0(s) /\ Pure(s) /\ After1(s)
    BY SynSummary, SynNumbers
  <1> HIDE DEF s
  <1>2. Has(s, SYN0) /\ ~ Has(s, SYN1) /\ ~ Has(s, SYN2) /\ ~ Has(s, DIS)
    BY <1>1, SynNumbers
  <1>3. /\ \A m : ~ Has(<<>>, m)
        /\ NoData(<<>>) /\ Nak0(<<>>) /\ Pure(<<>>) /\ After1(<<>>)
    BY EmptySummary
  <1>4. Both("DISCONNECTED", sb, <<>>, <<>>)
    BY <1>3 DEF Both, Handshake, Quiet, States, IsOpen
  <1>5. Both("SENT_SYN0", sb, <<>>, s)
    BY <1>1, <1>2, <1>3 DEF Both, Handshake, Quiet, States, IsOpen
  <1> QED BY <1>4, <1>5, Zenon DEF s, Both

\* What appending SYN n to a line does.
LEMMA AppendSyn ==
  ASSUME NEW q \in Seq(Frame), NEW n \in {SYN0, SYN1, SYN2, DIS}
  PROVE  LET c == q \o <<Control("SYN", n)>> IN
         /\ \A m : Has(c, m) <=> (Has(q, m) \/ m = n)
         /\ NoData(c) <=> NoData(q)
         /\ Nak0(c) <=> Nak0(q)
         /\ (Pure(q) /\ (n = SYN0 => (NoData(q) /\ ~ Has(q, SYN1) /\ ~ Has(q, SYN2) /\ ~ Has(q, DIS))))
              => Pure(c)
         /\ (After1(q) /\ (n = SYN1 \/ ~ Has(q, SYN1))) => After1(c)
         /\ (Before1(q) /\ (n = SYN1 => NoData(q))) => Before1(c)
  <1> DEFINE s == <<Control("SYN", n)>>
  <1>1. /\ s \in Seq(Frame)
        /\ \A m : Has(s, m) <=> m = n
        /\ NoData(s) /\ Nak0(s) /\ Pure(s) /\ After1(s) /\ Before1(s)
    BY SynSummary, SynNumbers
  <1> HIDE DEF s
  <1>2. n = SYN1 => (~ Has(s, SYN0) /\ ~ Has(s, SYN2) /\ ~ Has(s, DIS))
    BY <1>1, SynNumbers
  <1>3. Has(s, SYN0) => n = SYN0
    BY <1>1, SynNumbers
  <1>4. Has(s, SYN1) => n = SYN1
    BY <1>1, SynNumbers
  <1>5. \A m : Has(q \o s, m) <=> (Has(q, m) \/ m = n)
    BY <1>1, ConcatSummary, Zenon
  <1>6. (NoData(q \o s) <=> NoData(q)) /\ (Nak0(q \o s) <=> Nak0(q))
    BY <1>1, ConcatSummary, Zenon
  <1>7. (Pure(q) /\ (n = SYN0 => (NoData(q) /\ ~ Has(q, SYN1) /\ ~ Has(q, SYN2) /\ ~ Has(q, DIS))))
          => Pure(q \o s)
    BY <1>1, <1>3, ConcatSummary, Zenon
  <1>8. (After1(q) /\ (n = SYN1 \/ ~ Has(q, SYN1))) => After1(q \o s)
    BY <1>1, <1>2, ConcatSummary, Zenon
  <1>9. (Before1(q) /\ (n = SYN1 => NoData(q))) => Before1(q \o s)
    BY <1>1, <1>4, ConcatSummary, Zenon
  <1> QED BY <1>5, <1>6, <1>7, <1>8, <1>9, Zenon DEF s

\* What holds of every line without a SYN1.
LEMMA NoSyn1 ==
  ASSUME NEW q, ~ Has(q, SYN1)
  PROVE  After1(q) /\ Before1(q)
  BY BeforeIn DEF Has, After1, Before1

\* a answers DIS, SYN0 or SYN1 and stays in its state.
LEMMA AnswerHandshake ==
  ASSUME NEW sa \in States, NEW sb \in States, NEW qa \in Seq(Frame), NEW qb \in Seq(Frame),
         Both(sa, sb, qa, qb), NEW n,
         \/ sa = "DISCONNECTED" /\ n = DIS
         \/ sa = "SENT_SYN0" /\ n = SYN0
         \/ sa = "SENT_SYN1" /\ n = SYN1
  PROVE  Both(sa, sb, qa, qb \o <<Control("SYN", n)>>)
  <1> DEFINE c == qb \o <<Control("SYN", n)>>
  <1>0. n \in {SYN0, SYN1, SYN2, DIS}
    OBVIOUS
  <1>1. /\ \A m : Has(c, m) <=> (Has(qb, m) \/ m = n)
        /\ NoData(c) <=> NoData(qb)
        /\ Nak0(c) <=> Nak0(qb)
        /\ (Pure(qb) /\ (n = SYN0 => (NoData(qb) /\ ~ Has(qb, SYN1) /\ ~ Has(qb, SYN2) /\ ~ Has(qb, DIS))))
              => Pure(c)
        /\ (After1(qb) /\ (n = SYN1 \/ ~ Has(qb, SYN1))) => After1(c)
    BY <1>0, AppendSyn
  <1> HIDE DEF c
  <1>2. /\ Has(c, SYN0) <=> (Has(qb, SYN0) \/ n = SYN0)
        /\ Has(c, SYN1) <=> (Has(qb, SYN1) \/ n = SYN1)
        /\ Has(c, SYN2) <=> (Has(qb, SYN2) \/ n = SYN2)
        /\ Has(c, DIS) <=> (Has(qb, DIS) \/ n = DIS)
    BY <1>1, Zenon
  <1>3. ASSUME sa = "DISCONNECTED", n = DIS
        PROVE  Both(sa, sb, qa, c)
    <2>1. /\ Pure(qb) => Pure(c)
          /\ Has(c, SYN0) <=> Has(qb, SYN0)
          /\ Has(c, SYN1) <=> Has(qb, SYN1)
          /\ Has(c, SYN2) <=> Has(qb, SYN2)
          /\ NoData(c) <=> NoData(qb)
          /\ Nak0(c) <=> Nak0(qb)
      BY <1>1, <1>2, <1>3, SynNumbers
    <2>2. Handshake(sa, sb, qa, c)
      BY <1>3, <2>1 DEF Both, Handshake, Quiet, States, IsOpen
    <2>3. Handshake(sb, sa, c, qa)
      BY <1>3, <2>1 DEF Both, Handshake, Quiet, States, IsOpen
    <2> QED BY <2>2, <2>3 DEF Both
  <1>4. ASSUME sa = "SENT_SYN0", n = SYN0
        PROVE  Both(sa, sb, qa, c)
    <2>1. /\ Quiet(qb)
          /\ Has(c, SYN0) /\ ~ Has(c, SYN1) /\ ~ Has(c, SYN2) /\ ~ Has(c, DIS)
          /\ NoData(c) /\ Nak0(c) /\ Pure(c) /\ After1(c)
      BY <1>1, <1>2, <1>4, NoSyn1, SynNumbers DEF Quiet, Both, Handshake
    <2>2. Handshake(sa, sb, qa, c)
      BY <1>4, <2>1 DEF Both, Handshake, Quiet, States, IsOpen
    <2>3. Handshake(sb, sa, c, qa)
      BY <1>4, <2>1 DEF Both, Handshake, Quiet, States, IsOpen
    <2> QED BY <2>2, <2>3 DEF Both
  <1>5. ASSUME sa = "SENT_SYN1", n = SYN1
        PROVE  Both(sa, sb, qa, c)
    <2>1. /\ Pure(qb) => Pure(c)
          /\ After1(qb) => After1(c)
          /\ Has(c, SYN0) <=> Has(qb, SYN0)
          /\ Has(c, SYN1)
          /\ Has(c, SYN2) <=> Has(qb, SYN2)
          /\ Has(c, DIS) <=> Has(qb, DIS)
          /\ NoData(c) <=> NoData(qb)
          /\ Nak0(c) <=> Nak0(qb)
      BY <1>1, <1>2, <1>5, SynNumbers
    <2>2. Handshake(sa, sb, qa, c)
      BY <1>5, <2>1 DEF Both, Handshake, Quiet, States, IsOpen
    <2>3. Handshake(sb, sa, c, qa)
      BY <1>5, <2>1 DEF Both, Handshake, Quiet, States, IsOpen
    <2> QED BY <2>2, <2>3 DEF Both
  <1>6. Both(sa, sb, qa, c)
    BY <1>3, <1>4, <1>5
  <1> QED BY <1>6, Zenon DEF c

\* a takes a SYN0, answers SYN1 and waits for a SYN2.
LEMMA Syn0Handshake ==
  ASSUME NEW sa \in States, NEW sb \in States, NEW qa \in Seq(Frame), NEW qb \in Seq(Frame),
         Both(sa, sb, qa, qb), qa # <<>>, Syn(Head(qa), SYN0)
  PROVE  Both("SENT_SYN1", sb, Tail(qa), qb \o <<Control("SYN", SYN1)>>)
  <1> DEFINE c == qb \o <<Control("SYN", SYN1)>>
             ta == Tail(qa)
  <1>1. /\ \A m : Has(c, m) <=> (Has(qb, m) \/ m = SYN1)
        /\ NoData(c) <=> NoData(qb)
        /\ Nak0(c) <=> Nak0(qb)
        /\ Pure(qb) => Pure(c)
        /\ After1(qb) => After1(c)
    BY AppendSyn, SynNumbers
  <1>2. /\ \A n : Has(ta, n) => Has(qa, n)
        /\ NoData(qa) => NoData(ta)
        /\ Nak0(qa) => Nak0(ta)
        /\ Pure(qa) => Pure(ta)
        /\ After1(qa) => After1(ta)
    BY ThinSummary, TailThinner
  <1>3. Has(qa, SYN0)
    BY HeadSummary
  <1>4. ~ Has(qb, SYN1) => After1(qb)
    BY NoSyn1
  <1> HIDE DEF c, ta
  <1>5. /\ Has(c, SYN0) <=> Has(qb, SYN0)
        /\ Has(c, SYN1)
        /\ Has(c, SYN2) <=> Has(qb, SYN2)
        /\ Has(c, DIS) <=> Has(qb, DIS)
    BY <1>1, SynNumbers
  <1>6. /\ Has(ta, SYN0) => Has(qa, SYN0)
        /\ Has(ta, SYN1) => Has(qa, SYN1)
        /\ Has(ta, SYN2) => Has(qa, SYN2)
        /\ Has(ta, DIS) => Has(qa, DIS)
    BY <1>2
  <1>7. /\ NoData(c) <=> NoData(qb)
        /\ Nak0(c) <=> Nak0(qb)
        /\ Pure(qb) => Pure(c)
        /\ After1(qb) => After1(c)
        /\ NoData(qa) => NoData(ta)
        /\ Nak0(qa) => Nak0(ta)
        /\ Pure(qa) => Pure(ta)
        /\ After1(qa) => After1(ta)
    BY <1>1, <1>2
  <1>8. Handshake("SENT_SYN1", sb, ta, c)
    BY <1>3, <1>4, <1>5, <1>6, <1>7 DEF Both, Handshake, Quiet, States, IsOpen
  <1>9. Handshake(sb, "SENT_SYN1", c, ta)
    BY <1>3, <1>4, <1>5, <1>6, <1>7 DEF Both, Handshake, Quiet, States, IsOpen
  <1> QED BY <1>8, <1>9, Zenon DEF c, ta, Both

\* What taking the head off a line does.
LEMMA TailSummary ==
  ASSUME NEW q \in Seq(Frame), q # <<>>
  PROVE  LET t == Tail(q) IN
         /\ Has(t, SYN0) => Has(q, SYN0)
         /\ Has(t, SYN1) => Has(q, SYN1)
         /\ Has(t, SYN2) => Has(q, SYN2)
         /\ Has(t, DIS) => Has(q, DIS)
         /\ NoData(q) => NoData(t)
         /\ Nak0(q) => Nak0(t)
         /\ Pure(q) => Pure(t)
         /\ After1(q) => After1(t)
         /\ Before1(q) => Before1(t)
  BY ThinSummary, TailThinner

\* a is connected by a SYN1, and sends a SYN2 and data, ...
LEMMA Syn1Handshake ==
  ASSUME NEW sa \in States, NEW sb \in States, NEW qa \in Seq(Frame), NEW qb \in Seq(Frame),
         NEW s \in Seq(Frame),
         Both(sa, sb, qa, qb), qa # <<>>, Syn(Head(qa), SYN1), sa # "DISCONNECTED",
         ~ Has(s, SYN0), ~ Has(s, SYN1), ~ Has(s, DIS), Pure(s)
  PROVE  Both("CONNECTED", sb, Tail(qa), qb \o s)
  <1> DEFINE c == qb \o s
             ta == Tail(qa)
  <1>1. /\ Has(c, SYN0) <=> Has(qb, SYN0)
        /\ Has(c, SYN1) <=> Has(qb, SYN1)
        /\ Has(c, DIS) <=> Has(qb, DIS)
        /\ Pure(qb) => Pure(c)
    BY ConcatSummary
  <1>2. /\ Has(ta, SYN1) => Has(qa, SYN1)
        /\ Has(ta, SYN2) => Has(qa, SYN2)
        /\ Has(ta, DIS) => Has(qa, DIS)
        /\ NoData(qa) => NoData(ta)
        /\ Nak0(qa) => Nak0(ta)
        /\ Pure(qa) => Pure(ta)
        /\ After1(qa) => After1(ta)
    BY TailSummary
  <1>3. Has(qa, SYN1)
    BY HeadSummary
  <1>4. Pure(qa) => ~ Has(ta, SYN0)
    BY HeadSummary
  <1>7. After1(qa) => (~ Has(ta, SYN2) /\ ~ Has(ta, DIS))
    BY HeadSummary
  <1> HIDE DEF c, ta
  <1>8. IsOpen(sb) /\ ~ Has(ta, SYN0) /\ ~ Has(ta, DIS)
    BY <1>2, <1>3, <1>4, <1>7 DEF Both, Handshake, States, IsOpen
  <1>5. Handshake("CONNECTED", sb, ta, c)
    BY <1>1, <1>2, <1>3, <1>4 DEF Both, Handshake, Quiet, States, IsOpen
  <1>6. Handshake(sb, "CONNECTED", c, ta)
    BY <1>1, <1>2, <1>7, <1>8 DEF Both, Handshake, Quiet, States, IsOpen
  <1> QED BY <1>5, <1>6, Zenon DEF Both, c, ta

\* ... or by a SYN2.
LEMMA Syn2Handshake ==
  ASSUME NEW sa \in States, NEW sb \in States, NEW qa \in Seq(Frame), NEW qb \in Seq(Frame),
         NEW s \in Seq(Frame),
         Both(sa, sb, qa, qb), qa # <<>>, Syn(Head(qa), SYN2), IsOpen(sa),
         \A n : ~ Has(s, n), Pure(s)
  PROVE  Both("CONNECTED", sb, Tail(qa), qb \o s)
  <1> DEFINE c == qb \o s
             ta == Tail(qa)
  <1>1. /\ Has(c, SYN0) <=> Has(qb, SYN0)
        /\ Has(c, SYN1) <=> Has(qb, SYN1)
        /\ Has(c, SYN2) <=> Has(qb, SYN2)
        /\ Has(c, DIS) <=> Has(qb, DIS)
        /\ Pure(qb) => Pure(c)
    BY ConcatSummary
  <1>2. /\ Has(ta, SYN1) => Has(qa, SYN1)
        /\ Has(ta, SYN2) => Has(qa, SYN2)
        /\ Has(ta, DIS) => Has(qa, DIS)
        /\ NoData(qa) => NoData(ta)
        /\ Nak0(qa) => Nak0(ta)
        /\ Pure(qa) => Pure(ta)
        /\ After1(qa) => After1(ta)
    BY TailSummary
  <1>3. Has(qa, SYN2)
    BY HeadSummary
  <1>4. Pure(qa) => ~ Has(ta, SYN0)
    BY HeadSummary
  <1> HIDE DEF c, ta
  <1>7. sb = "CONNECTED" /\ ~ Has(qa, DIS) /\ ~ Has(ta, SYN0)
    BY <1>3, <1>4 DEF Both, Handshake, IsOpen
  <1>5. Handshake("CONNECTED", sb, ta, c)
    BY <1>1, <1>2, <1>3, <1>4 DEF Both, Handshake, Quiet, States, IsOpen
  <1>6. Handshake(sb, "CONNECTED", c, ta)
    BY <1>1, <1>2, <1>7 DEF Both, Handshake, Quiet, States, IsOpen
  <1> QED BY <1>5, <1>6, Zenon DEF Both, c, ta

\* a takes a DIS and gives up; it was not connected if a SYN0 of its own is still
\* on the line.
LEMMA DisHandshake ==
  ASSUME NEW sa \in States, NEW sb \in States, NEW qa \in Seq(Frame), NEW qb \in Seq(Frame),
         Both(sa, sb, qa, qb), qa # <<>>, Syn(Head(qa), DIS)
  PROVE  /\ Both("DISCONNECTED", sb, Tail(qa), qb)
         /\ Has(qb, SYN0) => sa # "CONNECTED"
  <1> DEFINE ta == Tail(qa)
  <1>2. /\ Has(ta, SYN1) => Has(qa, SYN1)
        /\ Has(ta, SYN2) => Has(qa, SYN2)
        /\ Has(ta, DIS) => Has(qa, DIS)
        /\ NoData(qa) => NoData(ta)
        /\ Nak0(qa) => Nak0(ta)
        /\ Pure(qa) => Pure(ta)
        /\ After1(qa) => After1(ta)
    BY TailSummary
  <1>3. Has(qa, DIS)
    BY HeadSummary
  <1>4. Pure(qa) => ~ Has(ta, SYN0)
    BY HeadSummary
  <1> HIDE DEF ta
  <1>5. Handshake("DISCONNECTED", sb, ta, qb)
    BY <1>2, <1>3, <1>4 DEF Both, Handshake, Quiet, States, IsOpen
  <1>6. Handshake(sb, "DISCONNECTED", qb, ta)
    BY <1>2, <1>3, <1>4 DEF Both, Handshake, Quiet, States, IsOpen
  <1>7. Has(qb, SYN0) => sa # "CONNECTED"
    BY <1>3 DEF Both, Handshake, States, IsOpen
  <1> QED BY <1>5, <1>6, <1>7, Zenon DEF Both, ta

-----------------------------------------------------------------------------
(* One direction of the transfer.                                          *)

\* The number a NAK, a SYN1 or a SYN2 asks its receiver to go back to, and how
\* far that is for a sender at tx.
Asks(f) == f.type = "NAK" \/ Syn(f, SYN1) \/ Syn(f, SYN2)
Ask(f) == IF f.type = "NAK" THEN f.seq ELSE 0
Back(tx, f) == (tx - Ask(f)) % SEQ_RANGE

\* The history h holds the last packets of the W of stream st.
Ends(h, st, W) ==
  /\ Len(h) <= W
  /\ \A i \in 1 .. Len(h) : h[i] = [stream |-> st, num |-> (W - Len(h)) + i]

\* The sequence numbers count the W packets written and the l.num delivered; what
\* is not delivered is in the history.
Numbers(W, tx, h, st, rx, l) ==
  /\ tx = W % SEQ_RANGE /\ rx = l.num % SEQ_RANGE
  /\ l = NoPacket \/ l.stream = st
  /\ l.num = 0 => l = NoPacket
  /\ l.num <= W /\ W <= l.num + Len(h)
  /\ Ends(h, st, W)

\* Packets on the line carry the number of their place, and are not so old that
\* their number would come round again.
DataOK(W, st, l, q) ==
  /\ \A f \in Frame : (In(q, f) /\ Data(f)) =>
       /\ f.packet.stream = st
       /\ 1 <= f.packet.num /\ f.packet.num <= W
       /\ f.seq = (f.packet.num - 1) % SEQ_RANGE
       /\ l.num <= (f.packet.num - 1) + HISTORY
  /\ \A f, g \in Frame : (Before(q, f, g) /\ Data(f) /\ Data(g))
                           => f.packet.num <= (g.packet.num - 1) + HISTORY
  /\ Has(q, SYN1) => l.num = 0
  /\ Before1(q)

\* Nobody asks for a packet that has left the history or was not written, and
\* asks ask for later packets the later they were sent.
AsksOK(W, tx, h, l, k) ==
  /\ \A f \in Frame : (In(k, f) /\ Asks(f)) => (W - l.num <= Back(tx, f) /\ Back(tx, f) <= Len(h))
  /\ \A f, g \in Frame : (Before(k, f, g) /\ Asks(f) /\ Asks(g)) => Back(tx, g) <= Back(tx, f)

\* Everything that is true of the packets from one endpoint to the other: W
\* written in stream st, history h and tx at the sender, rx and the packet l last
\* delivered at the receiver, line q from the sender and line k to it.
Transfer(W, tx, h, st, rx, l, q, k) ==
  Numbers(W, tx, h, st, rx, l) /\ DataOK(W, st, l, q) /\ AsksOK(W, tx, h, l, k)

\* The types of the fields of a frame.
LEMMA FrameFields ==
  ASSUME NEW f \in Frame
  PROVE  /\ f.seq \in Seq6 /\ f.packet \in Packet /\ f.packet.num \in Nat /\ f.packet.stream \in Nat
         /\ Ask(f) \in Seq6
  BY SfpAssumption DEF Frame, Packet, Ask, Seq6

\* The constants, as the proofs use them.
LEMMA Constants ==
  /\ SEQ_RANGE \in Nat \ {0} /\ HISTORY \in Nat /\ 1 <= HISTORY /\ HISTORY < SEQ_RANGE
  /\ Seq6 = 0 .. (SEQ_RANGE - 1)
  BY SfpAssumption DEF Seq6

\* The distance to go back is a sequence number.
LEMMA BackType ==
  ASSUME NEW tx \in Seq6, NEW f \in Frame
  PROVE  Back(tx, f) \in Seq6
  <1>1. tx \in Int /\ Ask(f) \in Int /\ SEQ_RANGE \in Nat \ {0}
    BY FrameFields, Constants
  <1>2. tx - Ask(f) \in Int
    BY <1>1
  <1>3. (tx - Ask(f)) % SEQ_RANGE \in 0 .. (SEQ_RANGE - 1)
    BY <1>1, <1>2
  <1> QED BY <1>3, Constants DEF Back

\* The distance between the sender's and the receiver's sequence number.
LEMMA Distance ==
  ASSUME NEW W \in Nat, NEW N \in Nat, N <= W, W <= N + HISTORY
  PROVE  ((W % SEQ_RANGE) - (N % SEQ_RANGE)) % SEQ_RANGE = W - N
  <1> DEFINE R == SEQ_RANGE
             w == W % R
  <1>1. R \in Nat \ {0} /\ W - N \in 0 .. (R - 1) /\ W \in Int /\ N \in Int /\ 0 - N \in Int
    BY Constants
  <1>2. w \in Int
    BY <1>1
  <1>3. (w - (N % R)) % R = (w - N) % R
    BY <1>1, <1>2, ModSub
  <1>4. ((W % R) + (0 - N)) % R = (W + (0 - N)) % R
    BY <1>1, ModAdd
  <1>5. (W - N) % R = W - N
    BY <1>1, ModSmall
  <1>6. w + (0 - N) = w - N /\ W + (0 - N) = W - N
    BY <1>1, <1>2
  <1> QED BY <1>3, <1>4, <1>5, <1>6

\* Damage to either line does not disturb a transfer.
LEMMA ThinTransfer ==
  ASSUME NEW W, NEW tx, NEW h, NEW st, NEW rx, NEW l, NEW q, NEW k, NEW tq, NEW tk,
         Transfer(W, tx, h, st, rx, l, q, k), Thinner(tq, q), Thinner(tk, k)
  PROVE  Transfer(W, tx, h, st, rx, l, tq, tk)
  <1>1. Has(tq, SYN1) => Has(q, SYN1)
    BY ThinSummary
  <1>2. Before1(q) => Before1(tq)
    BY ThinSummary
  <1>3. DataOK(W, st, l, tq)
    BY <1>1, <1>2 DEF Transfer, DataOK, Thinner, Data
  <1>4. AsksOK(W, tx, h, l, tk)
    BY DEF Transfer, AsksOK, Thinner, Asks, Syn
  <1> QED BY <1>3, <1>4 DEF Transfer

\* The receiver asks for what it expects.
LEMMA AskTransfer ==
  ASSUME NEW W \in Nat, NEW tx \in Seq6, NEW h \in Seq(Packet), NEW st, NEW rx,
         NEW l \in Packet, NEW q, NEW k \in Seq(Frame), NEW s \in Seq(Frame),
         Transfer(W, tx, h, st, rx, l, q, k),
         \A f \in Frame : (In(s, f) /\ Asks(f)) => Back(tx, f) = W - l.num
  PROVE  Transfer(W, tx, h, st, rx, l, q, k \o s)
  <1>1. /\ \A f \in Frame : In(k \o s, f) <=> (In(k, f) \/ In(s, f))
        /\ \A f, g \in Frame : Before(k \o s, f, g)
                                  => (Before(k, f, g) \/ Before(s, f, g) \/ (In(k, f) /\ In(s, g)))
    BY ConcatLine
  <1>2. l.num \in Nat /\ Len(h) \in Nat /\ W - l.num \in Int /\ W - l.num <= Len(h)
    BY DEF Packet, Transfer, Numbers, Ends
  <1>3. \A f \in Frame : (In(k \o s, f) /\ Asks(f))
                             => (W - l.num <= Back(tx, f) /\ Back(tx, f) <= Len(h))
    <2>1. SUFFICES ASSUME NEW f \in Frame, In(k \o s, f), Asks(f)
                   PROVE  W - l.num <= Back(tx, f) /\ Back(tx, f) <= Len(h)
      BY Zenon
    <2>2. CASE In(k, f)
      BY <2>1, <2>2 DEF Transfer, AsksOK
    <2>3. CASE In(s, f)
      BY <1>2, <2>1, <2>3
    <2> QED BY <1>1, <2>1, <2>2, <2>3
  <1>4. ASSUME NEW f \in Frame, NEW g \in Frame, Before(k \o s, f, g), Asks(f), Asks(g)
        PROVE  Back(tx, g) <= Back(tx, f)
    <2>1. CASE Before(k, f, g)
      BY <1>4, <2>1 DEF Transfer, AsksOK
    <2>2. CASE Before(s, f, g)
      <3>1. In(s, f) /\ In(s, g)
        BY <2>2, BeforeIn
      <3> QED BY <1>2, <1>4, <3>1
    <2>3. CASE In(k, f) /\ In(s, g)
      <3>1. W - l.num <= Back(tx, f)
        BY <1>4, <2>3 DEF Transfer, AsksOK
      <3> QED BY <1>4, <2>3, <3>1
    <2> QED BY <1>1, <1>4, <2>1, <2>2, <2>3
  <1>5. AsksOK(W, tx, h, l, k \o s)
    BY <1>3, <1>4, Zenon DEF AsksOK
  <1> QED BY <1>5, Zenon DEF Transfer

\* The sender sends what is not data, a SYN1 only before the first packet.
LEMMA SendTransfer ==
  ASSUME NEW W, NEW tx, NEW h, NEW st, NEW rx,
         NEW l, NEW q \in Seq(Frame), NEW k, NEW s \in Seq(Frame),
         Transfer(W, tx, h, st, rx, l, q, k),
         NoData(s), Before1(s), Has(s, SYN1) => (l.num = 0 /\ NoData(q))
  PROVE  Transfer(W, tx, h, st, rx, l, q \o s, k)
  <1>1. /\ \A f \in Frame : In(q \o s, f) <=> (In(q, f) \/ In(s, f))
        /\ \A f, g \in Frame : Before(q \o s, f, g)
                                  => (Before(q, f, g) \/ Before(s, f, g) \/ (In(q, f) /\ In(s, g)))
    BY ConcatLine
  <1>2. \A f \in Frame : In(s, f) => ~ Data(f)
    BY DEF NoData
  <1>3. \A f, g \in Frame : Before(s, f, g) => ~ Data(f)
    BY <1>2, BeforeIn
  <1>4. \A f \in Frame : (In(q \o s, f) /\ Data(f)) => In(q, f)
    BY <1>1, <1>2
  <1>5. \A f, g \in Frame : (Before(q \o s, f, g) /\ Data(f) /\ Data(g)) => Before(q, f, g)
    BY <1>1, <1>2, <1>3
  <1>6. Has(q \o s, SYN1) => l.num = 0
    BY ConcatSummary DEF Transfer, DataOK
  <1>7. Before1(q \o s)
    BY ConcatSummary DEF Transfer, DataOK
  <1>8. DataOK(W, st, l, q \o s)
    BY <1>4, <1>5, <1>6, <1>7 DEF Transfer, DataOK
  <1> QED BY <1>8, Zenon DEF Transfer

\* The sender sends packets again, its last Len(h) ones.
LEMMA ResendTransfer ==
  ASSUME NEW W \in Nat, NEW tx, NEW h \in Seq(Packet), NEW st, NEW rx,
         NEW l \in Packet, NEW q \in Seq(Frame), NEW k, NEW s \in Seq(Frame),
         Transfer(W, tx, h, st, rx, l, q, k), Len(h) <= HISTORY,
         \A f \in Frame : In(s, f) =>
            /\ Data(f) /\ f.packet.stream = st
            /\ W - Len(h) < f.packet.num /\ f.packet.num <= W
            /\ f.seq = (f.packet.num - 1) % SEQ_RANGE
  PROVE  Transfer(W, tx, h, st, rx, l, q \o s, k)
  <1>1. /\ \A f \in Frame : In(q \o s, f) <=> (In(q, f) \/ In(s, f))
        /\ \A f, g \in Frame : Before(q \o s, f, g)
                                  => (Before(q, f, g) \/ Before(s, f, g) \/ (In(q, f) /\ In(s, g)))
    BY ConcatLine
  <1>2. /\ l.num \in Nat /\ Len(h) \in Nat /\ HISTORY \in Nat
        /\ l.num <= W /\ W <= l.num + Len(h) /\ Len(h) <= W
    BY Constants DEF Packet, Transfer, Numbers, Ends
  <1>3. \A f \in Frame : f.packet.num \in Nat
    BY FrameFields
  <1>4. ASSUME NEW f \in Frame, In(q \o s, f), Data(f)
        PROVE  /\ f.packet.stream = st
               /\ 1 <= f.packet.num /\ f.packet.num <= W
               /\ f.seq = (f.packet.num - 1) % SEQ_RANGE
               /\ l.num <= (f.packet.num - 1) + HISTORY
    <2>1. CASE In(q, f)
      BY <1>4, <2>1 DEF Transfer, DataOK
    <2>2. CASE In(s, f)
      <3>1. /\ f.packet.stream = st /\ W - Len(h) < f.packet.num /\ f.packet.num <= W
            /\ f.seq = (f.packet.num - 1) % SEQ_RANGE
        BY <2>2
      <3>2. 1 <= f.packet.num /\ l.num <= (f.packet.num - 1) + HISTORY
        BY <1>2, <1>3, <3>1
      <3> QED BY <3>1, <3>2
    <2> QED BY <1>1, <1>4, <2>1, <2>2
  <1>5. ASSUME NEW f \in Frame, NEW g \in Frame, Before(q \o s, f, g), Data(f), Data(g)
        PROVE  f.packet.num <= (g.packet.num - 1) + HISTORY
    <2>1. CASE Before(q, f, g)
      BY <1>5, <2>1 DEF Transfer, DataOK
    <2>2. CASE In(s, g)
      <3>1. In(q \o s, f)
        BY <1>5, BeforeIn
      <3>2. f.packet.num <= W
        BY <1>4, <1>5, <3>1
      <3>3. W - Len(h) < g.packet.num
        BY <2>2
      <3> QED BY <1>2, <1>3, <3>2, <3>3
    <2>3. Before(s, f, g) => In(s, g)
      BY BeforeIn
    <2> QED BY <1>1, <1>5, <2>1, <2>2, <2>3
  <1>6. (\A m : ~ Has(s, m)) /\ Before1(s)
    BY DataSummary
  <1>7. Has(q \o s, SYN1) => l.num = 0
    BY <1>6, ConcatSummary DEF Transfer, DataOK
  <1>8. Before1(q \o s)
    BY <1>6, ConcatSummary DEF Transfer, DataOK
  <1>9. DataOK(W, st, l, q \o s)
    BY <1>4, <1>5, <1>7, <1>8, Zenon DEF DataOK
  <1> QED BY <1>9, Zenon DEF Transfer

\* The receiver takes the expected packet: it is the successor of the last.
LEMMA ExpectedPacket ==
  ASSUME NEW W \in Nat, NEW tx, NEW h \in Seq(Packet), NEW st, NEW rx,
         NEW l \in Packet, NEW q \in Seq(Frame), NEW k,
         Transfer(W, tx, h, st, rx, l, q, k), Len(h) <= HISTORY,
         NEW f \in Frame, In(q, f), Data(f), f.seq = rx
  PROVE  f.packet.num = l.num + 1 /\ f.packet.stream = st
  <1>1. l.num \in Nat /\ Len(h) \in Nat /\ f.packet.num \in Nat /\ W <= l.num + Len(h)
    BY FrameFields DEF Packet, Transfer, Numbers, Ends
  <1>2. /\ f.packet.stream = st /\ 1 <= f.packet.num /\ f.packet.num <= W
        /\ l.num <= (f.packet.num - 1) + HISTORY
    BY DEF Transfer, DataOK
  <1>3. f.packet.num - 1 \in Int /\ l.num \in Int /\ (f.packet.num - 1) % SEQ_RANGE = l.num % SEQ_RANGE
    BY <1>1 DEF Transfer, DataOK, Numbers
  <1>4. /\ -SEQ_RANGE < (f.packet.num - 1) - l.num
        /\ (f.packet.num - 1) - l.num < SEQ_RANGE
    <2> DEFINE m == f.packet.num
               n == l.num
               e == Len(h)
    <2>1. SEQ_RANGE \in Nat /\ HISTORY \in Nat /\ HISTORY < SEQ_RANGE
      BY Constants
    <2>2. /\ m \in Nat /\ n \in Nat /\ e \in Nat /\ W \in Nat
          /\ W <= n + e /\ e <= HISTORY /\ m <= W /\ n <= (m - 1) + HISTORY
      BY <1>1, <1>2, Zenon
    <2> HIDE DEF m, n, e
    <2>3. -SEQ_RANGE < (m - 1) - n
      BY <2>1, <2>2
    <2>4. (m - 1) - n < SEQ_RANGE
      BY <2>1, <2>2
    <2> QED BY <2>3, <2>4 DEF m, n
  <1>5. f.packet.num - 1 = l.num
    BY <1>3, <1>4, Constants, ModClose
  <1> QED BY <1>1, <1>2, <1>5

\* The receiver takes the packet it expects.
LEMMA DeliverTransfer ==
  ASSUME NEW W \in Nat, NEW tx \in Seq6, NEW h \in Seq(Packet), NEW st, NEW rx,
         NEW l \in Packet, NEW q \in Seq(Frame), NEW k,
         Transfer(W, tx, h, st, rx, l, q, k), Len(h) <= HISTORY,
         q # <<>>, Data(Head(q)), Head(q).seq = rx
  PROVE  Transfer(W, tx, h, st, Plus(rx, 1), Head(q).packet, Tail(q), k)
  <1> DEFINE f == Head(q)
             m == Head(q).packet
  <1>1. /\ f \in Frame /\ In(q, f) /\ Tail(q) \in Seq(Frame)
        /\ \A g \in Frame : In(Tail(q), g) => (In(q, g) /\ Before(q, f, g))
        /\ \A g, i \in Frame : Before(Tail(q), g, i) => Before(q, g, i)
    BY TailLine
  <1>2. m.num = l.num + 1 /\ m.stream = st /\ m.num <= W
    BY <1>1, ExpectedPacket DEF Transfer, DataOK
  <1>3. /\ l.num \in Nat /\ Len(h) \in Nat /\ m.num \in Nat /\ m \in Packet
        /\ l.num <= W /\ W <= l.num + Len(h) /\ rx = l.num % SEQ_RANGE
    BY <1>1, FrameFields DEF Packet, Transfer, Numbers, Ends
  <1>4. Plus(rx, 1) = m.num % SEQ_RANGE
    <2>1. ((l.num % SEQ_RANGE) + 1) % SEQ_RANGE = (l.num + 1) % SEQ_RANGE
      <3>1. l.num \in Int /\ 1 \in Int /\ SEQ_RANGE \in Nat \ {0}
        BY <1>3, Constants
      <3> QED BY <3>1, ModAdd
    <2> QED BY <1>2, <1>3, <2>1 DEF Plus
  <1>5. m.num # 0 /\ W <= m.num + Len(h)
    BY <1>2, <1>3
  <1> HIDE DEF m
  <1>6. Numbers(W, tx, h, st, Plus(rx, 1), m)
    BY <1>2, <1>4, <1>5, Zenon DEF Transfer, Numbers
  <1>7. ASSUME NEW g \in Frame, In(Tail(q), g), Data(g)
        PROVE  /\ g.packet.stream = st
               /\ 1 <= g.packet.num /\ g.packet.num <= W
               /\ g.seq = (g.packet.num - 1) % SEQ_RANGE
               /\ m.num <= (g.packet.num - 1) + HISTORY
    BY <1>1, <1>7 DEF Transfer, DataOK, m
  <1>8. \A g, i \in Frame : (Before(Tail(q), g, i) /\ Data(g) /\ Data(i))
                              => g.packet.num <= (i.packet.num - 1) + HISTORY
    BY <1>1 DEF Transfer, DataOK
  <1>9. ~ Has(Tail(q), SYN1) /\ Before1(Tail(q))
    BY HeadSummary, TailSummary DEF Transfer, DataOK
  <1>10. DataOK(W, st, m, Tail(q))
    BY <1>7, <1>8, <1>9, Zenon DEF DataOK
  <1>11. \A g \in Frame : Back(tx, g) \in Int
    BY BackType, Constants
  <1>12. AsksOK(W, tx, h, m, k)
    <2>1. ASSUME NEW g \in Frame, In(k, g), Asks(g)
          PROVE  W - m.num <= Back(tx, g) /\ Back(tx, g) <= Len(h)
      <3>1. W - l.num <= Back(tx, g) /\ Back(tx, g) <= Len(h)
        BY <2>1 DEF Transfer, AsksOK
      <3> QED BY <1>2, <1>3, <1>11, <3>1
    <2> QED BY <2>1, Zenon DEF Transfer, AsksOK
  <1> QED BY <1>6, <1>10, <1>12, Zenon DEF Transfer, m

\* potRingbufferPushBack keeps the newest packets.
LEMMA PushBackResult ==
  ASSUME NEW h \in Seq(Packet), Len(h) <= HISTORY, NEW p \in Packet
  PROVE  LET g == PushBack(h, p) IN
         /\ g \in Seq(Packet) /\ Len(g) <= HISTORY
         /\ Len(g) = Len(h) + 1 \/ (Len(g) = Len(h) /\ Len(h) = HISTORY)
         /\ g[Len(g)] = p
         /\ \A i \in 1 .. (Len(g) - 1) : g[i] = h[i + ((Len(h) + 1) - Len(g))]
  <1>0. Len(h) \in Nat /\ HISTORY \in Nat /\ 1 <= HISTORY
    BY Constants
  <1>1. CASE Len(h) = HISTORY
    <2>1. h # <<>>
      BY <1>0, <1>1
    <2>2. /\ Tail(h) \in Seq(Packet) /\ Len(Tail(h)) = Len(h) - 1
          /\ \A i \in 1 .. (Len(h) - 1) : Tail(h)[i] = h[i + 1]
      BY <2>1
    <2>3. PushBack(h, p) = Append(Tail(h), p)
      BY <1>1 DEF PushBack
    <2> DEFINE t == Tail(h)
    <2> HIDE DEF t
    <2>4. /\ Append(t, p) \in Seq(Packet) /\ Len(Append(t, p)) = Len(h)
          /\ Append(t, p)[Len(h)] = p
          /\ \A i \in 1 .. (Len(h) - 1) : Append(t, p)[i] = t[i]
      BY <1>0, <2>2 DEF t
    <2> QED BY <1>0, <1>1, <2>2, <2>3, <2>4 DEF t
  <1>2. CASE Len(h) # HISTORY
    <2>1. PushBack(h, p) = Append(h, p)
      BY <1>2 DEF PushBack
    <2>2. /\ Append(h, p) \in Seq(Packet) /\ Len(Append(h, p)) = Len(h) + 1
          /\ Append(h, p)[Len(h) + 1] = p
          /\ \A i \in 1 .. Len(h) : Append(h, p)[i] = h[i]
      OBVIOUS
    <2> QED BY <1>0, <1>2, <2>1, <2>2
  <1> QED BY <1>1, <1>2

\* The distance to an ask grows by one when a packet is written.
LEMMA NextBack ==
  ASSUME NEW tx \in Seq6, NEW f \in Frame, Back(tx, f) < HISTORY
  PROVE  Back(Plus(tx, 1), f) = Back(tx, f) + 1
  <1> DEFINE R == SEQ_RANGE
             a == Ask(f)
  <1>1. R \in Nat \ {0} /\ tx \in Int /\ a \in Int /\ 1 \in Int /\ 0 - a \in Int /\ tx + 1 \in Int /\ tx - a \in Int
    BY FrameFields, Constants
  <1>2. (((tx + 1) % R) + (0 - a)) % R = ((tx + 1) + (0 - a)) % R
    BY <1>1, ModAdd
  <1>3. (((tx - a) % R) + 1) % R = ((tx - a) + 1) % R
    BY <1>1, ModAdd
  <1>4. (tx + 1) % R \in Int
    BY <1>1
  <1> DEFINE d == (tx - a) % R
             u == (tx + 1) % R
  <1>5. d \in Seq6 /\ d < HISTORY
    BY BackType DEF Back
  <1>6. d + 1 \in 0 .. (R - 1)
    <2> HIDE DEF d, a
    <2> QED BY <1>5, Constants
  <1>7. (d + 1) % R = d + 1
    <2> HIDE DEF d, a
    <2> QED BY <1>1, <1>6, ModSmall
  <1>8. (tx + 1) + (0 - a) = (tx - a) + 1 /\ u + (0 - a) = u - a
    <2> HIDE DEF u, a
    <2> QED BY <1>1, <1>4 DEF u
  <1>9. (u - a) % R = d + 1
    <2>1. (u + (0 - a)) % R = ((tx + 1) + (0 - a)) % R
      BY <1>2
    <2>2. (d + 1) % R = ((tx - a) + 1) % R
      BY <1>3
    <2> HIDE DEF u, d, a
    <2> QED BY <1>7, <1>8, <2>1, <2>2
  <1> QED BY <1>9, Zenon DEF Back, Plus

\* The sender writes a packet; every ask on its way, and the receiver, are less
\* than a history behind.
LEMMA WriteTransfer ==
  ASSUME NEW W \in Nat, NEW tx \in Seq6, NEW h \in Seq(Packet), NEW st \in Nat, NEW rx,
         NEW l \in Packet, NEW q \in Seq(Frame), NEW k,
         Transfer(W, tx, h, st, rx, l, q, k), Len(h) <= HISTORY,
         (tx - rx) % SEQ_RANGE < HISTORY,
         \A f \in Frame : (In(k, f) /\ Asks(f)) => Back(tx, f) < HISTORY,
         NEW p, p = [stream |-> st, num |-> W + 1],
         NEW d, d = [type |-> "USR", seq |-> tx, packet |-> p]
  PROVE  Transfer(W + 1, Plus(tx, 1), PushBack(h, p), st, rx, l, q \o <<d>>, k)
  <1> DEFINE g == PushBack(h, p)
  <1>0. p \in Packet /\ d \in Frame
    BY DEF Packet, Frame
  <1>1. /\ g \in Seq(Packet) /\ Len(g) <= HISTORY
        /\ Len(g) = Len(h) + 1 \/ (Len(g) = Len(h) /\ Len(h) = HISTORY)
        /\ g[Len(g)] = p
        /\ \A i \in 1 .. (Len(g) - 1) : g[i] = h[i + ((Len(h) + 1) - Len(g))]
    BY <1>0, PushBackResult
  <1> HIDE DEF g
  <1>2. /\ Len(g) \in Nat /\ Len(h) \in Nat /\ l.num \in Nat /\ HISTORY \in Nat /\ 1 <= HISTORY
        /\ HISTORY < SEQ_RANGE
    <2>1. HISTORY \in Nat /\ 1 <= HISTORY /\ HISTORY < SEQ_RANGE
      BY Constants, Zenon
    <2>2. Len(g) \in Nat /\ Len(h) \in Nat
      BY <1>1
    <2>3. l.num \in Nat
      BY DEF Packet
    <2> QED BY <2>1, <2>2, <2>3, Zenon
  <1>3. /\ l.num <= W /\ W <= l.num + Len(h) /\ Len(h) <= W
        /\ \A i \in 1 .. Len(h) : h[i] = [stream |-> st, num |-> (W - Len(h)) + i]
    BY DEF Transfer, Numbers, Ends
  <1>4. W - l.num < HISTORY
    <2>1. (tx - rx) % SEQ_RANGE = W - l.num
      <3>1. ((W % SEQ_RANGE) - (l.num % SEQ_RANGE)) % SEQ_RANGE = W - l.num
        BY <1>2, <1>3, Distance
      <3> QED BY <3>1 DEF Transfer, Numbers
    <2> QED BY <2>1
  <1>5. Numbers(W + 1, Plus(tx, 1), g, st, rx, l)
    <2>1. Plus(tx, 1) = (W + 1) % SEQ_RANGE
      <3>1. W \in Int /\ 1 \in Int /\ SEQ_RANGE \in Nat \ {0}
        BY Constants
      <3>2. ((W % SEQ_RANGE) + 1) % SEQ_RANGE = (W + 1) % SEQ_RANGE
        BY <3>1, ModAdd
      <3> QED BY <3>2 DEF Plus, Transfer, Numbers
    <2>2. l.num <= W + 1 /\ W + 1 <= l.num + Len(g) /\ Len(g) <= W + 1
      <3> DEFINE n == l.num
                 e == Len(h)
                 j == Len(g)
      <3>1. /\ n \in Nat /\ e \in Nat /\ j \in Nat /\ HISTORY \in Nat
            /\ n <= W /\ W <= n + e /\ e <= W /\ W - n < HISTORY
        BY <1>2, <1>3, <1>4, Zenon
      <3>2. j = e + 1 \/ (j = e /\ e = HISTORY)
        BY <1>1, Zenon
      <3> HIDE DEF n, e, j
      <3>3. n <= W + 1 /\ W + 1 <= n + j /\ j <= W + 1
        BY <3>1, <3>2
      <3> QED BY <3>3, Zenon DEF n, j
    <2>3. ASSUME NEW i \in 1 .. Len(g)
          PROVE  g[i] = [stream |-> st, num |-> ((W + 1) - Len(g)) + i]
      <3>1. CASE i = Len(g)
        <4>1. ((W + 1) - Len(g)) + i = W + 1
          BY <1>2, <3>1
        <4> QED BY <1>1, <3>1, <4>1
      <3>2. CASE i # Len(g)
        <4> DEFINE j == i + ((Len(h) + 1) - Len(g))
        <4>1. i \in 1 .. (Len(g) - 1) /\ j \in 1 .. Len(h) /\ (W - Len(h)) + j = ((W + 1) - Len(g)) + i
          BY <1>1, <1>2, <3>2
        <4>2. g[i] = h[j]
          BY <1>1, <4>1
        <4> QED BY <1>3, <4>1, <4>2
      <3> QED BY <3>1, <3>2
    <2>4. /\ rx = l.num % SEQ_RANGE
          /\ l = NoPacket \/ l.stream = st
          /\ l.num = 0 => l = NoPacket
      BY DEF Transfer, Numbers
    <2> QED BY <2>1, <2>2, <2>3, <2>4, Zenon DEF Numbers, Ends
  <1>6. DataOK(W + 1, st, l, q \o <<d>>)
    <2>1. /\ \A f \in Frame : In(q \o <<d>>, f) <=> (In(q, f) \/ f = d)
          /\ \A f, e \in Frame : Before(q \o <<d>>, f, e) => (Before(q, f, e) \/ (In(q, f) /\ e = d))
      <3>1. /\ <<d>> \in Seq(Frame)
            /\ \A e \in Frame : In(<<d>>, e) <=> e = d
            /\ \A e, f \in Frame : ~ Before(<<d>>, e, f)
        BY <1>0, OneFrame
      <3> QED BY <3>1, ConcatLine
    <2>2. d.packet.stream = st /\ d.packet.num = W + 1 /\ d.seq = W % SEQ_RANGE
      BY DEF Transfer, Numbers
    <2>3. ASSUME NEW f \in Frame, In(q, f), Data(f)
          PROVE  /\ f.packet.stream = st
                 /\ 1 <= f.packet.num /\ f.packet.num <= W
                 /\ f.seq = (f.packet.num - 1) % SEQ_RANGE
                 /\ l.num <= (f.packet.num - 1) + HISTORY
      BY <2>3 DEF Transfer, DataOK
    <2>4. ASSUME NEW f \in Frame, In(q \o <<d>>, f), Data(f)
          PROVE  /\ f.packet.stream = st
                 /\ 1 <= f.packet.num /\ f.packet.num <= W + 1
                 /\ f.seq = (f.packet.num - 1) % SEQ_RANGE
                 /\ l.num <= (f.packet.num - 1) + HISTORY
      <3>1. CASE In(q, f)
        <4>1. f.packet.num \in Nat /\ f.packet.num <= W
          BY <2>3, <2>4, <3>1, FrameFields
        <4>2. f.packet.num <= W + 1
          BY <4>1
        <4> QED BY <2>3, <2>4, <3>1, <4>2
      <3>2. CASE f = d
        <4>1. (W + 1) - 1 = W /\ 1 <= W + 1 /\ W + 1 <= W + 1 /\ l.num <= W + HISTORY
          BY <1>2, <1>3
        <4> QED BY <2>2, <3>2, <4>1
      <3> QED BY <2>1, <2>4, <3>1, <3>2
    <2>5. ASSUME NEW f \in Frame, NEW e \in Frame, Before(q \o <<d>>, f, e), Data(f), Data(e)
          PROVE  f.packet.num <= (e.packet.num - 1) + HISTORY
      <3>1. CASE Before(q, f, e)
        BY <2>5, <3>1 DEF Transfer, DataOK
      <3>2. CASE In(q, f) /\ e = d
        <4>1. f.packet.num \in Nat /\ f.packet.num <= W
          BY <2>3, <2>5, <3>2, FrameFields
        <4>2. f.packet.num <= ((W + 1) - 1) + HISTORY
          BY <1>2, <4>1
        <4> QED BY <2>2, <3>2, <4>2
      <3> QED BY <2>1, <2>5, <3>1, <3>2
    <2>6. Data(d)
      BY DEF Data
    <2>7. <<d>> \in Seq(Frame) /\ \A f \in Frame : In(<<d>>, f) => Data(f)
      BY <1>0, <2>6, OneFrame
    <2>8. (\A m : ~ Has(<<d>>, m)) /\ Before1(<<d>>)
      BY <2>7, DataSummary
    <2>9. Has(q \o <<d>>, SYN1) => l.num = 0
      BY <2>7, <2>8, ConcatSummary DEF Transfer, DataOK
    <2>10. Before1(q \o <<d>>)
      BY <2>7, <2>8, ConcatSummary DEF Transfer, DataOK
    <2> QED BY <2>4, <2>5, <2>9, <2>10, Zenon DEF DataOK
  <1>7. AsksOK(W + 1, Plus(tx, 1), g, l, k)
    <2>1. ASSUME NEW f \in Frame, In(k, f), Asks(f)
          PROVE  /\ Back(Plus(tx, 1), f) = Back(tx, f) + 1 /\ Back(tx, f) \in Int
                 /\ W - l.num <= Back(tx, f) /\ Back(tx, f) <= Len(h) /\ Back(tx, f) < HISTORY
      <3>1. Back(tx, f) < HISTORY
        BY <2>1
      <3>2. Back(Plus(tx, 1), f) = Back(tx, f) + 1 /\ Back(tx, f) \in Int
        BY <3>1, NextBack, BackType, Constants
      <3> QED BY <2>1, <3>1, <3>2 DEF Transfer, AsksOK
    <2>2. ASSUME NEW f \in Frame, In(k, f), Asks(f)
          PROVE  (W + 1) - l.num <= Back(Plus(tx, 1), f) /\ Back(Plus(tx, 1), f) <= Len(g)
      <3> DEFINE n == l.num
                 e == Len(h)
                 j == Len(g)
                 x == Back(tx, f)
      <3>1. /\ Back(Plus(tx, 1), f) = x + 1 /\ x \in Int
            /\ W - n <= x /\ x <= e /\ x < HISTORY
        BY <2>1, <2>2, Zenon
      <3>2. /\ n \in Nat /\ e \in Nat /\ j \in Nat /\ HISTORY \in Nat
            /\ (j = e + 1 \/ (j = e /\ e = HISTORY))
        BY <1>1, <1>2, Zenon
      <3> HIDE DEF n, e, j, x
      <3>3. (W + 1) - n <= x + 1 /\ x + 1 <= j
        BY <3>1, <3>2
      <3> QED BY <3>1, <3>3, Zenon DEF n, j
    <2>3. ASSUME NEW f \in Frame, NEW e \in Frame, Before(k, f, e), Asks(f), Asks(e)
          PROVE  Back(Plus(tx, 1), e) <= Back(Plus(tx, 1), f)
      <3>1. In(k, f) /\ In(k, e)
        BY <2>3, BeforeIn
      <3>2. Back(tx, e) <= Back(tx, f)
        BY <2>3 DEF Transfer, AsksOK
      <3> QED BY <2>1, <2>3, <3>1, <3>2
    <2> QED BY <2>2, <2>3, Zenon DEF AsksOK
  <1> QED BY <1>5, <1>6, <1>7, Zenon DEF Transfer, g

\* Counting up from the number asked for is counting back from the packets
\* written.
LEMMA BackArithmetic ==
  ASSUME NEW R \in Nat \ {0}, NEW W \in Int, NEW to \in Int, NEW v \in Int
  PROVE  (to + v) % R = (W + (v - (((W % R) - to) % R))) % R
  <1> DEFINE tx == W % R
             d == (tx - to) % R
  <1>1. tx \in Int
    OBVIOUS
  <1>2. tx - to \in Int /\ tx + v \in Int /\ d \in Int
    BY <1>1
  <1>3. v - d \in Int
    BY <1>2
  <1>4. ((W % R) + (v - d)) % R = (W + (v - d)) % R
    BY <1>3, ModAdd
  <1>5. ((tx + v) - ((tx - to) % R)) % R = ((tx + v) - (tx - to)) % R
    BY <1>2, ModSub
  <1> HIDE DEF tx, d
  <1>6. (tx + v) - (tx - to) = to + v /\ (tx + v) - d = tx + (v - d)
    BY <1>1, <1>2
  <1> QED BY <1>4, <1>5, <1>6, Zenon DEF tx, d

\* The history of a sender of W packets at tx that has gone back to number to.
WentBack(g, W, tx, st, to) ==
  /\ g \in Seq(Packet) /\ Len(g) = (tx - to) % SEQ_RANGE
  /\ Ends(g, st, W)
  /\ Plus(to, Len(g)) = tx
  /\ \A i \in 1 .. Len(g) : Plus(to, i - 1) = (((W - Len(g)) + i) - 1) % SEQ_RANGE

\* Going back d packets, no more than the history holds: the history keeps the
\* last d packets, the sequence number ends where it was, and the frames carry
\* the numbers their packets had.
LEMMA GoBack ==
  ASSUME NEW W \in Nat, NEW tx \in Seq6, NEW h \in Seq(Packet), NEW st, NEW to \in Seq6,
         NEW rx, NEW l, Numbers(W, tx, h, st, rx, l), Len(h) <= HISTORY,
         1 <= (tx - to) % SEQ_RANGE, (tx - to) % SEQ_RANGE <= Len(h)
  PROVE  WentBack(Rewound(h, tx, to), W, tx, st, to)
  <1> DEFINE R == SEQ_RANGE
             d == (tx - to) % R
             g == Rewound(h, tx, to)
  <1>0. /\ d = (tx - to) % R /\ 1 <= d /\ d <= Len(h)
        /\ Len(h) <= W
        /\ \A i \in 1 .. Len(h) : h[i] = [stream |-> st, num |-> (W - Len(h)) + i]
    BY DEF Numbers, Ends
  <1>10. tx = W % R
    BY DEF Numbers
  <1>1. /\ R \in Nat \ {0} /\ tx \in Int /\ to \in Int /\ Len(h) \in Nat
        /\ 0 <= tx /\ tx < R /\ HISTORY \in Nat /\ HISTORY < R
    BY Constants
  <1>2. d \in Int /\ d \in 0 .. (R - 1)
    <2>1. tx - to \in Int
      BY <1>1
    <2> QED BY <1>1, <2>1
  <1>3. (to - (tx - Len(h))) % R = Len(h) - d
    <2>1. Len(h) \in Int /\ tx - to \in Int
      BY <1>1
    <2>2. (Len(h) - ((tx - to) % R)) % R = (Len(h) - (tx - to)) % R
      BY <1>1, <2>1, ModSub
    <2>3. Len(h) - (tx - to) = to - (tx - Len(h))
      BY <1>1
    <2>4. Len(h) - d \in 0 .. (R - 1)
      BY <1>1, <1>2
    <2>5. (Len(h) - d) % R = Len(h) - d
      BY <1>1, <2>4, ModSmall
    <2> QED BY <2>2, <2>3, <2>5
  <1>4. (to + d) % R = tx
    <2>0. W \in Int
      OBVIOUS
    <2>1. (to + d) % R = (W + (d - d)) % R
      <3>1. (to + d) % R = (W + (d - (((W % R) - to) % R))) % R
        <4>1. \A v \in Int : (to + v) % R = (W + (v - (((W % R) - to) % R))) % R
          BY <1>1, <2>0, BackArithmetic
        <4> QED BY <1>2, <4>1, Zenon
      <3> QED BY <1>10, <3>1, Zenon
    <2>2. d - d = 0 /\ W + 0 = W
      BY <1>2
    <2> QED BY <1>10, <2>1, <2>2
  <1>5. g = SubSeq(h, (Len(h) - d) + 1, Len(h))
    <2>1. Len(h) > Len(h) - d
      BY <1>1, <1>2
    <2> QED BY <1>3, <2>1 DEF Rewound
  <1>6. /\ g \in Seq(Packet) /\ Len(g) = d
        /\ \A i \in 1 .. d : g[i] = h[(Len(h) - d) + i]
    <2> DEFINE m == Len(h) - d
    <2>1. m \in Nat /\ m + d = Len(h) /\ m + 1 \in 1 .. (Len(h) + 1)
      BY <1>1, <1>2
    <2> HIDE DEF m
    <2>2. /\ SubSeq(h, m + 1, Len(h)) \in Seq(Packet)
          /\ Len(SubSeq(h, m + 1, Len(h))) = Len(h) - m
          /\ \A i \in 1 .. (Len(h) - m) : SubSeq(h, m + 1, Len(h))[i] = h[m + i]
      BY <1>1, <2>1
    <2>3. Len(h) - m = d
      BY <1>1, <1>2, <2>1
    <2> QED BY <1>5, <2>2, <2>3 DEF m
  <1> HIDE DEF g
  <1>7. ASSUME NEW i \in 1 .. d
        PROVE  g[i] = [stream |-> st, num |-> (W - d) + i]
    <2>1. (Len(h) - d) + i \in 1 .. Len(h) /\ (W - Len(h)) + ((Len(h) - d) + i) = (W - d) + i
      BY <1>1, <1>2
    <2> HIDE DEF d
    <2> QED BY <1>0, <1>6, <2>1
  <1>8. ASSUME NEW i \in 1 .. d
        PROVE  (to + (i - 1)) % R = (((W - d) + i) - 1) % R
    <2>1. i - 1 \in Int /\ W \in Int
      BY <1>2
    <2>2. (to + (i - 1)) % R = (W + ((i - 1) - d)) % R
      <3>1. (to + (i - 1)) % R = (W + ((i - 1) - (((W % R) - to) % R))) % R
        BY <1>1, <2>1, BackArithmetic
      <3> QED BY <1>10, <3>1, Zenon
    <2>3. W + ((i - 1) - d) = ((W - d) + i) - 1
      BY <1>2, <2>1
    <2> QED BY <2>2, <2>3
  <1>9. Ends(g, st, W)
    <2> HIDE DEF d
    <2>1. Len(g) <= W
      BY <1>0, <1>1, <1>2, <1>6
    <2> QED BY <1>6, <1>7, <2>1 DEF Ends
  <1> QED
    <2> HIDE DEF d
    <2> QED BY <1>0, <1>4, <1>6, <1>8, <1>9 DEF Plus, g, WentBack

\* The frames a sender sends when it goes back.
LEMMA ResentFrames ==
  ASSUME NEW h \in Seq(Packet), NEW to \in Seq6
  PROVE  /\ Resent(h, to) \in Seq(Frame)
         /\ \A f \in Frame : In(Resent(h, to), f) =>
              \E i \in 1 .. Len(h) : /\ f.type = "RTX" /\ f.packet = h[i]
                                     /\ f.seq = Plus(to, i - 1)
  <1>1. ASSUME NEW i \in 1 .. Len(h)
        PROVE  [type |-> "RTX", seq |-> Plus(to, i - 1), packet |-> h[i]] \in Frame
    <2>1. h[i] \in Packet
      OBVIOUS
    <2>2. Plus(to, i - 1) \in Seq6
      <3>1. to + (i - 1) \in Int /\ SEQ_RANGE \in Nat \ {0} /\ Seq6 = 0 .. (SEQ_RANGE - 1)
        BY Constants
      <3>2. (to + (i - 1)) % SEQ_RANGE \in 0 .. (SEQ_RANGE - 1)
        BY <3>1
      <3> QED BY <3>1, <3>2 DEF Plus
    <2> QED BY <2>1, <2>2 DEF Frame
  <1> DEFINE F(i) == [type |-> "RTX", seq |-> Plus(to, i - 1), packet |-> h[i]]
             s == Resent(h, to)
  <1>2. s = [i \in 1 .. Len(h) |-> F(i)]
    BY DEF Resent
  <1>3. \A i \in 1 .. Len(h) : F(i) \in Frame
    BY <1>1
  <1>4. ASSUME NEW i \in 1 .. Len(h)
        PROVE  F(i).type = "RTX" /\ F(i).packet = h[i] /\ F(i).seq = Plus(to, i - 1)
    OBVIOUS
  <1> HIDE DEF F, s
  <1>5. Len(h) \in Nat
    OBVIOUS
  <1>6. s \in Seq(Frame) /\ Len(s) = Len(h) /\ \A i \in 1 .. Len(h) : s[i] = F(i)
    BY <1>2, <1>3, <1>5
  <1>7. ASSUME NEW f \in Frame, In(s, f)
        PROVE  \E i \in 1 .. Len(h) : /\ f.type = "RTX" /\ f.packet = h[i]
                                      /\ f.seq = Plus(to, i - 1)
    <2>1. PICK i \in 1 .. Len(h) : s[i] = f
      BY <1>6, <1>7 DEF In
    <2>2. f = F(i)
      BY <1>6, <2>1
    <2> QED BY <1>4, <2>2, Zenon
  <1> QED BY <1>6, <1>7, Zenon DEF s

\* A transfer of which nothing has happened.
LEMMA FreshTransfer ==
  ASSUME NEW st, NEW q, NEW k, NoData(q), Nak0(k)
  PROVE  Transfer(0, 0, <<>>, st, 0, NoPacket, q, k)
  <1>1. 0 % SEQ_RANGE = 0
    BY Constants
  <1>2. NoPacket.num = 0 /\ Len(<<>>) = 0
    BY DEF NoPacket
  <1>3. Numbers(0, 0, <<>>, st, 0, NoPacket)
    BY <1>1, <1>2 DEF Numbers, Ends
  <1>4. DataOK(0, st, NoPacket, q)
    BY <1>2, BeforeIn DEF DataOK, NoData, Before1
  <1>5. \A f \in Frame : (In(k, f) /\ Asks(f)) => Back(0, f) = 0
    BY <1>1 DEF Nak0, Asks, Ask, Back, Syn
  <1>6. AsksOK(0, 0, <<>>, NoPacket, k)
    BY <1>2, <1>5, BeforeIn DEF AsksOK
  <1> QED BY <1>3, <1>4, <1>6 DEF Transfer

\* Before the first packet the stream may start over.
LEMMA RestartTransfer ==
  ASSUME NEW tx \in Seq6, NEW h \in Seq(Packet), NEW st, NEW su, NEW rx, NEW l \in Packet, NEW q, NEW k,
         Transfer(0, tx, h, st, rx, l, q, k)
  PROVE  /\ Transfer(0, tx, h, su, rx, l, q, k)
         /\ NoData(q) /\ l = NoPacket
  <1>1. l.num \in Nat /\ l.num <= 0 /\ Len(h) \in Nat /\ Len(h) <= 0
    BY DEF Packet, Transfer, Numbers, Ends
  <1>2. l = NoPacket /\ Len(h) = 0
    BY <1>1 DEF Transfer, Numbers
  <1>3. NoData(q)
    <2>1. ASSUME NEW f \in Frame, In(q, f), Data(f)
          PROVE  FALSE
      <3>1. f.packet.num \in Nat /\ 1 <= f.packet.num /\ f.packet.num <= 0
        BY <2>1, FrameFields DEF Transfer, DataOK
      <3> QED BY <3>1
    <2> QED BY <2>1 DEF NoData
  <1>4. DataOK(0, su, l, q)
    BY <1>3 DEF Transfer, DataOK, NoData
  <1>5. Numbers(0, tx, h, su, rx, l)
    BY <1>2 DEF Transfer, Numbers, Ends
  <1> QED BY <1>2, <1>3, <1>4, <1>5 DEF Transfer

\* The transfer after the sender has taken an ask and sent first and the packets
\* from there.
Resumed(W, tx, h, st, rx, l, q, k, first) ==
  LET to == Ask(Head(k))
      g == Rewound(h, tx, to)
  IN  /\ Plus(to, Len(g)) = tx
      /\ Transfer(W, tx, g, st, rx, l, q \o (first \o Resent(g, to)), Tail(k))

\* The sender takes an ask that is not for what it would send next.
LEMMA ResyncTransfer ==
  ASSUME NEW W \in Nat, NEW tx \in Seq6, NEW h \in Seq(Packet), NEW st, NEW rx,
         NEW l \in Packet, NEW q \in Seq(Frame), NEW k \in Seq(Frame), NEW first \in Seq(Frame),
         Transfer(W, tx, h, st, rx, l, q, k), Len(h) <= HISTORY,
         k # <<>>, Asks(Head(k)), Ask(Head(k)) # tx,
         NoData(first), Before1(first), ~ Has(first, SYN1)
  PROVE  Resumed(W, tx, h, st, rx, l, q, k, first)
  <1> DEFINE to == Ask(Head(k))
             d == (tx - to) % SEQ_RANGE
             g == Rewound(h, tx, to)
             s == Resent(g, to)
  <1>1. /\ Head(k) \in Frame /\ In(k, Head(k)) /\ Tail(k) \in Seq(Frame)
        /\ \A f \in Frame : In(Tail(k), f) => (In(k, f) /\ Before(k, Head(k), f))
        /\ \A f, e \in Frame : Before(Tail(k), f, e) => Before(k, f, e)
    BY TailLine
  <1>2. to \in Seq6 /\ SEQ_RANGE \in Nat \ {0} /\ HISTORY \in Nat
    BY <1>1, FrameFields, Constants
  <1>3. d = Back(tx, Head(k)) /\ d \in Seq6
    BY <1>1, BackType DEF Back
  <1>4. W - l.num <= d /\ d <= Len(h)
    BY <1>1, <1>3 DEF Transfer, AsksOK
  <1>5. d # 0
    <2> SUFFICES ASSUME d = 0 PROVE FALSE
      OBVIOUS
    <2>1. 0 % SEQ_RANGE = 0
      BY <1>2
    <2>2. tx - to \in Int /\ 0 \in Int /\ -SEQ_RANGE < (tx - to) - 0 /\ (tx - to) - 0 < SEQ_RANGE
      <3> HIDE DEF to, d
      <3> QED BY <1>2, Constants
    <2>3. tx - to = 0
      BY <1>2, <2>1, <2>2, ModClose
    <2> QED
      <3> HIDE DEF to
      <3> QED BY <1>2, <2>3, Constants DEF to
  <1>6. /\ l.num \in Nat /\ Len(h) \in Nat /\ l.num <= W /\ W <= l.num + Len(h) /\ Len(h) <= W
        /\ tx = W % SEQ_RANGE /\ Ends(h, st, W)
    BY DEF Packet, Transfer, Numbers, Ends
  <1>7. 1 <= d
    <2> HIDE DEF d, to
    <2> QED BY <1>3, <1>5, Constants
  <1>8. /\ g \in Seq(Packet) /\ Len(g) = d
        /\ Ends(g, st, W)
        /\ Plus(to, Len(g)) = tx
        /\ \A i \in 1 .. Len(g) : Plus(to, i - 1) = (((W - Len(g)) + i) - 1) % SEQ_RANGE
    <2>1. 1 <= (tx - to) % SEQ_RANGE /\ (tx - to) % SEQ_RANGE <= Len(h)
      BY <1>4, <1>7
    <2> HIDE DEF to
    <2>2. Numbers(W, tx, h, st, rx, l) /\ to \in Seq6
      BY <1>2 DEF Transfer
    <2> HIDE DEF to
    <2>3. WentBack(Rewound(h, tx, to), W, tx, st, to)
      BY <2>1, <2>2, GoBack, Zenon
    <2> QED BY <2>3 DEF WentBack
  <1>9. /\ s \in Seq(Frame)
        /\ \A f \in Frame : In(s, f) =>
              \E i \in 1 .. d : /\ f.type = "RTX" /\ f.packet = g[i]
                                /\ f.seq = Plus(to, i - 1)
    <2> HIDE DEF to, g
    <2> QED BY <1>2, <1>8, ResentFrames
  <1>10. ASSUME NEW f \in Frame, In(s, f)
         PROVE  /\ Data(f) /\ f.packet.stream = st
                /\ W - Len(g) < f.packet.num /\ f.packet.num <= W
                /\ f.seq = (f.packet.num - 1) % SEQ_RANGE
    <2>1. PICK i \in 1 .. d : f.type = "RTX" /\ f.packet = g[i] /\ f.seq = Plus(to, i - 1)
      BY <1>9, <1>10
    <2> HIDE DEF d, g, to, s
    <2>2. f.packet.stream = st /\ f.packet.num = (W - d) + i
      BY <1>8, <2>1 DEF Ends
    <2>3. W - d < (W - d) + i /\ (W - d) + i <= W
      BY <1>3, Constants
    <2>4. Data(f)
      BY <2>1 DEF Data
    <2>5. f.seq = (((W - d) + i) - 1) % SEQ_RANGE
      BY <1>8, <2>1
    <2> QED BY <1>8, <2>2, <2>3, <2>4, <2>5
  <1>11. Transfer(W, tx, g, st, rx, l, q, Tail(k))
    <2> HIDE DEF d, g, to, s
    <2>1. W <= l.num + d /\ d <= W
      <3> DEFINE n == l.num
                 e == Len(h)
      <3>1. d \in Int
        BY <1>3, Constants
      <3>2. n \in Nat /\ e \in Nat /\ n <= W /\ e <= W /\ W - n <= d /\ d <= e
        BY <1>4, <1>6, Zenon
      <3> HIDE DEF n, e
      <3>3. W <= n + d /\ d <= W
        BY <3>1, <3>2
      <3> QED BY <3>3, Zenon DEF n
    <2>2. Numbers(W, tx, g, st, rx, l)
      <3>1. Numbers(W, tx, h, st, rx, l)
        BY Zenon DEF Transfer
      <3>2. Ends(g, st, W) /\ W <= l.num + Len(g) /\ Len(g) <= W
        BY <1>8, <2>1
      <3> QED BY <3>1, <3>2, Zenon DEF Numbers
    <2>3. ASSUME NEW f \in Frame, In(Tail(k), f), Asks(f)
          PROVE  W - l.num <= Back(tx, f) /\ Back(tx, f) <= Len(g)
      <3>1. In(k, f) /\ Before(k, Head(k), f)
        BY <1>1, <2>3
      <3> QED BY <1>1, <1>3, <1>8, <2>3, <3>1 DEF Transfer, AsksOK
    <2>4. AsksOK(W, tx, g, l, Tail(k))
      BY <1>1, <2>3 DEF Transfer, AsksOK
    <2> QED BY <2>2, <2>4 DEF Transfer
  <1> HIDE DEF d, g, to, s
  <1>12. Transfer(W, tx, g, st, rx, l, q \o first, Tail(k))
    BY <1>11, SendTransfer
  <1>13. q \o first \in Seq(Frame)
    BY ConcatLine
  <1>16. Len(g) <= HISTORY
    <2>1. d \in Int /\ Len(h) \in Int
      BY <1>3, Constants
    <2> QED BY <1>2, <1>4, <1>8, <2>1
  <1>14. Transfer(W, tx, g, st, rx, l, (q \o first) \o s, Tail(k))
    BY <1>8, <1>9, <1>10, <1>12, <1>13, <1>16, ResendTransfer
  <1>15. (q \o first) \o s = q \o (first \o s)
    BY <1>9, ConcatThree, Zenon
  <1> QED BY <1>8, <1>14, <1>15, Zenon DEF Resumed, g, to, s

-----------------------------------------------------------------------------
(* Type correctness.                                                       *)

\* The endpoints are a pair.
LEMMA Peers ==
  ASSUME NEW e \in Endpoints
  PROVE  Peer(e) \in Endpoints /\ Peer(e) # e /\ Peer(Peer(e)) = e /\ Endpoints = {e, Peer(e)}
  BY SfpAssumption DEF Peer, Endpoints

\* Sequence numbers wrap.
LEMMA PlusType ==
  ASSUME NEW x \in Int, NEW n \in Int
  PROVE  Plus(x, n) \in Seq6
  <1>1. x + n \in Int /\ SEQ_RANGE \in Nat \ {0} /\ Seq6 = 0 .. (SEQ_RANGE - 1)
    BY Constants
  <1>2. (x + n) % SEQ_RANGE \in 0 .. (SEQ_RANGE - 1)
    BY <1>1
  <1> QED BY <1>1, <1>2 DEF Plus

\* Going back shortens the history or leaves it.
LEMMA RewoundType ==
  ASSUME NEW h \in Seq(Packet), NEW tx \in Seq6, NEW to \in Seq6
  PROVE  /\ Rewound(h, tx, to) \in Seq(Packet)
         /\ Len(Rewound(h, tx, to)) <= Len(h)
  <1> DEFINE ff == (to - (tx - Len(h))) % SEQ_RANGE
  <1>1. Len(h) \in Nat /\ to - (tx - Len(h)) \in Int /\ SEQ_RANGE \in Nat \ {0}
    BY Constants
  <1>2. ff \in Nat
    <2>1. ff \in 0 .. (SEQ_RANGE - 1)
      BY <1>1
    <2> HIDE DEF ff
    <2> QED BY <1>1, <2>1
  <1>3. Rewound(h, tx, to) = IF Len(h) > ff THEN SubSeq(h, ff + 1, Len(h)) ELSE h
    BY DEF Rewound
  <1> HIDE DEF ff
  <1>4. ASSUME Len(h) > ff
        PROVE  /\ SubSeq(h, ff + 1, Len(h)) \in Seq(Packet)
               /\ Len(SubSeq(h, ff + 1, Len(h))) = Len(h) - ff
    BY <1>1, <1>2, <1>4
  <1>5. CASE Len(h) > ff
    BY <1>1, <1>2, <1>3, <1>4, <1>5
  <1>6. CASE ~ (Len(h) > ff)
    BY <1>1, <1>3, <1>6
  <1> QED BY <1>5, <1>6

\* What a reply does to the lines.
LEMMA ReplyType ==
  ASSUME TypeOK, NEW e \in Endpoints, line[e] # <<>>, NEW s \in Seq(Frame), Reply(e, s)
  PROVE  /\ line' \in [Endpoints -> Seq(Frame)]
         /\ line'[e] = Tail(line[e]) /\ line'[Peer(e)] = line[Peer(e)] \o s
  <1>1. line \in [Endpoints -> Seq(Frame)] /\ line[e] \in Seq(Frame) /\ line[Peer(e)] \in Seq(Frame)
    BY Peers DEF TypeOK
  <1>2. Tail(line[e]) \in Seq(Frame) /\ line[Peer(e)] \o s \in Seq(Frame)
    BY <1>1, TailLine, ConcatLine
  <1>3. line' = [line EXCEPT ![e] = Tail(line[e]), ![Peer(e)] = line[Peer(e)] \o s]
    BY <1>1, Peers DEF Reply
  <1> QED BY <1>1, <1>2, <1>3, Peers

\* What a retransmission changes, and its types.
LEMMA ResynchronizeType ==
  ASSUME TypeOK, NEW e \in Endpoints, line[e] # <<>>, NEW to \in Seq6, NEW first \in Seq(Frame),
         Resynchronize(e, to, first)
  PROVE  LET g == Rewound(history[e], txSeq[e], to) IN
         /\ history' = [history EXCEPT ![e] = g] /\ history' \in [Endpoints -> Seq(Packet)]
         /\ \A d \in Endpoints : Len(history'[d]) <= HISTORY
         /\ txSeq' = [txSeq EXCEPT ![e] = Plus(to, Len(g))] /\ txSeq' \in [Endpoints -> Seq6]
         /\ line' \in [Endpoints -> Seq(Frame)]
         /\ line'[e] = Tail(line[e]) /\ line'[Peer(e)] = line[Peer(e)] \o (first \o Resent(g, to))
         /\ first \o Resent(g, to) \in Seq(Frame)
  <1> DEFINE g == Rewound(history[e], txSeq[e], to)
  <1>1. /\ history[e] \in Seq(Packet) /\ txSeq[e] \in Seq6 /\ Len(history[e]) <= HISTORY
        /\ history \in [Endpoints -> Seq(Packet)] /\ txSeq \in [Endpoints -> Seq6]
    BY DEF TypeOK
  <1>2. g \in Seq(Packet) /\ Len(g) <= Len(history[e])
    BY <1>1, RewoundType
  <1>3. /\ history' = [history EXCEPT ![e] = g]
        /\ txSeq' = [txSeq EXCEPT ![e] = Plus(to, Len(g))]
        /\ Reply(e, first \o Resent(g, to))
    BY DEF Resynchronize
  <1> HIDE DEF g
  <1>4. Len(g) \in Nat /\ Len(history[e]) \in Nat /\ HISTORY \in Nat
    BY <1>1, <1>2, Constants
  <1>5. Len(g) <= HISTORY
    BY <1>1, <1>2, <1>4
  <1>6. \A d \in Endpoints : Len(history'[d]) <= HISTORY
    BY <1>1, <1>3, <1>5 DEF TypeOK
  <1>7. Plus(to, Len(g)) \in Seq6
    BY <1>4, PlusType, Constants
  <1>8. Resent(g, to) \in Seq(Frame)
    BY <1>2, ResentFrames
  <1>9. first \o Resent(g, to) \in Seq(Frame)
    BY <1>8, ConcatLine
  <1>10. /\ line' \in [Endpoints -> Seq(Frame)]
         /\ line'[e] = Tail(line[e]) /\ line'[Peer(e)] = line[Peer(e)] \o (first \o Resent(g, to))
    BY <1>3, <1>9, ReplyType
  <1>11. history' \in [Endpoints -> Seq(Packet)] /\ txSeq' \in [Endpoints -> Seq6]
    BY <1>1, <1>2, <1>3, <1>7
  <1> QED BY <1>3, <1>6, <1>9, <1>10, <1>11, Zenon DEF g

\* What starting over changes, and its types.
LEMMA StartOverType ==
  ASSUME TypeOK, NEW e \in Endpoints, StartOver(e)
  PROVE  /\ rxSeq' \in [Endpoints -> Seq6]
         /\ txSeq' \in [Endpoints -> Seq6]
         /\ history' \in [Endpoints -> Seq(Packet)]
         /\ \A d \in Endpoints : Len(history'[d]) <= HISTORY
         /\ stream' \in [Endpoints -> Nat]
         /\ written' \in [Endpoints -> Nat]
         /\ last' \in [Endpoints -> Packet]
  <1>1. 0 \in Seq6 /\ HISTORY \in Nat /\ NoPacket \in Packet /\ <<>> \in Seq(Packet) /\ Len(<<>>) = 0
    BY SynNumbers, Constants DEF NoPacket, Packet
  <1>2. rxSeq' \in [Endpoints -> Seq6] /\ txSeq' \in [Endpoints -> Seq6] /\ last' \in [Endpoints -> Packet]
    BY <1>1 DEF TypeOK, StartOver
  <1>3. /\ history' \in [Endpoints -> Seq(Packet)]
        /\ \A d \in Endpoints : Len(history'[d]) <= HISTORY
    BY <1>1 DEF TypeOK, StartOver
  <1>4. stream' \in [Endpoints -> Nat] /\ written' \in [Endpoints -> Nat]
    BY DEF TypeOK, StartOver
  <1> QED BY <1>2, <1>3, <1>4

\* The head of a line and the answers are frames.
LEMMA Arrived ==
  ASSUME TypeOK, NEW e \in Endpoints, line[e] # <<>>
  PROVE  /\ line[e] \in Seq(Frame) /\ line[Peer(e)] \in Seq(Frame)
         /\ Got(e) \in Frame /\ Got(e).seq \in Seq6 /\ Got(e).packet \in Packet
  <1>1. line[e] \in Seq(Frame) /\ line[Peer(e)] \in Seq(Frame)
    BY Peers DEF TypeOK
  <1>2. Head(line[e]) \in Frame
    BY <1>1, TailLine
  <1> QED BY <1>1, <1>2, FrameFields DEF Got

\* The answers are frames.
LEMMA AnswerFrames ==
  ASSUME TypeOK, NEW e \in Endpoints
  PROVE  /\ <<>> \in Seq(Frame)
         /\ \A n \in {SYN0, SYN1, SYN2, DIS} : <<Control("SYN", n)>> \in Seq(Frame)
         /\ <<Control("NAK", rxSeq[e])>> \in Seq(Frame)
         /\ connectState[e] # "CONNECTED" => <<NotConnectedReply(e)>> \in Seq(Frame)
  <1>1. \A n \in {SYN0, SYN1, SYN2, DIS} : Control("SYN", n) \in Frame
    BY SynNumbers, ControlFrame
  <1>2. rxSeq[e] \in Seq6 /\ Control("NAK", rxSeq[e]) \in Frame
    BY ControlFrame DEF TypeOK
  <1>3. connectState[e] # "CONNECTED" => NotConnectedReply(e) \in Frame
    BY <1>1 DEF TypeOK, NotConnectedReply
  <1> QED BY <1>1, <1>2, <1>3, OneFrame, NoFrame

\* TypeOK holds initially ...
LEMMA TypeInit ==
  ASSUME Init
  PROVE  TypeOK
  <1>1. 0 \in Seq6 /\ HISTORY \in Nat /\ NoPacket \in Packet /\ <<>> \in Seq(Packet) /\ Len(<<>>) = 0
    BY SynNumbers, Constants DEF NoPacket, Packet
  <1>2. intact \in [Endpoints -> BOOLEAN]
    BY Zenon DEF Init
  <1> QED BY <1>1, <1>2, NoFrame DEF Init, TypeOK

\* ... and is kept by sfpInit and sfpConnect, ...
LEMMA TypeConnect ==
  ASSUME TypeOK, NEW e \in Endpoints, sfpInit(e) \/ sfpConnect(e)
  PROVE  TypeOK'
  <1>1. /\ rxSeq' \in [Endpoints -> Seq6]
        /\ txSeq' \in [Endpoints -> Seq6]
        /\ history' \in [Endpoints -> Seq(Packet)]
        /\ \A d \in Endpoints : Len(history'[d]) <= HISTORY
        /\ stream' \in [Endpoints -> Nat]
        /\ written' \in [Endpoints -> Nat]
        /\ last' \in [Endpoints -> Packet]
    BY StartOverType DEF sfpInit, sfpConnect
  <1>2. starts' \in Nat /\ faults' \in Nat /\ intact' \in [Endpoints -> BOOLEAN]
    BY DEF TypeOK, sfpInit, sfpConnect, Start
  <1>3. connectState' \in [Endpoints -> {"DISCONNECTED", "SENT_SYN0", "SENT_SYN1", "CONNECTED"}]
    BY DEF TypeOK, sfpInit, sfpConnect
  <1>4. line' \in [Endpoints -> Seq(Frame)]
    <2>1. Control("SYN", SYN0) \in Frame
      BY SynNumbers, ControlFrame
    <2>2. line[Peer(e)] \in Seq(Frame) /\ line \in [Endpoints -> Seq(Frame)] /\ Peer(e) \in Endpoints
      BY Peers DEF TypeOK
    <2>3. Append(line[Peer(e)], Control("SYN", SYN0)) \in Seq(Frame)
      BY <2>1, <2>2
    <2> QED BY <2>2, <2>3 DEF sfpInit, sfpConnect
  <1> QED BY <1>1, <1>2, <1>3, <1>4 DEF TypeOK

\* ... by sfpWritePacket, ...
LEMMA TypeWrite ==
  ASSUME TypeOK, NEW e \in Endpoints, sfpWritePacket(e)
  PROVE  TypeOK'
  <1> DEFINE p == [stream |-> stream[e], num |-> written[e] + 1]
             d == [type |-> "USR", seq |-> txSeq[e], packet |-> p]
  <1>1. p \in Packet /\ d \in Frame
    BY DEF TypeOK, Packet, Frame
  <1>2. /\ history' = [history EXCEPT ![e] = PushBack(@, p)]
        /\ line' = [line EXCEPT ![Peer(e)] = Append(@, d)]
    BY DEF sfpWritePacket
  <1> HIDE DEF p, d
  <1>3. line' \in [Endpoints -> Seq(Frame)]
    BY <1>1, <1>2, Peers DEF TypeOK
  <1>4. PushBack(history[e], p) \in Seq(Packet) /\ Len(PushBack(history[e], p)) <= HISTORY
    BY <1>1, PushBackResult DEF TypeOK
  <1>5. history' \in [Endpoints -> Seq(Packet)] /\ \A x \in Endpoints : Len(history'[x]) <= HISTORY
    BY <1>2, <1>4 DEF TypeOK
  <1>6. txSeq' \in [Endpoints -> Seq6]
    <2>1. Plus(txSeq[e], 1) \in Seq6
      BY PlusType, Constants DEF TypeOK
    <2> QED BY <2>1 DEF TypeOK, sfpWritePacket
  <1>7. intact' \in [Endpoints -> BOOLEAN]
    BY Zenon DEF TypeOK, sfpWritePacket
  <1>8. written' \in [Endpoints -> Nat]
    BY DEF TypeOK, sfpWritePacket
  <1>9. UNCHANGED <<connectState, rxSeq, stream, last, starts, faults>>
    BY DEF sfpWritePacket
  <1> QED BY <1>3, <1>5, <1>6, <1>7, <1>8, <1>9 DEF TypeOK

\* ... by the line, ...
LEMMA TypeDamage ==
  ASSUME TypeOK, NEW e \in Endpoints, Lose(e) \/ Corrupt(e)
  PROVE  TypeOK'
  <1>1. PICK i \in 1 .. Len(line[e]) : \/ Damage(e, RemoveAt(line[e], i))
                                       \/ Damage(e, [line[e] EXCEPT ![i] = Control("BAD", 0)])
    BY DEF Lose, Corrupt
  <1>2. PICK q \in Seq(Frame) : Damage(e, q)
    <2>1. line[e] \in Seq(Frame)
      BY DEF TypeOK
    <2> QED BY <1>1, <2>1, LoseThinner, CorruptThinner
  <1>3. line' \in [Endpoints -> Seq(Frame)] /\ faults' \in Nat
    BY <1>2 DEF Damage, TypeOK
  <1>4. intact' \in [Endpoints -> BOOLEAN]
    <2>1. CASE Lose(e)
      BY <2>1, Zenon DEF Lose
    <2>2. CASE Corrupt(e)
      <3>1. PICK j \in 1 .. Len(line[e]) : intact' = [intact EXCEPT ![e] = @ /\ line[e][j].type # "NAK"]
        BY <2>2, Zenon DEF Corrupt
      <3>2. (intact[e] /\ line[e][j].type # "NAK") \in BOOLEAN
        BY Zenon
      <3> QED BY <3>1, <3>2, Zenon DEF TypeOK
    <2> QED BY <2>1, <2>2
  <1>5. UNCHANGED <<connectState, rxSeq, txSeq, history, stream, written, last, starts>>
    BY <1>2 DEF Damage
  <1> QED BY <1>3, <1>4, <1>5 DEF TypeOK

\* ... by every handler of sfpHandleFrame ...
LEMMA TypeHandle ==
  ASSUME TypeOK, NEW e \in Endpoints, sfpHandleFrame(e)
  PROVE  TypeOK'
  <1>1. line[e] # <<>>
    BY DEF sfpHandleFrame, HandleBad, HandleNotConnected, DeliverUSR, RefuseUSR, Accepts, IsData, HandleNAK,
           HandleSYN0, HandleSYN1, HandleSYN2, HandleDIS, ArrivesSYN, Arrives
  <1>2. Got(e).seq \in Seq6 /\ Got(e).packet \in Packet
    BY <1>1, Arrived
  <1>3. \A s \in Seq(Frame) : Reply(e, s) => line' \in [Endpoints -> Seq(Frame)]
    BY <1>1, ReplyType
  <1>4. /\ <<>> \in Seq(Frame)
        /\ \A n \in {SYN0, SYN1, SYN2, DIS} : <<Control("SYN", n)>> \in Seq(Frame)
        /\ <<Control("NAK", rxSeq[e])>> \in Seq(Frame)
        /\ connectState[e] # "CONNECTED" => <<NotConnectedReply(e)>> \in Seq(Frame)
    BY AnswerFrames
  <1>5. \A to \in Seq6, s \in Seq(Frame) : Resynchronize(e, to, s) =>
          /\ history' \in [Endpoints -> Seq(Packet)]
          /\ \A d \in Endpoints : Len(history'[d]) <= HISTORY
          /\ txSeq' \in [Endpoints -> Seq6]
          /\ line' \in [Endpoints -> Seq(Frame)]
    BY <1>1, ResynchronizeType
  <1>6. CASE HandleBad(e) \/ HandleNotConnected(e) \/ RefuseUSR(e)
    <2>1. line' \in [Endpoints -> Seq(Frame)]
      BY <1>3, <1>4, <1>6 DEF HandleBad, HandleNotConnected, RefuseUSR
    <2>2. UNCHANGED <<connectState, rxSeq, txSeq, history, stream, written, last, intact, starts, faults>>
      BY <1>6 DEF HandleBad, HandleNotConnected, RefuseUSR
    <2> QED BY <2>1, <2>2 DEF TypeOK
  <1>7. CASE DeliverUSR(e)
    <2>1. line' \in [Endpoints -> Seq(Frame)]
      BY <1>3, <1>4, <1>7 DEF DeliverUSR
    <2>2. UNCHANGED <<connectState, txSeq, history, stream, written, intact, starts, faults>>
      BY <1>7 DEF DeliverUSR
    <2>3. Plus(rxSeq[e], 1) \in Seq6
      BY PlusType, Constants DEF TypeOK
    <2>4. last' \in [Endpoints -> Packet] /\ rxSeq' \in [Endpoints -> Seq6]
      BY <1>2, <1>7, <2>3 DEF DeliverUSR, TypeOK
    <2> QED BY <2>1, <2>2, <2>4 DEF TypeOK
  <1>8. CASE HandleNAK(e)
    <2>1. UNCHANGED <<connectState, rxSeq, stream, written, last, intact, starts, faults>>
      BY <1>8 DEF HandleNAK
    <2>2. CASE Reply(e, <<>>) /\ UNCHANGED <<history, txSeq>>
      BY <1>3, <1>4, <2>1, <2>2 DEF TypeOK
    <2>3. CASE Resynchronize(e, Got(e).seq, <<>>)
      <3>1. /\ history' \in [Endpoints -> Seq(Packet)]
            /\ \A d \in Endpoints : Len(history'[d]) <= HISTORY
            /\ txSeq' \in [Endpoints -> Seq6]
            /\ line' \in [Endpoints -> Seq(Frame)]
        BY <1>2, <1>4, <1>5, <2>3
      <3> QED BY <2>1, <3>1 DEF TypeOK
    <2> QED BY <1>8, <2>2, <2>3 DEF HandleNAK
  <1>9. CASE HandleSYN0(e)
    <2>1. /\ rxSeq' \in [Endpoints -> Seq6]
          /\ txSeq' \in [Endpoints -> Seq6]
          /\ history' \in [Endpoints -> Seq(Packet)]
          /\ \A d \in Endpoints : Len(history'[d]) <= HISTORY
          /\ stream' \in [Endpoints -> Nat]
          /\ written' \in [Endpoints -> Nat]
          /\ last' \in [Endpoints -> Packet]
      BY <1>9, StartOverType DEF HandleSYN0
    <2>2. line' \in [Endpoints -> Seq(Frame)]
      BY <1>3, <1>4, <1>9 DEF HandleSYN0
    <2>3. UNCHANGED <<intact, starts, faults>>
      BY <1>9 DEF HandleSYN0
    <2>4. connectState' \in [Endpoints -> {"DISCONNECTED", "SENT_SYN0", "SENT_SYN1", "CONNECTED"}]
      BY <1>9 DEF HandleSYN0, TypeOK
    <2> QED BY <2>1, <2>2, <2>3, <2>4 DEF TypeOK
  <1>10. ASSUME NEW s \in Seq(Frame), Connected(e, s),
                UNCHANGED <<rxSeq, stream, written, last, intact, starts, faults>>
         PROVE  TypeOK'
    <2>1. connectState' \in [Endpoints -> {"DISCONNECTED", "SENT_SYN0", "SENT_SYN1", "CONNECTED"}]
      BY <1>10 DEF Connected, TypeOK
    <2>2. CASE Reply(e, s) /\ UNCHANGED <<history, txSeq>>
      BY <1>3, <1>10, <2>1, <2>2 DEF TypeOK
    <2>3. CASE Resynchronize(e, 0, s)
      <3>1. /\ history' \in [Endpoints -> Seq(Packet)]
            /\ \A d \in Endpoints : Len(history'[d]) <= HISTORY
            /\ txSeq' \in [Endpoints -> Seq6]
            /\ line' \in [Endpoints -> Seq(Frame)]
        BY <1>5, <2>3, SynNumbers
      <3> QED BY <1>10, <2>1, <3>1 DEF TypeOK
    <2> QED BY <1>10, <2>2, <2>3 DEF Connected
  <1>11. ASSUME NEW n \in {SYN0, SYN1, SYN2, DIS}, Refused(e, n),
                UNCHANGED <<rxSeq, stream, written, last, intact, starts, faults>>
         PROVE  TypeOK'
    BY <1>3, <1>4, <1>11 DEF Refused, TypeOK
  <1>12. CASE HandleSYN1(e) \/ HandleSYN2(e)
    BY <1>4, <1>10, <1>11, <1>12 DEF HandleSYN1, HandleSYN2
  <1>13. CASE HandleDIS(e)
    <2>1. line' \in [Endpoints -> Seq(Frame)]
      BY <1>3, <1>4, <1>13 DEF HandleDIS
    <2>2. connectState' \in [Endpoints -> {"DISCONNECTED", "SENT_SYN0", "SENT_SYN1", "CONNECTED"}]
      BY <1>13 DEF HandleDIS, TypeOK
    <2>3. UNCHANGED <<rxSeq, txSeq, history, stream, written, last, intact, starts, faults>>
      BY <1>13 DEF HandleDIS
    <2> QED BY <2>1, <2>2, <2>3 DEF TypeOK
  <1> QED BY <1>6, <1>7, <1>8, <1>9, <1>12, <1>13 DEF sfpHandleFrame

\* ... and so by every step.
LEMMA TypeNext ==
  ASSUME TypeOK, [Next]_vars
  PROVE  TypeOK'
  <1>1. CASE UNCHANGED vars
    BY <1>1 DEF TypeOK, vars
  <1>2. CASE Next
    BY <1>2, TypeConnect, TypeWrite, TypeHandle, TypeDamage DEF Next
  <1> QED BY <1>1, <1>2

\* TypeOK holds for every sequence range, history capacity and number of
\* packets, connections and faults: the transmit history never exceeds its
\* capacity and the sequence numbers their six bits, in sfpHandleFrame,
\* sfpTransmitHistoryFromSeq and sfpWritePacket alike.
THEOREM SfpTypeCorrect == Spec => []TypeOK
  BY TypeInit, TypeNext, PTL DEF Spec

(***************************************************************************)
(* Exact delivery.                                                         *)
(***************************************************************************)
Fresh(e) == /\ rxSeq[e] = 0 /\ txSeq[e] = 0 /\ history[e] = <<>>
            /\ written[e] = 0 /\ last[e] = NoPacket

\* The packets of s on their way to r.
Flow(s, r) == Transfer(written[s], txSeq[s], history[s], stream[s], rxSeq[r], last[r], line[r], line[s])

\* What an endpoint knows of itself and of its packets on their way to its peer.
Half(e, p) ==
  /\ connectState[e] \in {"SENT_SYN0", "SENT_SYN1"} => Fresh(e)
  /\ (Has(line[p], SYN0) /\ connectState[e] = "DISCONNECTED") => rxSeq[e] = 0
  /\ (IsOpen(connectState[e]) /\ IsOpen(connectState[p])) => Flow(e, p)

\* The inductive invariant.
Link(a, b) ==
  /\ Both(connectState[a], connectState[b], line[a], line[b])
  /\ Half(a, b) /\ Half(b, a)

\* Asking for what the receiver expects is asking for what it has not got.
LEMMA ExactAsk ==
  ASSUME NEW W \in Nat, NEW tx \in Seq6, NEW h \in Seq(Packet), NEW st, NEW rx,
         NEW l \in Packet, NEW q, NEW k, Transfer(W, tx, h, st, rx, l, q, k), Len(h) <= HISTORY,
         NEW f \in Frame, Ask(f) = rx
  PROVE  Back(tx, f) = W - l.num
  <1>1. l.num \in Nat /\ l.num <= W /\ W <= l.num + Len(h) /\ Len(h) \in Nat /\ HISTORY \in Nat
    BY Constants DEF Transfer, Numbers, Packet
  <1>2. W <= l.num + HISTORY
    BY <1>1
  <1>3. ((W % SEQ_RANGE) - (l.num % SEQ_RANGE)) % SEQ_RANGE = W - l.num
    BY <1>1, <1>2, Distance
  <1>4. tx = W % SEQ_RANGE /\ rx = l.num % SEQ_RANGE
    BY DEF Transfer, Numbers
  <1> QED BY <1>3, <1>4, Zenon DEF Back

\* Append is concatenation.
LEMMA AppendConcat ==
  ASSUME NEW q \in Seq(Frame), NEW f \in Frame
  PROVE  Append(q, f) = q \o <<f>>
  OBVIOUS

\* What the types say of two endpoints.
LEMMA PairTypes ==
  ASSUME TypeOK, NEW a \in Endpoints, NEW b \in Endpoints
  PROVE  /\ connectState[a] \in States
         /\ rxSeq[a] \in Seq6 /\ txSeq[a] \in Seq6
         /\ history[a] \in Seq(Packet) /\ Len(history[a]) <= HISTORY
         /\ line[a] \in Seq(Frame)
         /\ stream[a] \in Nat /\ written[a] \in Nat /\ last[a] \in Packet
         /\ last[a].num \in Nat
  BY DEF TypeOK, States, Packet

\* a takes a frame and answers s, which asks for what a expects.
LEMMA ReplyFlow ==
  ASSUME TypeOK, NEW a \in Endpoints, NEW b \in Endpoints, NEW s \in Seq(Frame),
         Flow(a, b), Flow(b, a), line[a] # <<>>,
         NoData(s), Before1(s), Has(s, SYN1) => (last[b].num = 0 /\ NoData(line[b])),
         \A f \in Frame : (In(s, f) /\ Asks(f)) => Ask(f) = rxSeq[a]
  PROVE  /\ Transfer(written[a], txSeq[a], history[a], stream[a], rxSeq[b], last[b],
                     line[b] \o s, Tail(line[a]))
         /\ Transfer(written[b], txSeq[b], history[b], stream[b], rxSeq[a], last[a],
                     Tail(line[a]), line[b] \o s)
  <1>1. /\ txSeq[b] \in Seq6 /\ history[b] \in Seq(Packet) /\ written[b] \in Nat /\ last[a] \in Packet
        /\ Len(history[b]) <= HISTORY /\ line[a] \in Seq(Frame) /\ line[b] \in Seq(Frame)
    BY PairTypes
  <1>2. Thinner(Tail(line[a]), line[a]) /\ Thinner(line[b], line[b])
    BY <1>1, TailThinner, SameThinner
  <1>3. Transfer(written[a], txSeq[a], history[a], stream[a], rxSeq[b], last[b], line[b], Tail(line[a]))
    BY <1>2, ThinTransfer DEF Flow
  <1>4. Transfer(written[b], txSeq[b], history[b], stream[b], rxSeq[a], last[a], Tail(line[a]), line[b])
    BY <1>2, ThinTransfer DEF Flow
  <1>5. Transfer(written[a], txSeq[a], history[a], stream[a], rxSeq[b], last[b],
                 line[b] \o s, Tail(line[a]))
    BY <1>1, <1>3, SendTransfer
  <1>6. \A f \in Frame : (In(s, f) /\ Asks(f)) => Back(txSeq[b], f) = written[b] - last[a].num
    BY <1>1, <1>4, ExactAsk
  <1>7. Transfer(written[b], txSeq[b], history[b], stream[b], rxSeq[a], last[a],
                 Tail(line[a]), line[b] \o s)
    BY <1>1, <1>4, <1>6, AskTransfer
  <1> QED BY <1>5, <1>7

\* sfpInit and sfpConnect, when both lines are empty.
LEMMA LinkConnect ==
  ASSUME TypeOK, Careful, NEW a \in Endpoints, NEW b \in Endpoints, b = Peer(a), Link(a, b),
         sfpInit(a) \/ sfpConnect(a)
  PROVE  Link(a, b)'
  <1>0. a # b /\ connectState[b] \in States
    BY Peers, PairTypes
  <1>1. line[a] = <<>> /\ line[b] = <<>>
    BY DEF sfpInit, sfpConnect, Start
  <1>2. StartOver(a)
    BY DEF sfpInit, sfpConnect
  <1>3. Fresh(a)'
    BY <1>2 DEF Fresh, StartOver, TypeOK
  <1>4. /\ rxSeq'[b] = rxSeq[b] /\ txSeq'[b] = txSeq[b] /\ history'[b] = history[b]
        /\ written'[b] = written[b] /\ last'[b] = last[b]
    BY <1>0, <1>2 DEF StartOver, TypeOK
  <1>5. connectState'[b] = connectState[b] /\ connectState'[a] \in {"DISCONNECTED", "SENT_SYN0"}
    BY <1>0 DEF sfpInit, sfpConnect, TypeOK
  <1>6. line'[a] = <<>>
    BY <1>0, <1>1 DEF sfpInit, sfpConnect, TypeOK
  <1>7. Both(connectState'[a], connectState'[b], line'[a], line'[b])
    <2>1. CASE sfpInit(a)
      <3>1. connectState'[a] = "DISCONNECTED" /\ line'[b] = <<>>
        BY <1>1, <2>1 DEF sfpInit, TypeOK
      <3> QED BY <1>0, <1>5, <1>6, <3>1, StartHandshake
    <2>2. CASE sfpConnect(a)
      <3>1. Append(<<>>, Control("SYN", SYN0)) = <<Control("SYN", SYN0)>>
        OBVIOUS
      <3>2. connectState'[a] = "SENT_SYN0" /\ line'[b] = <<Control("SYN", SYN0)>>
        BY <1>1, <2>2, <3>1 DEF sfpConnect, TypeOK
      <3> QED BY <1>0, <1>5, <1>6, <3>2, StartHandshake
    <2> QED BY <2>1, <2>2
  <1>8. Half(a, b)'
    BY <1>3, <1>5 DEF Half, Fresh, IsOpen
  <1>9. ~ Has(line'[a], SYN0)
    BY <1>6, EmptySummary
  <1>10. Half(b, a)'
    BY <1>4, <1>5, <1>9 DEF Link, Half, Fresh, IsOpen
  <1> QED BY <1>7, <1>8, <1>10 DEF Link

\* A frame is lost or spoilt.
LEMMA LinkDamage ==
  ASSUME TypeOK, NEW a \in Endpoints, NEW b \in Endpoints, b = Peer(a), Link(a, b),
         Lose(a) \/ Corrupt(a)
  PROVE  Link(a, b)'
  <1>0. a # b /\ connectState[a] \in States /\ connectState[b] \in States /\ line[a] \in Seq(Frame)
    BY Peers, PairTypes
  <1>1. PICK q \in Seq(Frame) : Damage(a, q) /\ Thinner(q, line[a])
    BY <1>0, LoseThinner, CorruptThinner DEF Lose, Corrupt
  <1>2. /\ UNCHANGED <<connectState, rxSeq, txSeq, history, stream, written, last>>
        /\ line'[a] = q /\ line'[b] = line[b]
    BY <1>0, <1>1 DEF Damage, TypeOK
  <1>3. Thinner(line[b], line[b])
    BY SameThinner
  <1>4. Both(connectState[a], connectState[b], q, line[b])
    BY <1>0, <1>1, <1>3, ThinHandshake DEF Link
  <1>5. Has(q, SYN0) => Has(line[a], SYN0)
    BY <1>1, ThinSummary
  <1>6. Flow(a, b) => Flow(a, b)'
    BY <1>1, <1>2, <1>3, ThinTransfer DEF Flow
  <1>7. Flow(b, a) => Flow(b, a)'
    BY <1>1, <1>2, <1>3, ThinTransfer DEF Flow
  <1>8. Fresh(a)' = Fresh(a) /\ Fresh(b)' = Fresh(b)
    BY <1>2 DEF Fresh
  <1> QED BY <1>2, <1>4, <1>5, <1>6, <1>7, <1>8 DEF Link, Half

\* a answers a frame with s and changes nothing else.
LEMMA LinkReply ==
  ASSUME TypeOK, NEW a \in Endpoints, NEW b \in Endpoints, b = Peer(a), Link(a, b),
         line[a] # <<>>, NEW s \in Seq(Frame), Reply(a, s),
         UNCHANGED <<connectState, rxSeq, txSeq, history, stream, written, last>>,
         Both(connectState[a], connectState[b], Tail(line[a]), line[b] \o s),
         Has(s, SYN0) => connectState[a] # "DISCONNECTED",
         (IsOpen(connectState[a]) /\ IsOpen(connectState[b])) =>
            /\ NoData(s) /\ Before1(s)
            /\ Has(s, SYN1) => (last[b].num = 0 /\ NoData(line[b]))
            /\ \A f \in Frame : (In(s, f) /\ Asks(f)) => Ask(f) = rxSeq[a]
  PROVE  Link(a, b)'
  <1>1. line'[a] = Tail(line[a]) /\ line'[b] = line[b] \o s /\ line[a] \in Seq(Frame) /\ line[b] \in Seq(Frame)
    BY ReplyType, PairTypes
  <1>2. Both(connectState'[a], connectState'[b], line'[a], line'[b])
    BY <1>1
  <1>3. /\ Has(Tail(line[a]), SYN0) => Has(line[a], SYN0)
        /\ Has(line[b] \o s, SYN0) => (Has(line[b], SYN0) \/ Has(s, SYN0))
    BY <1>1, TailSummary, ConcatSummary
  <1>4. ASSUME IsOpen(connectState[a]), IsOpen(connectState[b])
        PROVE  Flow(a, b)' /\ Flow(b, a)'
    <2>1. Flow(a, b) /\ Flow(b, a)
      BY <1>4 DEF Link, Half
    <2>2. /\ Transfer(written[a], txSeq[a], history[a], stream[a], rxSeq[b], last[b],
                      line[b] \o s, Tail(line[a]))
          /\ Transfer(written[b], txSeq[b], history[b], stream[b], rxSeq[a], last[a],
                      Tail(line[a]), line[b] \o s)
      BY <1>4, <2>1, ReplyFlow
    <2> QED BY <1>1, <2>2 DEF Flow
  <1>5. (Fresh(a)' <=> Fresh(a)) /\ (Fresh(b)' <=> Fresh(b))
    BY DEF Fresh
  <1>6. Half(a, b)'
    BY <1>1, <1>3, <1>4, <1>5 DEF Link, Half
  <1>7. Half(b, a)'
    BY <1>1, <1>3, <1>4, <1>5 DEF Link, Half
  <1> QED BY <1>2, <1>6, <1>7 DEF Link

\* The handshake when a has taken a frame.
LEMMA TakenHandshake ==
  ASSUME TypeOK, NEW a \in Endpoints, NEW b \in Endpoints, Link(a, b), line[a] # <<>>
  PROVE  Both(connectState[a], connectState[b], Tail(line[a]), line[b])
  <1>1. /\ connectState[a] \in States /\ connectState[b] \in States
        /\ line[a] \in Seq(Frame)
    BY PairTypes
  <1>2. Thinner(Tail(line[a]), line[a]) /\ Thinner(line[b], line[b])
    BY <1>1, TailThinner, SameThinner
  <1> QED BY <1>1, <1>2, ThinHandshake DEF Link

\* a drops a frame, with a NAK or silently.
LEMMA LinkNak ==
  ASSUME TypeOK, NEW a \in Endpoints, NEW b \in Endpoints, b = Peer(a), Link(a, b),
         line[a] # <<>>, NEW s, s \in {<<>>, <<Control("NAK", rxSeq[a])>>}, Reply(a, s),
         UNCHANGED <<connectState, rxSeq, txSeq, history, stream, written, last>>
  PROVE  Link(a, b)'
  <1>1. /\ connectState[a] \in States /\ connectState[b] \in States
        /\ line[a] \in Seq(Frame) /\ line[b] \in Seq(Frame) /\ Tail(line[a]) \in Seq(Frame)
        /\ rxSeq[a] \in Seq6
    BY PairTypes, TailLine
  <1>2. /\ s \in Seq(Frame)
        /\ \A m : ~ Has(s, m)
        /\ NoData(s) /\ Pure(s) /\ After1(s) /\ Before1(s)
        /\ rxSeq[a] = 0 => Nak0(s)
    BY <1>1, NakSummary, EmptySummary
  <1>3. \A f \in Frame : (In(s, f) /\ Asks(f)) => Ask(f) = rxSeq[a]
    <2>1. CASE s = <<>>
      BY <2>1, NoFrame
    <2>2. CASE s = <<Control("NAK", rxSeq[a])>>
      <3>1. Control("NAK", rxSeq[a]) \in Frame /\ Ask(Control("NAK", rxSeq[a])) = rxSeq[a]
        BY <1>1, ControlFrame DEF Ask
      <3> QED BY <2>2, <3>1, OneFrame
    <2> QED BY <2>1, <2>2
  <1>4. Both(connectState[a], connectState[b], Tail(line[a]), line[b])
    BY TakenHandshake
  <1>5. \/ rxSeq[a] = 0
        \/ connectState[a] \in {"CONNECTED", "DISCONNECTED"}
             /\ (connectState[a] = "DISCONNECTED" => ~ Has(line[b], SYN0))
    BY <1>1 DEF Link, Half, Fresh, States
  <1>6. Both(connectState[a], connectState[b], Tail(line[a]), line[b] \o s)
    BY <1>1, <1>2, <1>4, <1>5, PlainHandshake
  <1> QED BY <1>2, <1>3, <1>6, LinkReply

\* a answers a SYN that tells its state.
LEMMA LinkAnswer ==
  ASSUME TypeOK, NEW a \in Endpoints, NEW b \in Endpoints, b = Peer(a), Link(a, b),
         line[a] # <<>>, NEW n, Reply(a, <<Control("SYN", n)>>),
         \/ connectState[a] = "DISCONNECTED" /\ n = DIS
         \/ connectState[a] = "SENT_SYN0" /\ n = SYN0
         \/ connectState[a] = "SENT_SYN1" /\ n = SYN1,
         UNCHANGED <<connectState, rxSeq, txSeq, history, stream, written, last>>
  PROVE  Link(a, b)'
  <1> DEFINE s == <<Control("SYN", n)>>
  <1>1. /\ connectState[a] \in States /\ connectState[b] \in States
        /\ line[a] \in Seq(Frame) /\ line[b] \in Seq(Frame) /\ Tail(line[a]) \in Seq(Frame)
        /\ txSeq[a] \in Seq6 /\ history[a] \in Seq(Packet) /\ last[b] \in Packet
    BY PairTypes, TailLine
  <1>2. n \in Seq6 /\ (n = SYN0 => connectState[a] # "DISCONNECTED")
    BY SynNumbers
  <1>3. /\ s \in Seq(Frame)
        /\ \A m : Has(s, m) <=> m = n
        /\ NoData(s) /\ Before1(s)
    BY <1>2, SynSummary
  <1>4. Both(connectState[a], connectState[b], Tail(line[a]), line[b])
    BY TakenHandshake
  <1>5. Both(connectState[a], connectState[b], Tail(line[a]), line[b] \o s)
    BY <1>1, <1>4, AnswerHandshake
  <1>6. ASSUME IsOpen(connectState[a]), IsOpen(connectState[b])
        PROVE  /\ last[b].num = 0 /\ NoData(line[b])
               /\ \A f \in Frame : (In(s, f) /\ Asks(f)) => Ask(f) = rxSeq[a]
    <2>1. connectState[a] = "SENT_SYN1"
      BY <1>1, <1>6 DEF IsOpen
    <2>2. Fresh(a) /\ Flow(a, b)
      BY <1>6, <2>1 DEF Link, Half
    <2>3. NoData(line[b]) /\ last[b] = NoPacket
      <3>1. Transfer(0, txSeq[a], history[a], stream[a], rxSeq[b], last[b], line[b], line[a])
        BY <2>2, Zenon DEF Flow, Fresh
      <3> QED BY <1>1, <3>1, RestartTransfer, Zenon
    <2>4. Control("SYN", n) \in Frame /\ Ask(Control("SYN", n)) = 0
      BY <1>2, ControlFrame DEF Ask
    <2>5. \A f \in Frame : In(s, f) => f = Control("SYN", n)
      BY <2>4, OneFrame
    <2> QED BY <2>2, <2>3, <2>4, <2>5 DEF Fresh, NoPacket
  <1> HIDE DEF s
  <1>7. Reply(a, s)
    BY DEF s
  <1> QED BY <1>2, <1>3, <1>5, <1>6, <1>7, LinkReply

\* The frames of a retransmission.
LEMMA ResyncFrames ==
  ASSUME NEW h \in Seq(Packet), NEW to \in Seq6, NEW first \in Seq(Frame), Nak0(first), Pure(first)
  PROVE  LET s == first \o Resent(h, to) IN
         /\ s \in Seq(Frame)
         /\ \A m : Has(s, m) <=> Has(first, m)
         /\ Nak0(s) /\ Pure(s) /\ (~ Has(first, SYN1) => After1(s))
         /\ \A f \in Frame : (In(s, f) /\ Asks(f)) => In(first, f)
  <1> DEFINE r == Resent(h, to)
  <1>1. r \in Seq(Frame) /\ \A f \in Frame : In(r, f) => f.type = "RTX"
    BY ResentFrames
  <1> HIDE DEF r
  <1>2. \A f \in Frame : In(r, f) => (Data(f) /\ ~ Asks(f))
    BY <1>1 DEF Data, Asks, Syn
  <1>3. /\ \A m : ~ Has(r, m)
        /\ Nak0(r) /\ Pure(r)
    BY <1>1, <1>2, DataSummary
  <1>4. first \o r \in Seq(Frame) /\ \A f \in Frame : In(first \o r, f) <=> (In(first, f) \/ In(r, f))
    BY <1>1, ConcatLine
  <1>5. \A m : Has(first \o r, m) <=> Has(first, m)
    BY <1>1, <1>3, ConcatSummary, Zenon
  <1>6. Nak0(first \o r)
    BY <1>1, <1>3, ConcatSummary, Zenon
  <1>7. Pure(first \o r)
    BY <1>1, <1>3, ConcatSummary, Zenon
  <1>8. ~ Has(first, SYN1) => After1(first \o r)
    BY <1>5, NoSyn1
  <1> QED BY <1>2, <1>4, <1>5, <1>6, <1>7, <1>8 DEF r

\* Both directions after a has taken an ask and sent first and the packets from
\* there.
ResumedFlow(a, b, first) ==
  LET to == Ask(Got(a))
      g == Rewound(history[a], txSeq[a], to)
      s == first \o Resent(g, to)
  IN  /\ Plus(to, Len(g)) = txSeq[a]
      /\ Transfer(written[a], txSeq[a], g, stream[a], rxSeq[b], last[b], line[b] \o s, Tail(line[a]))
      /\ Transfer(written[b], txSeq[b], history[b], stream[b], rxSeq[a], last[a],
                  Tail(line[a]), line[b] \o s)

\* The retransmission keeps both transfers going.
LEMMA ResyncFlow ==
  ASSUME TypeOK, NEW a \in Endpoints, NEW b \in Endpoints, NEW first \in Seq(Frame),
         Flow(a, b), Flow(b, a), line[a] # <<>>,
         Asks(Got(a)), Ask(Got(a)) # txSeq[a],
         NoData(first), Nak0(first), Pure(first), Before1(first), ~ Has(first, SYN1),
         \A f \in Frame : (In(first, f) /\ Asks(f)) => Ask(f) = rxSeq[a]
  PROVE  ResumedFlow(a, b, first)
  <1> DEFINE to == Ask(Got(a))
             g == Rewound(history[a], txSeq[a], to)
             s == first \o Resent(g, to)
  <1>1. /\ txSeq[b] \in Seq6 /\ history[b] \in Seq(Packet) /\ written[b] \in Nat /\ last[a] \in Packet
        /\ Len(history[b]) <= HISTORY /\ line[a] \in Seq(Frame) /\ line[b] \in Seq(Frame)
    BY PairTypes
  <1>2. /\ txSeq[a] \in Seq6 /\ history[a] \in Seq(Packet) /\ written[a] \in Nat /\ last[b] \in Packet
        /\ Len(history[a]) <= HISTORY
    BY PairTypes
  <1>3. Resumed(written[a], txSeq[a], history[a], stream[a], rxSeq[b], last[b], line[b], line[a], first)
    <2>1. Asks(Head(line[a])) /\ Ask(Head(line[a])) # txSeq[a]
      BY DEF Got
    <2>2. Transfer(written[a], txSeq[a], history[a], stream[a], rxSeq[b], last[b], line[b], line[a])
      BY DEF Flow
    <2> QED BY <1>1, <1>2, <2>1, <2>2, ResyncTransfer, Zenon
  <1>10. /\ Plus(to, Len(g)) = txSeq[a]
         /\ Transfer(written[a], txSeq[a], g, stream[a], rxSeq[b], last[b], line[b] \o s, Tail(line[a]))
    BY <1>3, Zenon DEF Resumed, Got
  <1>4. to \in Seq6 /\ g \in Seq(Packet)
    <2>1. Got(a) \in Frame
      BY Arrived
    <2> QED BY <1>2, <2>1, FrameFields, RewoundType
  <1> HIDE DEF to, g
  <1>5. s \in Seq(Frame) /\ \A f \in Frame : (In(s, f) /\ Asks(f)) => Ask(f) = rxSeq[a]
    BY <1>4, ResyncFrames
  <1> HIDE DEF s
  <1>6. Thinner(Tail(line[a]), line[a]) /\ Thinner(line[b], line[b])
    BY <1>1, TailThinner, SameThinner
  <1>7. Transfer(written[b], txSeq[b], history[b], stream[b], rxSeq[a], last[a], Tail(line[a]), line[b])
    BY <1>6, ThinTransfer DEF Flow
  <1>8. \A f \in Frame : (In(s, f) /\ Asks(f)) => Back(txSeq[b], f) = written[b] - last[a].num
    BY <1>1, <1>5, <1>7, ExactAsk
  <1>9. Transfer(written[b], txSeq[b], history[b], stream[b], rxSeq[a], last[a],
                 Tail(line[a]), line[b] \o s)
    BY <1>1, <1>5, <1>7, <1>8, AskTransfer
  <1> QED BY <1>9, <1>10, Zenon DEF ResumedFlow, to, g, s

\* a retransmits behind first, and is connected then.
LEMMA LinkResync ==
  ASSUME TypeOK, NEW a \in Endpoints, NEW b \in Endpoints, b = Peer(a), Link(a, b),
         line[a] # <<>>, NEW first \in Seq(Frame),
         Asks(Got(a)), Ask(Got(a)) # txSeq[a], Resynchronize(a, Ask(Got(a)), first),
         IsOpen(connectState[a]),
         NoData(first), Nak0(first), Pure(first), Before1(first), ~ Has(first, SYN1),
         \A f \in Frame : (In(first, f) /\ Asks(f)) => (IsOpen(connectState[b]) => Ask(f) = rxSeq[a]),
         connectState' = [connectState EXCEPT ![a] = "CONNECTED"],
         UNCHANGED <<rxSeq, stream, written, last>>,
         \A s \in Seq(Frame) : (\A m : Has(s, m) <=> Has(first, m)) /\ Nak0(s) /\ Pure(s) /\ After1(s)
           => Both("CONNECTED", connectState[b], Tail(line[a]), line[b] \o s)
  PROVE  Link(a, b)'
  <1> DEFINE to == Ask(Got(a))
             g == Rewound(history[a], txSeq[a], to)
             s == first \o Resent(g, to)
  <1>0. /\ a # b /\ line[a] \in Seq(Frame) /\ line[b] \in Seq(Frame)
        /\ history[a] \in Seq(Packet) /\ txSeq[a] \in Seq6
    BY Peers, PairTypes
  <1>1. to \in Seq6
    <2>1. Got(a) \in Frame
      BY Arrived
    <2> QED BY <2>1, FrameFields
  <1>2. g \in Seq(Packet)
    BY <1>0, <1>1, RewoundType
  <1>3. /\ s \in Seq(Frame)
        /\ \A m : Has(s, m) <=> Has(first, m)
        /\ Nak0(s) /\ Pure(s) /\ After1(s)
    BY <1>1, <1>2, ResyncFrames
  <1>4. /\ history' = [history EXCEPT ![a] = g]
        /\ txSeq' = [txSeq EXCEPT ![a] = Plus(to, Len(g))]
        /\ line'[a] = Tail(line[a]) /\ line'[b] = line[b] \o s
    <2> HIDE DEF to
    <2>1. Resynchronize(a, to, first)
      BY DEF to
    <2>2. TypeOK /\ a \in Endpoints /\ line[a] # <<>> /\ first \in Seq(Frame) /\ b = Peer(a)
      OBVIOUS
    <2>3. history' = [history EXCEPT ![a] = g]
      BY ONLY <1>1, <2>1, <2>2, ResynchronizeType, SfpAssumption
    <2>4. txSeq' = [txSeq EXCEPT ![a] = Plus(to, Len(g))]
      BY ONLY <1>1, <2>1, <2>2, ResynchronizeType, SfpAssumption
    <2>5. line'[a] = Tail(line[a]) /\ line'[Peer(a)] = line[Peer(a)] \o s
      BY ONLY <1>1, <2>1, <2>2, ResynchronizeType, SfpAssumption
    <2> QED BY <2>2, <2>3, <2>4, <2>5, Zenon
  <1>5. ASSUME IsOpen(connectState[b])
        PROVE  /\ Plus(to, Len(g)) = txSeq[a]
               /\ Transfer(written[a], txSeq[a], g, stream[a], rxSeq[b], last[b], line[b] \o s, Tail(line[a]))
               /\ Transfer(written[b], txSeq[b], history[b], stream[b], rxSeq[a], last[a],
                           Tail(line[a]), line[b] \o s)
    <2>1. Flow(a, b) /\ Flow(b, a)
      BY <1>5 DEF Link, Half
    <2>2. ResumedFlow(a, b, first)
      BY <1>5, <2>1, ResyncFlow
    <2> QED BY <2>2, Zenon DEF ResumedFlow
  <1> HIDE DEF to, g, s
  <1>6. connectState'[a] = "CONNECTED" /\ connectState'[b] = connectState[b]
    BY <1>0 DEF TypeOK
  <1>7. history'[a] = g /\ txSeq'[a] = Plus(to, Len(g)) /\ history'[b] = history[b] /\ txSeq'[b] = txSeq[b]
    BY <1>0, <1>4 DEF TypeOK
  <1>8. Both(connectState'[a], connectState'[b], line'[a], line'[b])
    BY <1>3, <1>4, <1>6
  <1>9. IsOpen(connectState[b]) => (Flow(a, b)' /\ Flow(b, a)')
    BY <1>4, <1>5, <1>7 DEF Flow
  <1>10. Half(a, b)'
    BY <1>6, <1>9 DEF Half
  <1>11. (Fresh(b)' <=> Fresh(b)) /\ (Has(line'[a], SYN0) => Has(line[a], SYN0))
    BY <1>0, <1>4, <1>7, TailSummary DEF Fresh
  <1>12. Half(b, a)'
    BY <1>6, <1>9, <1>11 DEF Link, Half
  <1> QED BY <1>8, <1>10, <1>12 DEF Link

\* A NAK is answered with what it asks for.
LEMMA LinkHandleNAK ==
  ASSUME TypeOK, NEW a \in Endpoints, NEW b \in Endpoints, b = Peer(a), Link(a, b), HandleNAK(a)
  PROVE  Link(a, b)'
  <1>1. line[a] # <<>> /\ Got(a).type = "NAK" /\ connectState[a] = "CONNECTED"
    BY DEF HandleNAK, Arrives, Got
  <1>2. UNCHANGED <<connectState, rxSeq, stream, written, last>>
    BY DEF HandleNAK
  <1>3. CASE Got(a).seq = txSeq[a]
    BY <1>1, <1>2, <1>3, LinkNak DEF HandleNAK
  <1>4. CASE Got(a).seq # txSeq[a]
    <2>1. Asks(Got(a)) /\ Ask(Got(a)) = Got(a).seq
      BY <1>1 DEF Asks, Ask
    <2>2. Resynchronize(a, Ask(Got(a)), <<>>)
      BY <1>4, <2>1 DEF HandleNAK
    <2>3. /\ connectState[a] \in States /\ connectState[b] \in States
          /\ line[a] \in Seq(Frame) /\ line[b] \in Seq(Frame) /\ Tail(line[a]) \in Seq(Frame)
      BY <1>1, PairTypes, TailLine
    <2>4. ASSUME NEW s \in Seq(Frame), \A m : Has(s, m) <=> Has(<<>>, m), Nak0(s), Pure(s), After1(s)
          PROVE  Both("CONNECTED", connectState[b], Tail(line[a]), line[b] \o s)
      <3>1. \A m : ~ Has(s, m)
        BY <2>4, EmptySummary
      <3>2. Both(connectState[a], connectState[b], Tail(line[a]), line[b])
        BY <1>1, TakenHandshake
      <3> QED BY <1>1, <2>3, <2>4, <3>1, <3>2, PlainHandshake
    <2>5. connectState' = [connectState EXCEPT ![a] = "CONNECTED"]
      BY <1>1, <1>2 DEF TypeOK
    <2>6. /\ <<>> \in Seq(Frame) /\ NoData(<<>>) /\ Nak0(<<>>) /\ Pure(<<>>) /\ Before1(<<>>) /\ ~ Has(<<>>, SYN1)
          /\ \A f \in Frame : ~ In(<<>>, f)
      BY EmptySummary, NoFrame
    <2>7. IsOpen(connectState[a]) /\ Ask(Got(a)) # txSeq[a]
      BY <1>1, <1>4, <2>1 DEF IsOpen
    <2> QED BY <1>1, <1>2, <2>1, <2>2, <2>4, <2>5, <2>6, <2>7, LinkResync
  <1> QED BY <1>3, <1>4

\* A packet with the expected number is delivered.
LEMMA LinkDeliver ==
  ASSUME TypeOK, NEW a \in Endpoints, NEW b \in Endpoints, b = Peer(a), Link(a, b), DeliverUSR(a)
  PROVE  Link(a, b)'
  <1>1. /\ line[a] # <<>> /\ Data(Got(a)) /\ connectState[a] = "CONNECTED" /\ Got(a).seq = rxSeq[a]
        /\ Reply(a, <<>>)
    BY DEF DeliverUSR, Accepts, IsData, Arrives, Got, Data
  <1>2. UNCHANGED <<connectState, txSeq, history, stream, written>>
    BY DEF DeliverUSR
  <1>3. /\ a # b /\ connectState[a] \in States /\ connectState[b] \in States
        /\ line[a] \in Seq(Frame) /\ line[b] \in Seq(Frame) /\ Tail(line[a]) \in Seq(Frame)
        /\ txSeq[b] \in Seq6 /\ history[b] \in Seq(Packet) /\ written[b] \in Nat /\ last[a] \in Packet
        /\ Len(history[b]) <= HISTORY
    BY <1>1, Peers, PairTypes, TailLine
  <1>4. /\ last'[a] = Got(a).packet /\ rxSeq'[a] = Plus(rxSeq[a], 1)
        /\ last'[b] = last[b] /\ rxSeq'[b] = rxSeq[b]
    BY <1>3 DEF DeliverUSR, TypeOK
  <1>5. line'[a] = Tail(line[a]) /\ line'[b] = line[b]
    <2>1. line'[a] = Tail(line[a]) /\ line'[b] = line[b] \o <<>>
      BY <1>1, NoFrame, ReplyType
    <2>2. line[b] \o <<>> = line[b]
      BY <1>3
    <2> QED BY <2>1, <2>2
  <1>6. Both(connectState'[a], connectState'[b], line'[a], line'[b])
    BY <1>1, <1>2, <1>5, TakenHandshake
  <1>7. ASSUME IsOpen(connectState[b])
        PROVE  Flow(a, b)' /\ Flow(b, a)'
    <2>1. Flow(a, b) /\ Flow(b, a)
      BY <1>1, <1>7 DEF Link, Half, IsOpen
    <2>2. Thinner(Tail(line[a]), line[a]) /\ Thinner(line[b], line[b])
      BY <1>1, <1>3, TailThinner, SameThinner
    <2>3. Transfer(written[a], txSeq[a], history[a], stream[a], rxSeq[b], last[b], line[b], Tail(line[a]))
      BY <2>1, <2>2, ThinTransfer DEF Flow
    <2>4. Transfer(written[b], txSeq[b], history[b], stream[b], Plus(rxSeq[a], 1), Got(a).packet,
                   Tail(line[a]), line[b])
      BY <1>1, <1>3, <2>1, DeliverTransfer DEF Flow, Got
    <2> QED BY <1>2, <1>4, <1>5, <2>3, <2>4 DEF Flow
  <1>8. Half(a, b)'
    BY <1>1, <1>2, <1>7 DEF Half
  <1>9. (Fresh(b)' <=> Fresh(b)) /\ (Has(line'[a], SYN0) => Has(line[a], SYN0))
    BY <1>1, <1>2, <1>3, <1>4, <1>5, TailSummary DEF Fresh
  <1>10. Half(b, a)'
    BY <1>2, <1>4, <1>7, <1>9 DEF Link, Half
  <1> QED BY <1>6, <1>8, <1>10 DEF Link

\* What a careful application has made sure of.
LEMMA CarefulWrite ==
  ASSUME TypeOK, Careful, NEW a \in Endpoints, NEW b \in Endpoints, b = Peer(a), sfpWritePacket(a)
  PROVE  /\ (txSeq[a] - rxSeq[b]) % SEQ_RANGE < HISTORY
         /\ \A f \in Frame : (In(line[a], f) /\ Asks(f)) => Back(txSeq[a], f) < HISTORY
  <1> DEFINE asked == {line[a][i] : i \in 1 .. Len(line[a])}
             from == {rxSeq[b]}
                       \cup {f.seq : f \in {g \in asked : g.type = "NAK"}}
                       \cup {0 : f \in {g \in asked : g.type = "SYN" /\ g.seq \in {SYN1, SYN2}}}
  <1>1. \A d \in {(txSeq[a] - n) % SEQ_RANGE : n \in from} : d < HISTORY
    BY Zenon DEF sfpWritePacket, Behind
  <1>2. \A n \in from : (txSeq[a] - n) % SEQ_RANGE < HISTORY
    BY <1>1, Zenon
  <1>3. rxSeq[b] \in from
    BY Zenon
  <1>4. ASSUME NEW f \in Frame, In(line[a], f), Asks(f)
        PROVE  Ask(f) \in from
    <2>1. f \in asked
      BY <1>4, Zenon DEF In
    <2> HIDE DEF asked
    <2>2. CASE f.type = "NAK"
      BY <2>1, <2>2 DEF Ask
    <2>3. CASE f.type # "NAK"
      BY <1>4, <2>1, <2>3 DEF Asks, Ask, Syn
    <2> QED BY <2>2, <2>3
  <1> QED BY <1>2, <1>3, <1>4, Zenon DEF Back

\* A packet is written.
LEMMA LinkWrite ==
  ASSUME TypeOK, Careful, NEW a \in Endpoints, NEW b \in Endpoints, b = Peer(a), Link(a, b), sfpWritePacket(a)
  PROVE  Link(a, b)'
  <1> DEFINE p == [stream |-> stream[a], num |-> written[a] + 1]
             d == [type |-> "USR", seq |-> txSeq[a], packet |-> p]
  <1>1. /\ a # b /\ connectState[a] \in States /\ connectState[b] \in States
        /\ line[a] \in Seq(Frame) /\ line[b] \in Seq(Frame)
        /\ txSeq[a] \in Seq6 /\ history[a] \in Seq(Packet) /\ written[a] \in Nat /\ last[b] \in Packet
        /\ Len(history[a]) <= HISTORY /\ stream[a] \in Nat
    BY Peers, PairTypes
  <1>2. txSeq[b] \in Seq6 /\ history[b] \in Seq(Packet) /\ written[b] \in Nat /\ last[a] \in Packet
    BY PairTypes
  <1>3. p \in Packet /\ d \in Frame
    BY <1>1 DEF Packet, Frame
  <1>4. connectState[a] = "CONNECTED" /\ UNCHANGED <<connectState, rxSeq, stream, last>>
    BY DEF sfpWritePacket
  <1>5. /\ line'[a] = line[a] /\ line'[b] = line[b] \o <<d>>
        /\ history'[a] = PushBack(history[a], p) /\ history'[b] = history[b]
        /\ txSeq'[a] = Plus(txSeq[a], 1) /\ txSeq'[b] = txSeq[b]
        /\ written'[a] = written[a] + 1 /\ written'[b] = written[b]
    <2>1. Append(line[b], d) = line[b] \o <<d>>
      BY <1>1, <1>3, AppendConcat
    <2>2. /\ history' = [history EXCEPT ![a] = PushBack(@, p)]
          /\ line' = [line EXCEPT ![b] = Append(@, d)]
          /\ txSeq' = [txSeq EXCEPT ![a] = Plus(@, 1)]
          /\ written' = [written EXCEPT ![a] = @ + 1]
      BY DEF sfpWritePacket
    <2> HIDE DEF p, d
    <2> QED BY <1>1, <2>1, <2>2 DEF TypeOK
  <1>6. Data(d)
    BY DEF Data
  <1>7. <<d>> \in Seq(Frame) /\ \A f \in Frame : In(<<d>>, f) <=> f = d
    BY <1>3, OneFrame
  <1>8. (\A m : ~ Has(<<d>>, m)) /\ Nak0(<<d>>) /\ Pure(<<d>>) /\ After1(<<d>>)
    BY <1>6, <1>7, DataSummary
  <1>9. Both(connectState'[a], connectState'[b], line'[a], line'[b])
    <2>1. Both(connectState[a], connectState[b], line[a], line[b])
      BY DEF Link
    <2> HIDE DEF p, d
    <2>2. Both(connectState[a], connectState[b], line[a], line[b] \o <<d>>)
      BY <1>1, <1>4, <1>7, <1>8, <2>1, PlainHandshake, Zenon
    <2> QED BY <1>4, <1>5, <2>2
  <1>10. ASSUME IsOpen(connectState[b])
         PROVE  Flow(a, b)' /\ Flow(b, a)'
    <2>1. Flow(a, b) /\ Flow(b, a)
      BY <1>4, <1>10 DEF Link, Half, IsOpen
    <2>2. Transfer(written[a], txSeq[a], history[a], stream[a], rxSeq[b], last[b], line[b], line[a])
      BY <2>1 DEF Flow
    <2>3. Transfer(written[a] + 1, Plus(txSeq[a], 1), PushBack(history[a], p), stream[a], rxSeq[b], last[b],
                   line[b] \o <<d>>, line[a])
      <3>1. /\ (txSeq[a] - rxSeq[b]) % SEQ_RANGE < HISTORY
            /\ \A f \in Frame : (In(line[a], f) /\ Asks(f)) => Back(txSeq[a], f) < HISTORY
        BY CarefulWrite
      <3>2. p = [stream |-> stream[a], num |-> written[a] + 1]
        OBVIOUS
      <3>3. d = [type |-> "USR", seq |-> txSeq[a], packet |-> p]
        OBVIOUS
      <3> HIDE DEF p, d
      <3> QED BY <1>1, <2>2, <3>1, <3>2, <3>3, WriteTransfer, Zenon
    <2>4. \A f \in Frame : In(<<d>>, f) => ~ Asks(f)
      <3>1. ~ Asks(d)
        BY DEF Asks, Syn
      <3> QED BY <1>7, <3>1, Zenon
    <2> HIDE DEF p, d
    <2>5. Transfer(written[b], txSeq[b], history[b], stream[b], rxSeq[a], last[a], line[a], line[b] \o <<d>>)
      BY <1>1, <1>2, <1>7, <2>1, <2>4, AskTransfer DEF Flow
    <2> QED BY <1>4, <1>5, <2>3, <2>5 DEF Flow
  <1> HIDE DEF p, d
  <1>11. Half(a, b)'
    BY <1>4, <1>10 DEF Half
  <1>12. (Fresh(b)' <=> Fresh(b)) /\ (Has(line'[a], SYN0) <=> Has(line[a], SYN0))
    BY <1>4, <1>5 DEF Fresh
  <1>13. Half(b, a)'
    BY <1>4, <1>5, <1>10, <1>12 DEF Link, Half
  <1> QED BY <1>9, <1>11, <1>13 DEF Link

\* A frame that is spoilt or refused.
LEMMA LinkBad ==
  ASSUME TypeOK, NEW a \in Endpoints, NEW b \in Endpoints, b = Peer(a), Link(a, b),
         HandleBad(a) \/ RefuseUSR(a)
  PROVE  Link(a, b)'
  <1>1. line[a] # <<>>
    BY DEF HandleBad, RefuseUSR, IsData, Arrives
  <1>2. UNCHANGED <<connectState, rxSeq, txSeq, history, stream, written, last>>
    BY DEF HandleBad, RefuseUSR
  <1>3. PICK s \in {<<>>, <<Control("NAK", rxSeq[a])>>} : Reply(a, s)
    BY DEF HandleBad, RefuseUSR
  <1> QED BY <1>1, <1>2, <1>3, LinkNak

\* Data and NAKs met by an endpoint that is not connected.
LEMMA LinkNotConnected ==
  ASSUME TypeOK, NEW a \in Endpoints, NEW b \in Endpoints, b = Peer(a), Link(a, b),
         HandleNotConnected(a)
  PROVE  Link(a, b)'
  <1>1. /\ line[a] # <<>>
        /\ connectState[a] \in {"DISCONNECTED", "SENT_SYN0", "SENT_SYN1"}
    BY PairTypes DEF HandleNotConnected, Arrives, States
  <1>2. UNCHANGED <<connectState, rxSeq, txSeq, history, stream, written, last>>
    BY DEF HandleNotConnected
  <1>3. CASE connectState[a] = "DISCONNECTED"
    <2>1. Reply(a, <<Control("SYN", DIS)>>)
      BY <1>3 DEF HandleNotConnected, NotConnectedReply
    <2> QED BY <1>1, <1>2, <1>3, <2>1, LinkAnswer
  <1>4. CASE connectState[a] = "SENT_SYN0"
    <2>1. Reply(a, <<Control("SYN", SYN0)>>)
      BY <1>4 DEF HandleNotConnected, NotConnectedReply
    <2> QED BY <1>1, <1>2, <1>4, <2>1, LinkAnswer
  <1>5. CASE connectState[a] = "SENT_SYN1"
    <2>1. Reply(a, <<Control("SYN", SYN1)>>)
      BY <1>5 DEF HandleNotConnected, NotConnectedReply
    <2> QED BY <1>1, <1>2, <1>5, <2>1, LinkAnswer
  <1> QED BY <1>1, <1>3, <1>4, <1>5

\* A SYN at the head of the line.
LEMMA ArrivedSyn ==
  ASSUME TypeOK, NEW a \in Endpoints, NEW n, ArrivesSYN(a, n)
  PROVE  /\ line[a] # <<>> /\ Syn(Head(line[a]), n) /\ Got(a) = Head(line[a])
         /\ line[a] \in Seq(Frame) /\ Tail(line[a]) \in Seq(Frame) /\ Has(line[a], n)
  <1>1. line[a] # <<>> /\ Syn(Head(line[a]), n) /\ Got(a) = Head(line[a])
    BY DEF ArrivesSYN, Arrives, Got, Syn
  <1>2. line[a] \in Seq(Frame)
    BY PairTypes
  <1> QED BY <1>1, <1>2, TailLine, HeadSummary

\* While a SYN1 of the sender is on the line, the receiver has had no packet.
LEMMA AsksFirst ==
  ASSUME NEW W, NEW tx, NEW h, NEW st, NEW rx, NEW l, NEW q, NEW k,
         Transfer(W, tx, h, st, rx, l, q, k), Has(q, SYN1)
  PROVE  rx = 0
  <1>1. l.num = 0 /\ rx = l.num % SEQ_RANGE
    BY DEF Transfer, Numbers, DataOK
  <1>2. 0 % SEQ_RANGE = 0
    BY Constants
  <1> QED BY <1>1, <1>2

\* The frames that go with a SYN2.
LEMMA Syn2Frames ==
  LET s == <<Control("SYN", SYN2)>> IN
  /\ s \in Seq(Frame)
  /\ \A m : Has(s, m) <=> m = SYN2
  /\ ~ Has(s, SYN0) /\ ~ Has(s, SYN1) /\ ~ Has(s, DIS)
  /\ NoData(s) /\ Nak0(s) /\ Pure(s) /\ After1(s) /\ Before1(s)
  /\ \A f \in Frame : In(s, f) => Ask(f) = 0
  <1> DEFINE s == <<Control("SYN", SYN2)>>
  <1>1. /\ s \in Seq(Frame)
        /\ \A m : Has(s, m) <=> m = SYN2
        /\ NoData(s) /\ Nak0(s) /\ Pure(s) /\ After1(s) /\ Before1(s)
    BY SynSummary, SynNumbers
  <1>2. Control("SYN", SYN2) \in Frame /\ Ask(Control("SYN", SYN2)) = 0
    BY ControlFrame, SynNumbers DEF Ask
  <1>3. \A f \in Frame : In(s, f) => f = Control("SYN", SYN2)
    BY <1>2, OneFrame
  <1>4. ~ Has(s, SYN0) /\ ~ Has(s, SYN1) /\ ~ Has(s, DIS)
    BY <1>1, SynNumbers
  <1> HIDE DEF s
  <1> QED BY <1>1, <1>2, <1>3, <1>4 DEF s

\* A SYN1 connects a; nothing has been written since it started over.
LEMMA LinkSyn1First ==
  ASSUME TypeOK, NEW a \in Endpoints, NEW b \in Endpoints, b = Peer(a), Link(a, b),
         ArrivesSYN(a, SYN1), connectState[a] # "DISCONNECTED",
         Reply(a, <<Control("SYN", SYN2)>>),
         connectState' = [connectState EXCEPT ![a] = "CONNECTED"],
         UNCHANGED <<rxSeq, txSeq, history, stream, written, last>>
  PROVE  Link(a, b)'
  <1> DEFINE s == <<Control("SYN", SYN2)>>
  <1>0. /\ s \in Seq(Frame)
        /\ ~ Has(s, SYN0) /\ ~ Has(s, SYN1) /\ ~ Has(s, DIS)
        /\ NoData(s) /\ Nak0(s) /\ Pure(s) /\ Before1(s)
        /\ \A f \in Frame : In(s, f) => Ask(f) = 0
    BY Syn2Frames
  <1>1. /\ line[a] # <<>> /\ Syn(Head(line[a]), SYN1)
        /\ line[a] \in Seq(Frame) /\ Tail(line[a]) \in Seq(Frame) /\ Has(line[a], SYN1)
    BY ArrivedSyn
  <1> HIDE DEF s
  <1>2. /\ a # b /\ connectState[a] \in States /\ connectState[b] \in States
        /\ line[b] \in Seq(Frame)
    BY Peers, PairTypes
  <1>3. line'[a] = Tail(line[a]) /\ line'[b] = line[b] \o s
    BY <1>0, <1>1, ReplyType DEF s
  <1>4. connectState'[a] = "CONNECTED" /\ connectState'[b] = connectState[b]
    BY <1>2 DEF TypeOK
  <1>5. Both("CONNECTED", connectState[b], Tail(line[a]), line[b] \o s)
    BY <1>0, <1>1, <1>2, Syn1Handshake DEF Link
  <1>6. ASSUME IsOpen(connectState[b])
        PROVE  Flow(a, b)' /\ Flow(b, a)'
    <2>1. CASE IsOpen(connectState[a])
      <3>1. Flow(a, b) /\ Flow(b, a)
        BY <1>6, <2>1 DEF Link, Half
      <3>2. rxSeq[a] = 0
        BY <1>1, <3>1, AsksFirst DEF Flow
      <3>3. /\ Transfer(written[a], txSeq[a], history[a], stream[a], rxSeq[b], last[b],
                        line[b] \o s, Tail(line[a]))
            /\ Transfer(written[b], txSeq[b], history[b], stream[b], rxSeq[a], last[a],
                        Tail(line[a]), line[b] \o s)
        BY <1>0, <1>1, <3>1, <3>2, ReplyFlow
      <3> QED BY <1>3, <3>3 DEF Flow
    <2>2. CASE ~ IsOpen(connectState[a])
      <3>1. connectState[a] = "SENT_SYN0" /\ Quiet(line[b])
        BY <1>2, <2>2 DEF Link, Both, Handshake, States, IsOpen
      <3>2. connectState[b] = "SENT_SYN1" /\ After1(line[a])
        BY <1>1, <1>6, <3>1 DEF Link, Both, Handshake, IsOpen
      <3>3. Fresh(a) /\ Fresh(b)
        BY <3>1, <3>2 DEF Link, Half
      <3>4. NoData(Tail(line[a])) /\ Nak0(Tail(line[a]))
        BY <1>1, <3>2, HeadSummary
      <3>5. NoData(line[b] \o s) /\ Nak0(line[b] \o s)
        BY <1>0, <1>2, <3>1, ConcatSummary DEF Quiet
      <3>6. /\ Transfer(0, 0, <<>>, stream[a], 0, NoPacket, line[b] \o s, Tail(line[a]))
            /\ Transfer(0, 0, <<>>, stream[b], 0, NoPacket, Tail(line[a]), line[b] \o s)
        BY <3>4, <3>5, FreshTransfer
      <3> QED BY <1>3, <3>3, <3>6 DEF Flow, Fresh
    <2> QED BY <2>1, <2>2
  <1>7. (Fresh(b)' <=> Fresh(b)) /\ (Has(line'[a], SYN0) => Has(line[a], SYN0))
    BY <1>1, <1>3, TailSummary DEF Fresh
  <1>8. Half(a, b)'
    BY <1>4, <1>6 DEF Half
  <1>9. Half(b, a)'
    BY <1>4, <1>6, <1>7 DEF Link, Half
  <1> QED BY <1>3, <1>4, <1>5, <1>8, <1>9 DEF Link

\* A SYN1, in every state.
LEMMA LinkSyn1 ==
  ASSUME TypeOK, NEW a \in Endpoints, NEW b \in Endpoints, b = Peer(a), Link(a, b), HandleSYN1(a)
  PROVE  Link(a, b)'
  <1>0. ArrivesSYN(a, SYN1) /\ UNCHANGED <<rxSeq, stream, written, last>>
    BY DEF HandleSYN1
  <1>1. /\ line[a] # <<>> /\ Syn(Head(line[a]), SYN1) /\ Got(a) = Head(line[a])
        /\ line[a] \in Seq(Frame) /\ Tail(line[a]) \in Seq(Frame) /\ Has(line[a], SYN1)
    BY <1>0, ArrivedSyn
  <1>2. CASE connectState[a] = "DISCONNECTED"
    <2>1. Reply(a, <<Control("SYN", DIS)>>) /\ UNCHANGED <<connectState, txSeq, history>>
      BY <1>2 DEF HandleSYN1, Refused
    <2> QED BY <1>0, <1>1, <1>2, <2>1, LinkAnswer
  <1>3. CASE connectState[a] # "DISCONNECTED" /\ txSeq[a] = 0
    <2>1. /\ Reply(a, <<Control("SYN", SYN2)>>) /\ UNCHANGED <<txSeq, history>>
          /\ connectState' = [connectState EXCEPT ![a] = "CONNECTED"]
      BY <1>3 DEF HandleSYN1, Connected
    <2> QED BY <1>0, <1>3, <2>1, LinkSyn1First
  <1>4. CASE connectState[a] # "DISCONNECTED" /\ txSeq[a] # 0
    <2> DEFINE first == <<Control("SYN", SYN2)>>
    <2>1. /\ Resynchronize(a, 0, first)
          /\ connectState' = [connectState EXCEPT ![a] = "CONNECTED"]
      BY <1>4 DEF HandleSYN1, Connected
    <2>2. /\ first \in Seq(Frame)
          /\ \A m : Has(first, m) <=> m = SYN2
          /\ ~ Has(first, SYN0) /\ ~ Has(first, SYN1) /\ ~ Has(first, DIS)
          /\ NoData(first) /\ Nak0(first) /\ Pure(first) /\ Before1(first)
          /\ \A f \in Frame : In(first, f) => Ask(f) = 0
      BY Syn2Frames
    <2> HIDE DEF first
    <2>3. /\ connectState[a] \in States /\ connectState[b] \in States /\ line[b] \in Seq(Frame)
      BY PairTypes
    <2>4. connectState[a] = "CONNECTED" /\ IsOpen(connectState[a])
      BY <1>4, <2>3 DEF Link, Half, Fresh, States, IsOpen
    <2>5. Asks(Got(a)) /\ Ask(Got(a)) = 0
      BY <1>1 DEF Asks, Ask, Syn
    <2>6. IsOpen(connectState[b]) => rxSeq[a] = 0
      BY <1>1, <2>4, AsksFirst DEF Link, Half, Flow
    <2>7. ASSUME NEW s \in Seq(Frame), \A m : Has(s, m) <=> Has(first, m), Pure(s)
          PROVE  Both("CONNECTED", connectState[b], Tail(line[a]), line[b] \o s)
      <3>1. ~ Has(s, SYN0) /\ ~ Has(s, SYN1) /\ ~ Has(s, DIS)
        BY <2>2, <2>7
      <3> QED BY <1>1, <1>4, <2>3, <2>7, <3>1, Syn1Handshake DEF Link
    <2>8. \A f \in Frame : (In(first, f) /\ Asks(f)) => (IsOpen(connectState[b]) => Ask(f) = rxSeq[a])
      BY <2>2, <2>6
    <2>9. Resynchronize(a, Ask(Got(a)), first) /\ Ask(Got(a)) # txSeq[a]
      BY <1>4, <2>1, <2>5
    <2> QED BY <1>0, <1>1, <2>1, <2>2, <2>4, <2>5, <2>7, <2>8, <2>9, LinkResync
  <1> QED BY <1>2, <1>3, <1>4

\* A SYN2 connects a; nothing has been written since it started over.
LEMMA LinkSyn2First ==
  ASSUME TypeOK, NEW a \in Endpoints, NEW b \in Endpoints, b = Peer(a), Link(a, b),
         ArrivesSYN(a, SYN2), IsOpen(connectState[a]), Reply(a, <<>>),
         connectState' = [connectState EXCEPT ![a] = "CONNECTED"],
         UNCHANGED <<rxSeq, txSeq, history, stream, written, last>>
  PROVE  Link(a, b)'
  <1>0. /\ <<>> \in Seq(Frame) /\ (\A m : ~ Has(<<>>, m))
        /\ NoData(<<>>) /\ Pure(<<>>) /\ Before1(<<>>)
        /\ \A f \in Frame : ~ In(<<>>, f)
    BY EmptySummary, NoFrame
  <1>1. /\ line[a] # <<>> /\ Syn(Head(line[a]), SYN2)
        /\ line[a] \in Seq(Frame) /\ Tail(line[a]) \in Seq(Frame)
    BY ArrivedSyn
  <1>2. /\ a # b /\ connectState[a] \in States /\ connectState[b] \in States
        /\ line[b] \in Seq(Frame)
    BY Peers, PairTypes
  <1>3. line'[a] = Tail(line[a]) /\ line'[b] = line[b] \o <<>>
    BY <1>0, <1>1, ReplyType
  <1>4. connectState'[a] = "CONNECTED" /\ connectState'[b] = connectState[b]
    BY <1>2 DEF TypeOK
  <1>5. Both("CONNECTED", connectState[b], Tail(line[a]), line[b] \o <<>>)
    BY <1>0, <1>1, <1>2, Syn2Handshake DEF Link
  <1>6. ASSUME IsOpen(connectState[b])
        PROVE  Flow(a, b)' /\ Flow(b, a)'
    <2>1. Flow(a, b) /\ Flow(b, a)
      BY <1>6 DEF Link, Half
    <2>2. /\ Transfer(written[a], txSeq[a], history[a], stream[a], rxSeq[b], last[b],
                      line[b] \o <<>>, Tail(line[a]))
          /\ Transfer(written[b], txSeq[b], history[b], stream[b], rxSeq[a], last[a],
                      Tail(line[a]), line[b] \o <<>>)
      BY <1>0, <1>1, <2>1, ReplyFlow
    <2> QED BY <1>3, <2>2 DEF Flow
  <1>7. (Fresh(b)' <=> Fresh(b)) /\ (Has(line'[a], SYN0) => Has(line[a], SYN0))
    BY <1>1, <1>3, TailSummary DEF Fresh
  <1>8. Half(a, b)'
    BY <1>4, <1>6 DEF Half
  <1>9. Half(b, a)'
    BY <1>4, <1>6, <1>7 DEF Link, Half
  <1> QED BY <1>3, <1>4, <1>5, <1>8, <1>9 DEF Link

\* A SYN2, in every state.
LEMMA LinkSyn2 ==
  ASSUME TypeOK, NEW a \in Endpoints, NEW b \in Endpoints, b = Peer(a), Link(a, b), HandleSYN2(a)
  PROVE  Link(a, b)'
  <1>0. ArrivesSYN(a, SYN2) /\ UNCHANGED <<rxSeq, stream, written, last>>
    BY DEF HandleSYN2
  <1>1. /\ line[a] # <<>> /\ Syn(Head(line[a]), SYN2) /\ Got(a) = Head(line[a])
        /\ line[a] \in Seq(Frame) /\ Tail(line[a]) \in Seq(Frame)
    BY <1>0, ArrivedSyn
  <1>2. CASE connectState[a] = "DISCONNECTED"
    <2>1. Reply(a, <<Control("SYN", DIS)>>) /\ UNCHANGED <<connectState, txSeq, history>>
      BY <1>2 DEF HandleSYN2, Refused
    <2> QED BY <1>0, <1>1, <1>2, <2>1, LinkAnswer
  <1>3. CASE connectState[a] = "SENT_SYN0"
    <2>1. Reply(a, <<Control("SYN", SYN0)>>) /\ UNCHANGED <<connectState, txSeq, history>>
      BY <1>3 DEF HandleSYN2, Refused
    <2> QED BY <1>0, <1>1, <1>3, <2>1, LinkAnswer
  <1>4. CASE IsOpen(connectState[a])
    <2>1. Connected(a, <<>>)
      BY <1>4 DEF HandleSYN2, IsOpen
    <2>2. CASE txSeq[a] = 0
      BY <1>0, <1>4, <2>1, <2>2, LinkSyn2First DEF Connected
    <2>3. CASE txSeq[a] # 0
      <3>1. /\ Resynchronize(a, 0, <<>>)
            /\ connectState' = [connectState EXCEPT ![a] = "CONNECTED"]
        BY <2>1, <2>3 DEF Connected
      <3>2. /\ <<>> \in Seq(Frame) /\ (\A m : ~ Has(<<>>, m))
            /\ NoData(<<>>) /\ Nak0(<<>>) /\ Pure(<<>>) /\ Before1(<<>>)
            /\ \A f \in Frame : ~ In(<<>>, f)
        BY EmptySummary, NoFrame
      <3>3. /\ connectState[a] \in States /\ connectState[b] \in States /\ line[b] \in Seq(Frame)
        BY PairTypes
      <3>4. Asks(Got(a)) /\ Ask(Got(a)) = 0
        BY <1>1 DEF Asks, Ask, Syn
      <3>5. ASSUME NEW s \in Seq(Frame), \A m : Has(s, m) <=> Has(<<>>, m), Pure(s)
            PROVE  Both("CONNECTED", connectState[b], Tail(line[a]), line[b] \o s)
        <4>1. \A m : ~ Has(s, m)
          BY <3>2, <3>5
        <4> QED BY <1>1, <1>4, <3>3, <3>5, <4>1, Syn2Handshake DEF Link
      <3>6. Resynchronize(a, Ask(Got(a)), <<>>) /\ Ask(Got(a)) # txSeq[a]
        BY <2>3, <3>1, <3>4
      <3> QED BY <1>0, <1>1, <1>4, <3>1, <3>2, <3>4, <3>5, <3>6, LinkResync
    <2> QED BY <2>2, <2>3
  <1> QED BY <1>2, <1>3, <1>4, PairTypes DEF States, IsOpen

\* A SYN0 makes a start over: its peer is waiting for a's first packet, or is
\* not waiting for packets at all.
LEMMA RestartedFlow ==
  ASSUME TypeOK, NEW a \in Endpoints, NEW b \in Endpoints, Link(a, b),
         ArrivesSYN(a, SYN0), IsOpen(connectState[b]), NEW su
  PROVE  LET s == <<Control("SYN", SYN1)>> IN
         /\ Transfer(0, 0, <<>>, su, rxSeq[b], last[b], line[b] \o s, Tail(line[a]))
         /\ Transfer(written[b], txSeq[b], history[b], stream[b], 0, NoPacket, Tail(line[a]), line[b] \o s)
  <1> DEFINE s == <<Control("SYN", SYN1)>>
  <1>0. /\ s \in Seq(Frame) /\ NoData(s) /\ Nak0(s) /\ Before1(s)
        /\ \A f \in Frame : In(s, f) => Ask(f) = 0
    <2>1. Control("SYN", SYN1) \in Frame /\ Ask(Control("SYN", SYN1)) = 0
      BY ControlFrame, SynNumbers DEF Ask
    <2>2. \A f \in Frame : In(s, f) => f = Control("SYN", SYN1)
      BY <2>1, OneFrame
    <2>3. s \in Seq(Frame) /\ NoData(s) /\ Nak0(s) /\ Before1(s)
      BY SynSummary, SynNumbers
    <2> HIDE DEF s
    <2> QED BY <2>1, <2>2, <2>3
  <1> HIDE DEF s
  <1>1. /\ line[a] # <<>> /\ Syn(Head(line[a]), SYN0)
        /\ line[a] \in Seq(Frame) /\ Tail(line[a]) \in Seq(Frame) /\ Has(line[a], SYN0)
    BY ArrivedSyn
  <1>2. /\ connectState[a] \in States /\ connectState[b] \in States /\ line[b] \in Seq(Frame)
        /\ txSeq[a] \in Seq6 /\ history[a] \in Seq(Packet) /\ last[b] \in Packet
    BY PairTypes
  <1>3. CASE connectState[b] = "CONNECTED"
    <2>1. connectState[a] = "SENT_SYN1"
      BY <1>1, <1>3 DEF Link, Both, Handshake
    <2>2. Fresh(a) /\ Flow(a, b) /\ Flow(b, a)
      BY <1>3, <2>1 DEF Link, Half, IsOpen
    <2>3. last[b] = NoPacket /\ NoData(line[b])
      <3>1. Transfer(0, txSeq[a], history[a], stream[a], rxSeq[b], last[b], line[b], line[a])
        BY <2>2, Zenon DEF Flow, Fresh
      <3> DEFINE x == txSeq[a]
                 h == history[a]
                 l == last[b]
      <3>2. x \in Seq6 /\ h \in Seq(Packet) /\ l \in Packet
        BY <1>2, Zenon
      <3>3. Transfer(0, x, h, stream[a], rxSeq[b], l, line[b], line[a])
        BY <3>1, Zenon
      <3> HIDE DEF x, h, l
      <3>4. NoData(line[b]) /\ l = NoPacket
        BY <3>2, <3>3, RestartTransfer
      <3> QED BY <3>4, Zenon DEF l
    <2>4. last[b].num = 0 /\ rxSeq[a] = 0
      BY <2>2, <2>3 DEF NoPacket, Fresh
    <2>5. /\ Transfer(written[a], txSeq[a], history[a], stream[a], rxSeq[b], last[b],
                      line[b] \o s, Tail(line[a]))
          /\ Transfer(written[b], txSeq[b], history[b], stream[b], rxSeq[a], last[a],
                      Tail(line[a]), line[b] \o s)
      BY <1>0, <1>1, <2>2, <2>3, <2>4, ReplyFlow
    <2>6. Transfer(0, txSeq[a], history[a], stream[a], rxSeq[b], last[b], line[b] \o s, Tail(line[a]))
      BY <2>2, <2>5, Zenon DEF Fresh
    <2>7. Transfer(0, txSeq[a], history[a], su, rxSeq[b], last[b], line[b] \o s, Tail(line[a]))
      BY <1>2, <2>6, RestartTransfer, Zenon
    <2> QED BY <2>2, <2>5, <2>7 DEF Fresh, s
  <1>4. CASE connectState[b] = "SENT_SYN1"
    <2>1. /\ connectState[a] \in {"SENT_SYN0", "SENT_SYN1"}
          /\ NoData(line[a]) /\ Nak0(line[a]) /\ NoData(line[b]) /\ Nak0(line[b])
      BY <1>1, <1>2, <1>4 DEF Link, Both, Handshake
    <2>2. Fresh(a) /\ Fresh(b)
      BY <1>4, <2>1 DEF Link, Half
    <2>3. NoData(Tail(line[a])) /\ Nak0(Tail(line[a]))
      BY <1>1, <2>1, TailSummary
    <2>4. NoData(line[b] \o s) /\ Nak0(line[b] \o s)
      BY <1>0, <1>2, <2>1, ConcatSummary
    <2>5. /\ Transfer(0, 0, <<>>, su, 0, NoPacket, line[b] \o s, Tail(line[a]))
          /\ Transfer(0, 0, <<>>, stream[b], 0, NoPacket, Tail(line[a]), line[b] \o s)
      BY <2>3, <2>4, FreshTransfer
    <2> QED BY <2>2, <2>5 DEF Fresh, s
  <1> QED BY <1>2, <1>3, <1>4 DEF IsOpen

\* A SYN0, in every state.
LEMMA LinkSyn0 ==
  ASSUME TypeOK, NEW a \in Endpoints, NEW b \in Endpoints, b = Peer(a), Link(a, b), HandleSYN0(a)
  PROVE  Link(a, b)'
  <1> DEFINE s == <<Control("SYN", SYN1)>>
  <1>0. ArrivesSYN(a, SYN0) /\ StartOver(a) /\ Reply(a, s)
    BY DEF HandleSYN0
  <1>1. /\ line[a] # <<>> /\ Syn(Head(line[a]), SYN0)
        /\ line[a] \in Seq(Frame) /\ Tail(line[a]) \in Seq(Frame) /\ Has(line[a], SYN0)
    BY <1>0, ArrivedSyn
  <1>2. /\ a # b /\ connectState[a] \in States /\ connectState[b] \in States /\ line[b] \in Seq(Frame)
    BY Peers, PairTypes
  <1>3. s \in Seq(Frame)
    BY SynSummary, SynNumbers
  <1> HIDE DEF s
  <1>4. line'[a] = Tail(line[a]) /\ line'[b] = line[b] \o s
    BY <1>0, <1>1, <1>3, ReplyType
  <1>5. connectState'[a] = "SENT_SYN1" /\ connectState'[b] = connectState[b]
    BY <1>2 DEF TypeOK, HandleSYN0
  <1>6. Fresh(a)'
    BY <1>0 DEF Fresh, StartOver, TypeOK
  <1>7. /\ rxSeq'[b] = rxSeq[b] /\ txSeq'[b] = txSeq[b] /\ history'[b] = history[b]
        /\ written'[b] = written[b] /\ last'[b] = last[b] /\ stream'[b] = stream[b]
    BY <1>0, <1>2 DEF StartOver, TypeOK
  <1>8. Both("SENT_SYN1", connectState[b], Tail(line[a]), line[b] \o s)
    BY <1>1, <1>2, Syn0Handshake DEF Link, s
  <1>9. ASSUME IsOpen(connectState[b])
        PROVE  Flow(a, b)' /\ Flow(b, a)'
    <2>1. /\ Transfer(0, 0, <<>>, stream'[a], rxSeq[b], last[b], line[b] \o s, Tail(line[a]))
          /\ Transfer(written[b], txSeq[b], history[b], stream[b], 0, NoPacket,
                      Tail(line[a]), line[b] \o s)
      BY <1>0, <1>9, RestartedFlow DEF s
    <2> QED BY <1>4, <1>6, <1>7, <2>1 DEF Flow, Fresh
  <1>10. (Fresh(b)' <=> Fresh(b)) /\ (Has(line'[a], SYN0) => Has(line[a], SYN0))
    BY <1>1, <1>4, <1>7, TailSummary DEF Fresh
  <1>11. Half(a, b)'
    BY <1>5, <1>6, <1>9 DEF Half
  <1>12. Half(b, a)'
    BY <1>5, <1>7, <1>9, <1>10 DEF Link, Half
  <1> QED BY <1>4, <1>5, <1>8, <1>11, <1>12 DEF Link

\* A DIS, in every state.
LEMMA LinkDis ==
  ASSUME TypeOK, NEW a \in Endpoints, NEW b \in Endpoints, b = Peer(a), Link(a, b), HandleDIS(a)
  PROVE  Link(a, b)'
  <1>0. /\ ArrivesSYN(a, DIS) /\ Reply(a, <<>>)
        /\ UNCHANGED <<rxSeq, txSeq, history, stream, written, last>>
    BY DEF HandleDIS
  <1>1. /\ line[a] # <<>> /\ Syn(Head(line[a]), DIS)
        /\ line[a] \in Seq(Frame) /\ Tail(line[a]) \in Seq(Frame)
    BY <1>0, ArrivedSyn
  <1>2. /\ a # b /\ connectState[a] \in States /\ connectState[b] \in States /\ line[b] \in Seq(Frame)
    BY Peers, PairTypes
  <1>3. line'[a] = Tail(line[a]) /\ line'[b] = line[b]
    <2>1. line'[a] = Tail(line[a]) /\ line'[b] = line[b] \o <<>>
      BY <1>0, <1>1, NoFrame, ReplyType
    <2>2. line[b] \o <<>> = line[b]
      BY <1>2
    <2> QED BY <2>1, <2>2
  <1>4. connectState'[a] = "DISCONNECTED" /\ connectState'[b] = connectState[b]
    BY <1>2 DEF TypeOK, HandleDIS
  <1>5. /\ Both("DISCONNECTED", connectState[b], Tail(line[a]), line[b])
        /\ Has(line[b], SYN0) => connectState[a] # "CONNECTED"
    BY <1>1, <1>2, DisHandshake DEF Link
  <1>6. Has(line[b], SYN0) => rxSeq[a] = 0
    BY <1>2, <1>5 DEF Link, Half, Fresh, States
  <1>7. (Fresh(b)' <=> Fresh(b)) /\ (Has(line'[a], SYN0) => Has(line[a], SYN0))
    BY <1>0, <1>1, <1>3, TailSummary DEF Fresh
  <1>8. Half(a, b)'
    BY <1>0, <1>3, <1>4, <1>6 DEF Half, IsOpen
  <1>9. Half(b, a)'
    BY <1>0, <1>4, <1>7 DEF Link, Half, IsOpen
  <1> QED BY <1>3, <1>4, <1>5, <1>8, <1>9 DEF Link

\* The link invariant holds initially.
LEMMA LinkInit ==
  ASSUME Init
  PROVE  Link(A, B)
  <1>1. /\ connectState[A] = "DISCONNECTED" /\ connectState[B] = "DISCONNECTED"
        /\ line[A] = <<>> /\ line[B] = <<>>
    BY DEF Init, Endpoints
  <1>2. Both(connectState[A], connectState[B], line[A], line[B])
    BY <1>1, StartHandshake DEF States
  <1>3. Half(A, B) /\ Half(B, A)
    BY <1>1, EmptySummary DEF Half, IsOpen
  <1> QED BY <1>2, <1>3 DEF Link

\* Whoever acts.
LEMMA LinkStep ==
  ASSUME TypeOK, Careful, NEW a \in Endpoints, NEW b \in Endpoints, b = Peer(a), Link(a, b),
         \/ sfpInit(a) \/ sfpConnect(a) \/ sfpWritePacket(a)
         \/ sfpHandleFrame(a) \/ Lose(a) \/ Corrupt(a)
  PROVE  Link(a, b)'
  <1>1. CASE sfpInit(a) \/ sfpConnect(a)
    BY <1>1, LinkConnect
  <1>2. CASE sfpWritePacket(a)
    BY <1>2, LinkWrite
  <1>3. CASE Lose(a) \/ Corrupt(a)
    BY <1>3, LinkDamage
  <1>4. CASE HandleBad(a) \/ RefuseUSR(a)
    BY <1>4, LinkBad
  <1>5. CASE HandleNotConnected(a)
    BY <1>5, LinkNotConnected
  <1>6. CASE DeliverUSR(a)
    BY <1>6, LinkDeliver
  <1>7. CASE HandleNAK(a)
    BY <1>7, LinkHandleNAK
  <1>8. CASE HandleSYN0(a)
    BY <1>8, LinkSyn0
  <1>9. CASE HandleSYN1(a)
    BY <1>9, LinkSyn1
  <1>10. CASE HandleSYN2(a)
    BY <1>10, LinkSyn2
  <1>11. CASE HandleDIS(a)
    BY <1>11, LinkDis
  <1> QED BY <1>1, <1>2, <1>3, <1>4, <1>5, <1>6, <1>7, <1>8, <1>9, <1>10, <1>11 DEF sfpHandleFrame

\* Every step keeps the link invariant.
LEMMA LinkNext ==
  ASSUME TypeOK, Careful, Link(A, B), [Next]_vars
  PROVE  Link(A, B)'
  <1>1. A \in Endpoints /\ B \in Endpoints /\ B = Peer(A) /\ A = Peer(B)
    BY SfpAssumption DEF Endpoints, Peer
  <1>2. CASE UNCHANGED vars
    BY <1>2 DEF vars, Link, Half, Fresh, Flow
  <1>3. CASE Next
    <2>1. PICK e \in Endpoints : \/ sfpInit(e) \/ sfpConnect(e) \/ sfpWritePacket(e)
                                 \/ sfpHandleFrame(e) \/ Lose(e) \/ Corrupt(e)
      BY <1>3 DEF Next
    <2>2. CASE e = A
      BY <1>1, <2>1, <2>2, LinkStep
    <2>3. CASE e = B
      <3>1. Link(B, A)
        BY DEF Link, Both
      <3>2. Link(B, A)'
        BY <1>1, <2>1, <2>3, <3>1, LinkStep
      <3> QED BY <3>2 DEF Link, Both
    <2> QED BY <2>2, <2>3 DEF Endpoints
  <1> QED BY <1>2, <1>3

\* What the invariant says of a packet about to be delivered.
LEMMA LinkDelivers ==
  ASSUME TypeOK, NEW a \in Endpoints, NEW b \in Endpoints, Link(a, b), Accepts(a)
  PROVE  Follows(Got(a).packet, last[a])
  <1>1. /\ line[a] # <<>> /\ Data(Got(a)) /\ connectState[a] = "CONNECTED" /\ Got(a).seq = rxSeq[a]
    BY DEF Accepts, IsData, Arrives, Got, Data
  <1>2. /\ line[a] \in Seq(Frame) /\ connectState[b] \in States
        /\ history[b] \in Seq(Packet) /\ written[b] \in Nat /\ last[a] \in Packet
        /\ Len(history[b]) <= HISTORY
    BY PairTypes
  <1>3. Got(a) \in Frame /\ In(line[a], Got(a)) /\ ~ NoData(line[a])
    BY <1>1, <1>2, TailLine, HeadSummary DEF Got
  <1>4. IsOpen(connectState[b])
    BY <1>1, <1>3 DEF Link, Both, Handshake, IsOpen
  <1>5. Flow(b, a)
    BY <1>1, <1>4 DEF Link, Half, IsOpen
  <1>6. Got(a).packet.num = last[a].num + 1 /\ Got(a).packet.stream = stream[b]
    BY <1>1, <1>2, <1>3, <1>5, ExpectedPacket DEF Flow
  <1>7. last[a] = NoPacket \/ last[a].stream = stream[b]
    BY <1>5 DEF Flow, Transfer, Numbers
  <1> QED BY <1>6, <1>7 DEF Follows, NoPacket

\* Between applications that keep within the history, the packet delivered is
\* always the successor of the last one (ExactDelivery), whatever the line
\* damages, loses, and whatever retransmissions, NAKs and SYNs are on their way:
\* for every sequence range, every shorter history and any number of packets.
THEOREM SfpExactDelivery ==
  ASSUME Careful PROVE Spec => []ExactDelivery
  <1>1. ASSUME TypeOK, Link(A, B) PROVE ExactDelivery
    <2>1. Link(B, A) /\ Endpoints = {A, B}
      BY <1>1 DEF Link, Both, Endpoints
    <2>2. \A e \in Endpoints : Accepts(e) => Follows(Got(e).packet, last[e])
      BY <1>1, <2>1, LinkDelivers
    <2> QED BY <2>2 DEF ExactDelivery
  <1>2. Init => TypeOK /\ Link(A, B)
    BY TypeInit, LinkInit
  <1>3. TypeOK /\ Link(A, B) /\ [Next]_vars => (TypeOK /\ Link(A, B))'
    BY TypeNext, LinkNext
  <1> QED BY <1>1, <1>2, <1>3, PTL DEF Spec

-----------------------------------------------------------------------------
(* Quiet means delivered.  While a packet is missing, something on the     *)
(* lines makes up for it: a NAK on its way back, a frame that will be      *)
(* answered with one, or the missing packets themselves, in order.         *)

\* A NAK, a spoilt frame, the newest of W packets are on a line.
Nak(q) == \E f \in Frame : In(q, f) /\ f.type = "NAK"
Spoilt(q) == \E f \in Frame : In(q, f) /\ f.type = "BAD"
Newest(q, W) == \E f \in Frame : In(q, f) /\ f.type = "USR" /\ f.packet.num = W

\* The packets on a line are in order, and those from n + 1 to W among them.
Rising(v) == \A f, g \in Frame : (Before(v, f, g) /\ Data(f) /\ Data(g)) => f.packet.num < g.packet.num
Covers(v, n, W) ==
  \A m \in Nat : (n < m /\ m <= W) => \E f \in Frame : In(v, f) /\ Data(f) /\ f.packet.num = m

\* The end of line q brings the packets from n + 1 to W.
Chain(q, n, W) == \E u, v \in Seq(Frame) : q = u \o v /\ Rising(v) /\ Covers(v, n, W)

\* What will make up for missing packets: they are asked for on line k, they
\* are on line q, or something is there that will be answered with a NAK.
Repair(q, k, n, W) == Nak(k) \/ Spoilt(q) \/ Newest(q, W) \/ Chain(q, n, W)

\* The same behind everything that connects the receiver.
Calm(q) == ~ Has(q, SYN1) /\ ~ Has(q, SYN2)
Later(q, k, n, W) ==
  \/ Calm(q)
  \/ \E u, r \in Seq(Frame) : q = u \o r /\ Calm(r) /\ Repair(r, k, n, W)

\* Taking the head of a line made of two stretches.
LEMMA ConcatTail ==
  ASSUME NEW u \in Seq(Frame), NEW v \in Seq(Frame), u # <<>>
  PROVE  Tail(u \o v) = Tail(u) \o v /\ Tail(u) \in Seq(Frame)
  <1>1. /\ Len(u) \in Nat /\ Len(u) >= 1 /\ Tail(u) \in Seq(Frame) /\ Len(Tail(u)) = Len(u) - 1
        /\ \A i \in 1 .. (Len(u) - 1) : Tail(u)[i] = u[i + 1]
    OBVIOUS
  <1>2. /\ u \o v \in Seq(Frame) /\ Len(v) \in Nat /\ Len(u \o v) = Len(u) + Len(v)
    OBVIOUS
  <1>3. /\ Tail(u \o v) \in Seq(Frame) /\ Len(Tail(u \o v)) = (Len(u) + Len(v)) - 1
        /\ \A i \in 1 .. ((Len(u) + Len(v)) - 1) : Tail(u \o v)[i] = (u \o v)[i + 1]
    BY <1>1, <1>2
  <1>4. /\ Tail(u) \o v \in Seq(Frame) /\ Len(Tail(u) \o v) = (Len(u) + Len(v)) - 1
    BY <1>1, <1>2
  <1>5. ASSUME NEW i \in 1 .. ((Len(u) + Len(v)) - 1)
        PROVE  Tail(u \o v)[i] = (Tail(u) \o v)[i]
    <2>1. CASE i <= Len(u) - 1
      BY <1>1, <1>2, <1>3, <2>1
    <2>2. CASE i > Len(u) - 1
      BY <1>1, <1>2, <1>3, <2>2
    <2> QED BY <1>1, <2>1, <2>2
  <1> QED BY <1>1, <1>3, <1>4, <1>5, SeqEqual

\* What is on a line is its head or behind it.
LEMMA HeadOrTail ==
  ASSUME NEW q \in Seq(Frame), q # <<>>, NEW f, In(q, f)
  PROVE  f = Head(q) \/ In(Tail(q), f)
  <1>1. PICK i \in 1 .. Len(q) : q[i] = f
    BY DEF In
  <1>2. CASE i = 1
    BY <1>1, <1>2
  <1>3. CASE i # 1
    <2>1. i - 1 \in 1 .. Len(Tail(q)) /\ Tail(q)[i - 1] = f
      BY <1>1, <1>3
    <2> QED BY <2>1, Zenon DEF In
  <1> QED BY <1>2, <1>3

\* What makes up for packets still does with frames ahead of it ...
LEMMA RepairSuffix ==
  ASSUME NEW u \in Seq(Frame), NEW r \in Seq(Frame), NEW k, NEW n, NEW W, Repair(r, k, n, W)
  PROVE  Repair(u \o r, k, n, W)
  <1>1. \A f \in Frame : In(r, f) => In(u \o r, f)
    BY ConcatLine
  <1>2. CASE Nak(k)
    BY <1>2 DEF Repair
  <1>3. CASE Spoilt(r)
    BY <1>1, <1>3, Zenon DEF Repair, Spoilt
  <1>4. CASE Newest(r, W)
    BY <1>1, <1>4, Zenon DEF Repair, Newest
  <1>5. CASE Chain(r, n, W)
    <2>1. PICK x, v \in Seq(Frame) : r = x \o v /\ Rising(v) /\ Covers(v, n, W)
      BY <1>5, Zenon DEF Chain
    <2>2. u \o r = (u \o x) \o v
      <3>1. (u \o x) \o v = u \o (x \o v)
        BY ConcatThree, Zenon
      <3> QED BY <2>1, <3>1, Zenon
    <2>3. u \o x \in Seq(Frame)
      BY <2>1, ConcatLine
    <2> QED BY <2>1, <2>2, <2>3, Zenon DEF Repair, Chain
  <1> QED BY <1>2, <1>3, <1>4, <1>5, Zenon DEF Repair

\* ... and with frames behind it that are not data.
LEMMA RepairSend ==
  ASSUME NEW q \in Seq(Frame), NEW s \in Seq(Frame), NoData(s), NEW k, NEW n, NEW W, Repair(q, k, n, W)
  PROVE  Repair(q \o s, k, n, W)
  <1>1. \A f \in Frame : In(q, f) => In(q \o s, f)
    BY ConcatLine
  <1>2. CASE Nak(k)
    BY <1>2 DEF Repair
  <1>3. CASE Spoilt(q)
    BY <1>1, <1>3, Zenon DEF Repair, Spoilt
  <1>4. CASE Newest(q, W)
    BY <1>1, <1>4, Zenon DEF Repair, Newest
  <1>5. CASE Chain(q, n, W)
    <2>1. PICK u, v \in Seq(Frame) : q = u \o v /\ Rising(v) /\ Covers(v, n, W)
      BY <1>5, Zenon DEF Chain
    <2>2. q \o s = u \o (v \o s)
      <3>1. (u \o v) \o s = u \o (v \o s)
        BY ConcatThree, Zenon
      <3> QED BY <2>1, <3>1, Zenon
    <2>3. /\ v \o s \in Seq(Frame)
          /\ \A f \in Frame : In(v, f) => In(v \o s, f)
          /\ \A f, g \in Frame : Before(v \o s, f, g)
                                   => (Before(v, f, g) \/ Before(s, f, g) \/ (In(v, f) /\ In(s, g)))
      BY <2>1, ConcatLine
    <2>4. Covers(v \o s, n, W)
      BY <2>1, <2>3, Zenon DEF Covers
    <2>5. \A f, g \in Frame : Before(s, f, g) => ~ Data(g)
      BY BeforeIn, Zenon DEF NoData
    <2>6. \A g \in Frame : In(s, g) => ~ Data(g)
      BY Zenon DEF NoData
    <2>7. Rising(v \o s)
      BY <2>1, <2>3, <2>5, <2>6, Zenon DEF Rising
    <2> QED BY <2>1, <2>2, <2>3, <2>4, <2>7, Zenon DEF Repair, Chain
  <1> QED BY <1>2, <1>3, <1>4, <1>5, Zenon DEF Repair

\* The packet taken from a chain is the next, or is not one of those missing.
LEMMA ChainTake ==
  ASSUME NEW q \in Seq(Frame), q # <<>>, NEW n \in Nat, NEW W \in Nat, n < W, Chain(q, n, W),
         NEW m \in {n, n + 1}, (Data(Head(q)) /\ Head(q).packet.num = n + 1) => m = n + 1
  PROVE  Chain(Tail(q), m, W)
  <1>0. n \in Nat /\ m \in Nat /\ n <= m
    OBVIOUS
  <1>1. PICK u, v \in Seq(Frame) : q = u \o v /\ Rising(v) /\ Covers(v, n, W)
    BY Zenon DEF Chain
  <1>2. CASE u # <<>>
    <2>1. Tail(q) = Tail(u) \o v /\ Tail(u) \in Seq(Frame)
      BY <1>1, <1>2, ConcatTail
    <2>2. Covers(v, m, W)
      <3>1. \A j \in Nat : m < j => n < j
        BY <1>0
      <3> QED BY <1>1, <3>1, Zenon DEF Covers
    <2> QED BY <1>1, <2>1, <2>2, Zenon DEF Chain
  <1>3. CASE u = <<>>
    <2>1. q = v
      BY <1>1, <1>3, ConcatEmptySeq
    <2>2. /\ Tail(v) \in Seq(Frame) /\ Head(v) \in Frame
          /\ \A f \in Frame : In(Tail(v), f) => (In(v, f) /\ Before(v, Head(v), f))
          /\ \A f, g \in Frame : Before(Tail(v), f, g) => Before(v, f, g)
      BY <2>1, TailLine
    <2>3. Rising(Tail(v))
      BY <1>1, <2>2, Zenon DEF Rising
    <2>4. ASSUME NEW i \in Nat, m < i, i <= W
          PROVE  \E f \in Frame : In(Tail(v), f) /\ Data(f) /\ f.packet.num = i
      <3>0. n < i /\ n + 1 \in Nat /\ n < n + 1 /\ n + 1 <= W
        BY <1>0, <2>4
      <3>1. PICK f \in Frame : In(v, f) /\ Data(f) /\ f.packet.num = i
        BY <1>1, <2>4, <3>0, Zenon DEF Covers
      <3>2. ASSUME f = Head(v)
            PROVE  FALSE
        <4>1. i # n + 1
          BY <1>0, <2>1, <2>4, <3>1, <3>2
        <4>2. PICK g \in Frame : In(v, g) /\ Data(g) /\ g.packet.num = n + 1
          BY <1>1, <3>0, Zenon DEF Covers
        <4>3. g # Head(v)
          BY <3>1, <3>2, <4>1, <4>2
        <4>4. In(Tail(v), g)
          BY <2>1, <4>2, <4>3, HeadOrTail, Zenon
        <4>5. f.packet.num < g.packet.num
          BY <1>1, <2>2, <3>1, <3>2, <4>2, <4>4, Zenon DEF Rising
        <4> QED BY <2>4, <3>0, <3>1, <4>2, <4>5
      <3>3. In(Tail(v), f)
        BY <2>1, <3>1, <3>2, HeadOrTail, Zenon
      <3> QED BY <3>1, <3>3
    <2>5. Covers(Tail(v), m, W)
      BY <2>4, Zenon DEF Covers
    <2>6. Tail(q) = <<>> \o Tail(v) /\ <<>> \in Seq(Frame)
      BY <2>1, <2>2, ConcatEmptySeq, EmptySummary
    <2> QED BY <2>2, <2>3, <2>5, <2>6, Zenon DEF Chain
  <1> QED BY <1>2, <1>3

\* Taking a frame that is no reason for a NAK.
LEMMA RepairTake ==
  ASSUME NEW q \in Seq(Frame), q # <<>>, NEW k, NEW n \in Nat, NEW W \in Nat, n < W, Repair(q, k, n, W),
         NEW m \in {n, n + 1}, (Data(Head(q)) /\ Head(q).packet.num = n + 1) => m = n + 1,
         Head(q).type # "BAD", (Head(q).type = "USR" /\ Head(q).packet.num = W) => FALSE
  PROVE  Repair(Tail(q), k, m, W)
  <1>2. CASE Nak(k)
    BY <1>2 DEF Repair
  <1>3. CASE Spoilt(q)
    BY <1>3, HeadOrTail, Zenon DEF Repair, Spoilt
  <1>4. CASE Newest(q, W)
    BY <1>4, HeadOrTail, Zenon DEF Repair, Newest
  <1>5. CASE Chain(q, n, W)
    BY <1>5, ChainTake, Zenon DEF Repair
  <1> QED BY <1>2, <1>3, <1>4, <1>5, Zenon DEF Repair

\* A receiver that is not connected yet takes a frame; a SYN1 or SYN2 connects
\* it.
LEMMA LaterTake ==
  ASSUME NEW q \in Seq(Frame), q # <<>>, NEW k, NEW n, NEW W, Later(q, k, n, W)
  PROVE  /\ Later(Tail(q), k, n, W)
         /\ (Syn(Head(q), SYN1) \/ Syn(Head(q), SYN2)) => Repair(Tail(q), k, n, W)
  <1>1. Calm(q) => Calm(Tail(q))
    BY TailSummary DEF Calm
  <1>2. (Syn(Head(q), SYN1) \/ Syn(Head(q), SYN2)) => ~ Calm(q)
    BY HeadSummary DEF Calm
  <1>3. CASE Calm(q)
    BY <1>1, <1>2, <1>3, Zenon DEF Later
  <1>4. CASE ~ Calm(q)
    <2>1. PICK u, r \in Seq(Frame) : q = u \o r /\ Calm(r) /\ Repair(r, k, n, W)
      BY <1>4, Zenon DEF Later
    <2>2. u # <<>>
      BY <1>4, <2>1, ConcatEmptySeq
    <2>3. Tail(q) = Tail(u) \o r /\ Tail(u) \in Seq(Frame)
      BY <2>1, <2>2, ConcatTail
    <2>4. Repair(Tail(q), k, n, W)
      BY <2>1, <2>3, RepairSuffix
    <2> QED BY <2>1, <2>3, <2>4, Zenon DEF Later
  <1> QED BY <1>3, <1>4

\* Frames that neither are data nor connect do not matter there either.
LEMMA LaterSend ==
  ASSUME NEW q \in Seq(Frame), NEW s \in Seq(Frame), NoData(s), Calm(s),
         NEW k, NEW n, NEW W, Later(q, k, n, W)
  PROVE  Later(q \o s, k, n, W)
  <1>1. \A r \in Seq(Frame) : Calm(r) => Calm(r \o s)
    BY ConcatSummary DEF Calm
  <1>2. CASE Calm(q)
    BY <1>1, <1>2, Zenon DEF Later
  <1>3. CASE ~ Calm(q)
    <2>1. PICK u, r \in Seq(Frame) : q = u \o r /\ Calm(r) /\ Repair(r, k, n, W)
      BY <1>3, Zenon DEF Later
    <2>2. q \o s = u \o (r \o s) /\ r \o s \in Seq(Frame)
      <3>1. (u \o r) \o s = u \o (r \o s)
        BY ConcatThree, Zenon
      <3>2. r \o s \in Seq(Frame)
        BY ConcatLine, Zenon
      <3> QED BY <2>1, <3>1, <3>2, Zenon
    <2>3. Repair(r \o s, k, n, W) /\ Calm(r \o s)
      BY <1>1, <2>1, RepairSend
    <2> QED BY <2>1, <2>2, <2>3, Zenon DEF Later
  <1> QED BY <1>2, <1>3

\* A NAK or its successor serves a receiver in either state.
LEMMA NakRepairs ==
  ASSUME NEW q \in Seq(Frame), NEW k, NEW kk, NEW n, NEW W
  PROVE  /\ Nak(kk) => (Repair(q, kk, n, W) /\ Later(q, kk, n, W))
         /\ (Nak(k) => Nak(kk)) =>
               /\ Repair(q, k, n, W) => Repair(q, kk, n, W)
               /\ Later(q, k, n, W) => Later(q, kk, n, W)
  <1>1. q = q \o <<>> /\ <<>> \in Seq(Frame) /\ Calm(<<>>)
    BY ConcatEmptySeq, EmptySummary DEF Calm
  <1>2. Nak(kk) => (Repair(q, kk, n, W) /\ Repair(<<>>, kk, n, W))
    BY Zenon DEF Repair
  <1>3. Nak(kk) => Later(q, kk, n, W)
    BY <1>1, <1>2, Zenon DEF Later
  <1>4. ASSUME Nak(k) => Nak(kk)
        PROVE  \A r \in Seq(Frame) : Repair(r, k, n, W) => Repair(r, kk, n, W)
    BY <1>4, Zenon DEF Repair
  <1>5. ASSUME Nak(k) => Nak(kk), Later(q, k, n, W)
        PROVE  Later(q, kk, n, W)
    BY <1>4, <1>5, Zenon DEF Later
  <1> QED BY <1>2, <1>3, <1>4, <1>5, Zenon

\* Frames r at the end of a line that make up for everything.
LEMMA EndRepairs ==
  ASSUME NEW q \in Seq(Frame), NEW r \in Seq(Frame), NEW k, NEW n, NEW W, Calm(r), Repair(r, k, n, W)
  PROVE  Repair(q \o r, k, n, W) /\ Later(q \o r, k, n, W)
  BY RepairSuffix, Zenon DEF Later

\* The frames of a retransmission from packet n + 1 or before.
LEMMA ResentCovers ==
  ASSUME NEW g \in Seq(Packet), NEW to \in Seq6, NEW st, NEW n \in Nat, NEW W \in Nat,
         Ends(g, st, W), W <= n + Len(g)
  PROVE  Calm(Resent(g, to)) /\ Chain(Resent(g, to), n, W)
  <1> DEFINE s == Resent(g, to)
  <1>1. /\ s \in Seq(Frame)
        /\ \A f \in Frame : In(s, f) =>
              \E i \in 1 .. Len(g) : /\ f.type = "RTX" /\ f.packet = g[i]
                                     /\ f.seq = Plus(to, i - 1)
    BY ResentFrames
  <1>2. Len(s) = Len(g) /\ Len(g) \in Nat /\ Len(g) <= W
    BY DEF Resent, Ends
  <1>3. ASSUME NEW i \in 1 .. Len(g)
        PROVE  s[i].type = "RTX" /\ s[i].packet.num = (W - Len(g)) + i
    <2>1. s[i] = [type |-> "RTX", seq |-> Plus(to, i - 1), packet |-> g[i]]
      BY <1>3 DEF Resent
    <2>2. g[i] = [stream |-> st, num |-> (W - Len(g)) + i]
      BY <1>3 DEF Ends
    <2> HIDE DEF s
    <2> QED BY <2>1, <2>2
  <1>4. \A i \in 1 .. Len(g) : s[i] \in Frame
    BY <1>1, <1>2
  <1> HIDE DEF s
  <1>5. Calm(s)
    BY <1>1 DEF Calm, Has, Syn
  <1>6. ASSUME NEW f \in Frame, NEW h \in Frame, Before(s, f, h)
        PROVE  f.packet.num < h.packet.num
    <2>1. PICK i, j \in 1 .. Len(s) : i < j /\ s[i] = f /\ s[j] = h
      BY <1>6, Zenon DEF Before
    <2>2. f.packet.num = (W - Len(g)) + i /\ h.packet.num = (W - Len(g)) + j
      BY <1>2, <1>3, <2>1
    <2> QED BY <1>2, <2>1, <2>2
  <1>7. Rising(s)
    BY <1>6, Zenon DEF Rising
  <1>8. ASSUME NEW m \in Nat, n < m, m <= W
        PROVE  \E f \in Frame : In(s, f) /\ Data(f) /\ f.packet.num = m
    <2> DEFINE i == m - (W - Len(g))
    <2>1. i \in 1 .. Len(g) /\ (W - Len(g)) + i = m
      BY <1>2, <1>8
    <2> HIDE DEF i
    <2>2. s[i] \in Frame /\ In(s, s[i]) /\ s[i].packet.num = m /\ Data(s[i])
      BY <1>2, <1>3, <1>4, <2>1 DEF In, Data
    <2> QED BY <2>2
  <1>9. Covers(s, n, W)
    BY <1>8, Zenon DEF Covers
  <1>10. s = <<>> \o s /\ <<>> \in Seq(Frame)
    BY <1>1, ConcatEmptySeq, EmptySummary
  <1> QED BY <1>1, <1>5, <1>7, <1>9, <1>10, Zenon DEF Chain, s

\* What makes up for packets of a receiver in state sp.
Mends(sp, q, k, n, W) ==
  /\ sp = "CONNECTED" => Repair(q, k, n, W)
  /\ sp = "SENT_SYN1" => Later(q, k, n, W)

\* While packets of e are missing, something on the lines makes up for them.
Heals(e, p) ==
  (/\ IsOpen(connectState[e]) /\ IsOpen(connectState[p])
   /\ intact[e] /\ last[p].num < written[e])
     => Mends(connectState[p], line[p], line[e], last[p].num, written[e])

\* A NAK on a line that is sent to, or taken from.
LEMMA NakOnWay ==
  ASSUME NEW q \in Seq(Frame), NEW s \in Seq(Frame)
  PROVE  /\ Nak(q \o s) <=> (Nak(q) \/ Nak(s))
         /\ (q # <<>> /\ Head(q).type # "NAK" /\ Nak(q)) => Nak(Tail(q))
  <1>1. Nak(q \o s) <=> (Nak(q) \/ Nak(s))
    BY ConcatLine, Zenon DEF Nak
  <1>2. (q # <<>> /\ Head(q).type # "NAK" /\ Nak(q)) => Nak(Tail(q))
    BY HeadOrTail, Zenon DEF Nak
  <1> QED BY <1>1, <1>2

\* A line of one NAK.
LEMMA OneNak ==
  ASSUME NEW n \in Seq6
  PROVE  Nak(<<Control("NAK", n)>>) /\ Calm(<<Control("NAK", n)>>)
  <1>1. Control("NAK", n) \in Frame /\ Control("NAK", n).type = "NAK"
    BY ControlFrame
  <1>2. In(<<Control("NAK", n)>>, Control("NAK", n))
    BY <1>1, OneFrame
  <1> QED BY <1>1, <1>2, NakSummary DEF Nak, Calm

\* Frames without packets: the receiver's prospects are the same.
LEMMA MendsSend ==
  ASSUME NEW sp, NEW q \in Seq(Frame), NEW s \in Seq(Frame), NoData(s), Calm(s),
         NEW k, NEW kk, NEW n, NEW W, Mends(sp, q, k, n, W), Nak(k) => Nak(kk)
  PROVE  Mends(sp, q \o s, kk, n, W)
  <1>1. Mends(sp, q, kk, n, W)
    BY NakRepairs, Zenon DEF Mends
  <1>2. CASE sp = "CONNECTED"
    BY <1>1, <1>2, RepairSend DEF Mends
  <1>3. CASE sp = "SENT_SYN1"
    BY <1>1, <1>3, LaterSend DEF Mends
  <1> QED BY <1>2, <1>3 DEF Mends

\* The receiver's NAK is on its way.
LEMMA HealsNak ==
  ASSUME NEW a \in Endpoints, NEW b \in Endpoints, line'[a] \in Seq(Frame), Nak(line'[b])
  PROVE  Heals(b, a)'
  <1>1. Mends(connectState'[a], line'[a], line'[b], last'[a].num, written'[b])
    BY NakRepairs, Zenon DEF Mends
  <1> QED BY <1>1 DEF Heals

\* The receiver a takes a frame that is not data it could accept.
LEMMA HealsTake ==
  ASSUME TypeOK, NEW a \in Endpoints, NEW b \in Endpoints, Heals(b, a), line[a] # <<>>,
         NEW s \in Seq(Frame), line'[a] = Tail(line[a]), line'[b] = line[b] \o s,
         connectState'[b] = connectState[b], intact'[b] = intact[b],
         written'[b] = written[b], last'[a].num = last[a].num,
         \/ /\ connectState[a] = "SENT_SYN1" /\ connectState'[a] \in {"SENT_SYN1", "CONNECTED"}
            /\ connectState'[a] = "CONNECTED" => (Syn(Got(a), SYN1) \/ Syn(Got(a), SYN2))
         \/ /\ connectState[a] = "CONNECTED" /\ connectState'[a] = "CONNECTED"
            /\ Got(a).type \notin {"BAD", "USR"}
            /\ Data(Got(a)) => Got(a).packet.num # last[a].num + 1
  PROVE  Heals(b, a)'
  <1> DEFINE n == last[a].num
             W == written[b]
             q == line[a]
             k == line[b]
  <1>1. q \in Seq(Frame) /\ q # <<>> /\ k \in Seq(Frame) /\ n \in Nat /\ W \in Nat /\ Got(a) = Head(q)
        /\ Tail(q) \in Seq(Frame)
    BY PairTypes, TailLine DEF Got
  <1> HIDE DEF n, W, q, k
  <1>2. SUFFICES ASSUME IsOpen(connectState[b]), intact[b], n < W
                 PROVE  Mends(connectState'[a], Tail(q), k \o s, n, W)
    BY DEF Heals, n, W, q, k
  <1>3. Mends(connectState[a], q, k, n, W)
    BY <1>2 DEF Heals, IsOpen, n, W, q, k
  <1>4. Nak(k) => Nak(k \o s)
    BY <1>1, NakOnWay
  <1>5. CASE connectState[a] = "SENT_SYN1"
    <2>1. Later(q, k, n, W)
      BY <1>3, <1>5 DEF Mends
    <2>2. /\ Later(Tail(q), k, n, W)
          /\ (Syn(Head(q), SYN1) \/ Syn(Head(q), SYN2)) => Repair(Tail(q), k, n, W)
      BY <1>1, <2>1, LaterTake
    <2>3. /\ Later(Tail(q), k \o s, n, W)
          /\ (Syn(Head(q), SYN1) \/ Syn(Head(q), SYN2)) => Repair(Tail(q), k \o s, n, W)
      BY <1>1, <1>4, <2>2, NakRepairs, Zenon
    <2> QED BY <1>1, <1>5, <2>3 DEF Mends
  <1>6. CASE connectState[a] = "CONNECTED"
    <2>1. Repair(q, k, n, W)
      BY <1>3, <1>6 DEF Mends
    <2>2. /\ Head(q).type # "BAD" /\ Head(q).type # "USR"
          /\ (Data(Head(q)) /\ Head(q).packet.num = n + 1) => n = n + 1
      BY <1>1, <1>6 DEF n
    <2>3. Repair(Tail(q), k, n, W)
      BY <1>1, <1>2, <2>1, <2>2, RepairTake
    <2>4. Repair(Tail(q), k \o s, n, W)
      BY <1>1, <1>4, <2>3, NakRepairs, Zenon
    <2> QED BY <1>6, <2>4 DEF Mends
  <1> QED BY <1>5, <1>6

\* The sender a takes a frame that is no NAK and sends no packets.
LEMMA HealsSend ==
  ASSUME TypeOK, NEW a \in Endpoints, NEW b \in Endpoints, Heals(a, b),
         NEW s \in Seq(Frame), NoData(s), Calm(s), line'[b] = line[b] \o s,
         Nak(line[a]) => Nak(line'[a]),
         IsOpen(connectState'[a]) => IsOpen(connectState[a]), connectState'[b] = connectState[b],
         intact'[a] => intact[a], written'[a] = written[a], last'[b] = last[b]
  PROVE  Heals(a, b)'
  <1>1. line[b] \in Seq(Frame)
    BY PairTypes
  <1>2. SUFFICES ASSUME IsOpen(connectState[a]), IsOpen(connectState[b]), intact[a], last[b].num < written[a]
                 PROVE  Mends(connectState[b], line[b] \o s, line'[a], last[b].num, written[a])
    BY DEF Heals
  <1>3. Mends(connectState[b], line[b], line[a], last[b].num, written[a])
    BY <1>2 DEF Heals
  <1> QED BY <1>1, <1>3, MendsSend

\* An ask for what the sender would send next: nothing is missing.
LEMMA AskMet ==
  ASSUME TypeOK, NEW a \in Endpoints, NEW b \in Endpoints, Flow(a, b), line[a] # <<>>,
         Asks(Got(a)), Ask(Got(a)) = txSeq[a]
  PROVE  ~ (last[b].num < written[a])
  <1>1. /\ txSeq[a] \in Seq6 /\ written[a] \in Nat /\ last[b].num \in Nat
        /\ line[a] \in Seq(Frame)
    BY PairTypes
  <1>2. Got(a) \in Frame /\ In(line[a], Got(a))
    BY <1>1, TailLine DEF Got
  <1>3. Back(txSeq[a], Got(a)) = 0
    <2>1. txSeq[a] - txSeq[a] = 0
      BY <1>1 DEF Seq6
    <2>2. 0 % SEQ_RANGE = 0
      BY Constants
    <2> QED BY <2>1, <2>2 DEF Back
  <1>4. written[a] - last[b].num <= Back(txSeq[a], Got(a))
    BY <1>2, Zenon DEF Flow, Transfer, AsksOK
  <1> QED BY <1>1, <1>3, <1>4

\* The sender a has gone back as far as the receiver needs.
LEMMA HealsResync ==
  ASSUME TypeOK, TypeOK', NEW a \in Endpoints, NEW b \in Endpoints, Link(a, b)', line[a] # <<>>,
         b = Peer(a), NEW to \in Seq6, NEW first \in Seq(Frame), Resynchronize(a, to, first)
  PROVE  Heals(a, b)'
  <1> DEFINE g == Rewound(history[a], txSeq[a], to)
             r == Resent(g, to)
  <1>1. line[b] \in Seq(Frame) /\ history[a] \in Seq(Packet) /\ txSeq[a] \in Seq6
    BY PairTypes
  <1>2. g \in Seq(Packet)
    BY <1>1, RewoundType
  <1>3. history'[a] = g /\ line'[b] = line[b] \o (first \o r)
    <2>1. history' = [history EXCEPT ![a] = g] /\ line'[b] = line[b] \o (first \o r)
      BY ResynchronizeType
    <2>2. DOMAIN history = Endpoints
      BY DEF TypeOK
    <2> HIDE DEF g
    <2> QED BY <2>1, <2>2
  <1>4. r \in Seq(Frame)
    BY <1>2, ResentFrames
  <1>5. SUFFICES ASSUME IsOpen(connectState'[a]), IsOpen(connectState'[b])
                 PROVE  Mends(connectState'[b], line'[b], line'[a], last'[b].num, written'[a])
    BY DEF Heals
  <1> HIDE DEF g
  <1>6. last'[b].num \in Nat /\ written'[a] \in Nat
    BY DEF TypeOK, Packet
  <1>7. /\ Ends(g, stream'[a], written'[a])
        /\ written'[a] <= last'[b].num + Len(g)
    BY <1>3, <1>5 DEF Link, Half, Flow, Transfer, Numbers
  <1>8. Calm(r) /\ Chain(r, last'[b].num, written'[a])
    BY <1>2, <1>6, <1>7, ResentCovers
  <1> HIDE DEF r
  <1>9. line'[b] = (line[b] \o first) \o r /\ line[b] \o first \in Seq(Frame)
    <2>1. (line[b] \o first) \o r = line[b] \o (first \o r)
      BY <1>1, <1>4, ConcatThree, Zenon
    <2>2. line[b] \o first \in Seq(Frame)
      BY <1>1, ConcatLine
    <2> QED BY <1>3, <2>1, <2>2 DEF r
  <1>10. Repair(r, line'[a], last'[b].num, written'[a])
    BY <1>8, Zenon DEF Repair
  <1> QED BY <1>4, <1>8, <1>9, <1>10, EndRepairs DEF Mends

\* Nothing is promised of endpoints that are not open, ...
LEMMA HealsClosed ==
  ASSUME NEW a, NEW b, ~ IsOpen(connectState'[a])
  PROVE  Heals(a, b)' /\ Heals(b, a)'
  BY DEF Heals

\* ... or of one that has written nothing.
LEMMA HealsNothing ==
  ASSUME TypeOK', NEW a \in Endpoints, NEW b \in Endpoints, written'[a] = 0
  PROVE  Heals(a, b)'
  <1>1. last'[b].num \in Nat
    BY DEF TypeOK, Packet
  <1> QED BY <1>1 DEF Heals

\* A packet that is written is the newest.
LEMMA HealsWrite ==
  ASSUME TypeOK, NEW a \in Endpoints, NEW b \in Endpoints, b = Peer(a), Heals(b, a), sfpWritePacket(a)
  PROVE  Heals(a, b)' /\ Heals(b, a)'
  <1> DEFINE p == [stream |-> stream[a], num |-> written[a] + 1]
             d == [type |-> "USR", seq |-> txSeq[a], packet |-> p]
  <1>1. /\ a # b /\ line[a] \in Seq(Frame) /\ line[b] \in Seq(Frame)
        /\ txSeq[a] \in Seq6 /\ written[a] \in Nat /\ stream[a] \in Nat
    BY Peers, PairTypes
  <1>2. p \in Packet /\ d \in Frame /\ d.type = "USR" /\ d.packet.num = written[a] + 1
    BY <1>1 DEF Packet, Frame
  <1>3. UNCHANGED <<connectState, last>>
    BY DEF sfpWritePacket
  <1>4. /\ line'[a] = line[a] /\ line'[b] = line[b] \o <<d>>
        /\ written'[a] = written[a] + 1 /\ written'[b] = written[b]
    <2>1. Append(line[b], d) = line[b] \o <<d>>
      BY <1>1, <1>2, AppendConcat
    <2>2. /\ line' = [line EXCEPT ![b] = Append(@, d)]
          /\ written' = [written EXCEPT ![a] = @ + 1]
      BY DEF sfpWritePacket
    <2> HIDE DEF p, d
    <2> QED BY <1>1, <2>1, <2>2 DEF TypeOK
  <1>5. intact'[b] = intact[b]
    BY <1>1 DEF sfpWritePacket, TypeOK
  <1> HIDE DEF p, d
  <1>6. <<d>> \in Seq(Frame) /\ In(<<d>>, d) /\ (\A m : ~ Has(<<d>>, m))
    <2>1. <<d>> \in Seq(Frame) /\ \A f \in Frame : In(<<d>>, f) <=> f = d
      BY <1>2, OneFrame
    <2>2. Data(d)
      BY <1>2 DEF Data
    <2> QED BY <1>2, <2>1, <2>2, DataSummary
  <1>7. Calm(<<d>>)
    BY <1>6 DEF Calm
  <1>8. Newest(<<d>>, written'[a])
    BY <1>2, <1>4, <1>6, Zenon DEF Newest
  <1>9. Repair(<<d>>, line'[a], last'[b].num, written'[a])
    BY <1>8, Zenon DEF Repair
  <1>10. /\ Repair(line'[b], line'[a], last'[b].num, written'[a])
         /\ Later(line'[b], line'[a], last'[b].num, written'[a])
    BY <1>1, <1>4, <1>6, <1>7, <1>9, EndRepairs
  <1>11. Heals(a, b)'
    BY <1>10 DEF Heals, Mends
  <1>12. Nak(line[b]) => Nak(line'[b])
    <2>1. Nak(line[b] \o <<d>>) <=> (Nak(line[b]) \/ Nak(<<d>>))
      BY <1>1, <1>6, NakOnWay, Zenon
    <2> QED BY <1>4, <2>1
  <1>13. Mends(connectState[a], line[a], line[b], last[a].num, written[b])
           => Mends(connectState[a], line[a], line'[b], last[a].num, written[b])
    BY <1>1, <1>12, NakRepairs, Zenon DEF Mends
  <1>14. Heals(b, a)'
    BY <1>3, <1>4, <1>5, <1>13 DEF Heals
  <1> QED BY <1>11, <1>14

\* Line q with the frame at place i replaced by x.
Put(q, i, x) == [q EXCEPT ![i] = x]

\* What is where then.
LEMMA Replaced ==
  ASSUME NEW q \in Seq(Frame), NEW i \in 1 .. Len(q), NEW x \in Frame
  PROVE  /\ Put(q, i, x) \in Seq(Frame) /\ Len(Put(q, i, x)) = Len(q) /\ Put(q, i, x)[i] = x
         /\ \A j \in 1 .. Len(q) : j # i => Put(q, i, x)[j] = q[j]
  BY DEF Put

\* A frame spoilt in one of two stretches of a line.
LEMMA SpoilStretch ==
  ASSUME NEW u \in Seq(Frame), NEW r \in Seq(Frame), NEW i \in 1 .. Len(u \o r), NEW x \in Frame
  PROVE  \/ /\ i \in 1 .. Len(u)
            /\ Put(u \o r, i, x) = Put(u, i, x) \o r
         \/ /\ i - Len(u) \in 1 .. Len(r)
            /\ Put(u \o r, i, x) = u \o Put(r, i - Len(u), x)
  <1> DEFINE q == u \o r
             t == Put(q, i, x)
  <1>0. Len(u) \in Nat /\ Len(r) \in Nat
    OBVIOUS
  <1>1. /\ Len(u) \in Nat /\ Len(r) \in Nat /\ u \o r \in Seq(Frame) /\ Len(u \o r) = Len(u) + Len(r)
        /\ \A j \in 1 .. Len(u) : (u \o r)[j] = u[j]
        /\ \A j \in 1 .. (Len(u) + Len(r)) : j > Len(u) => (u \o r)[j] = r[j - Len(u)]
    BY Places
  <1>2. /\ t \in Seq(Frame) /\ Len(t) = Len(u) + Len(r) /\ t[i] = x
        /\ \A j \in 1 .. (Len(u) + Len(r)) : j # i => t[j] = (u \o r)[j]
    <2>0. q \in Seq(Frame) /\ i \in 1 .. Len(q) /\ q = u \o r
      BY <1>1
    <2> HIDE DEF q
    <2>1. /\ t \in Seq(Frame) /\ Len(t) = Len(q) /\ t[i] = x
          /\ \A j \in 1 .. Len(q) : j # i => t[j] = q[j]
      BY <2>0, Replaced, Zenon
    <2> HIDE DEF t
    <2> QED BY <1>1, <2>0, <2>1
  <1> HIDE DEF t
  <1>3. CASE i <= Len(u)
    <2> DEFINE w == Put(u, i, x)
    <2>1. /\ w \in Seq(Frame) /\ Len(w) = Len(u) /\ w[i] = x
          /\ \A j \in 1 .. Len(u) : j # i => w[j] = u[j]
      BY <1>1, <1>3, Replaced
    <2> HIDE DEF w
    <2>2. /\ w \o r \in Seq(Frame) /\ Len(w \o r) = Len(u) + Len(r)
          /\ \A j \in 1 .. Len(u) : (w \o r)[j] = w[j]
          /\ \A j \in 1 .. (Len(u) + Len(r)) : j > Len(u) => (w \o r)[j] = r[j - Len(u)]
      <3>1. /\ w \o r \in Seq(Frame) /\ Len(w \o r) = Len(w) + Len(r)
            /\ \A j \in 1 .. Len(w) : (w \o r)[j] = w[j]
            /\ \A j \in 1 .. (Len(w) + Len(r)) : j > Len(w) => (w \o r)[j] = r[j - Len(w)]
        BY <2>1, Places
      <3> QED BY <2>1, <3>1
    <2>3. ASSUME NEW j \in 1 .. (Len(u) + Len(r))
          PROVE  t[j] = (w \o r)[j]
      <3>1. CASE j > Len(u)
        BY <1>1, <1>2, <1>3, <2>2, <3>1
      <3>2. CASE j = i
        BY <1>1, <1>2, <1>3, <2>1, <2>2, <3>2
      <3>3. CASE j <= Len(u) /\ j # i
        <4>1. j \in 1 .. Len(u)
          BY <3>3
        <4> QED BY <1>1, <1>2, <2>1, <2>2, <3>3, <4>1
      <3>4. j > Len(u) \/ j = i \/ (j <= Len(u) /\ j # i)
        BY <1>0
      <3> QED BY <3>1, <3>2, <3>3, <3>4, Zenon
    <2>4. t = w \o r
      BY <1>2, <2>2, <2>3, SeqEqual
    <2> QED BY <1>1, <1>3, <2>4 DEF w, t
  <1>4. CASE i > Len(u)
    <2> DEFINE k == i - Len(u)
               w == Put(r, k, x)
    <2>0. k \in 1 .. Len(r)
      BY <1>1, <1>4
    <2>1. /\ w \in Seq(Frame) /\ Len(w) = Len(r) /\ w[k] = x
          /\ \A j \in 1 .. Len(r) : j # k => w[j] = r[j]
      BY <2>0, Replaced, Zenon
    <2> HIDE DEF w
    <2>2. /\ u \o w \in Seq(Frame) /\ Len(u \o w) = Len(u) + Len(r)
          /\ \A j \in 1 .. Len(u) : (u \o w)[j] = u[j]
          /\ \A j \in 1 .. (Len(u) + Len(r)) : j > Len(u) => (u \o w)[j] = w[j - Len(u)]
      <3>1. /\ u \o w \in Seq(Frame) /\ Len(u \o w) = Len(u) + Len(w)
            /\ \A j \in 1 .. Len(u) : (u \o w)[j] = u[j]
            /\ \A j \in 1 .. (Len(u) + Len(w)) : j > Len(u) => (u \o w)[j] = w[j - Len(u)]
        BY <2>1, Places
      <3> QED BY <2>1, <3>1
    <2>3. ASSUME NEW j \in 1 .. (Len(u) + Len(r))
          PROVE  t[j] = (u \o w)[j]
      <3>1. CASE j <= Len(u)
        BY <1>1, <1>2, <1>4, <2>2, <3>1
      <3>2. CASE j > Len(u)
        <4>1. j - Len(u) \in 1 .. Len(r)
          BY <1>1, <3>2
        <4>2. CASE j = i
          BY <1>2, <2>1, <2>2, <3>2, <4>2
        <4>3. CASE j # i
          <5>1. j - Len(u) # k
            BY <1>1, <4>3
          <5> HIDE DEF k
          <5> QED BY <1>1, <1>2, <2>1, <2>2, <3>2, <4>1, <4>3, <5>1
        <4> QED BY <4>2, <4>3
      <3>3. j <= Len(u) \/ j > Len(u)
        BY <1>0
      <3> QED BY <3>1, <3>2, <3>3, Zenon
    <2>4. t = u \o w
      BY <1>2, <2>2, <2>3, SeqEqual
    <2> QED BY <2>0, <2>4 DEF w, t
  <1> QED BY <1>0, <1>3, <1>4 DEF t

\* A spoilt frame will be answered with a NAK once the receiver is connected.
LEMMA SpoiltRepairs ==
  ASSUME NEW q \in Seq(Frame), NEW i \in 1 .. Len(q), NEW k, NEW n, NEW W
  PROVE  LET t == Put(q, i, Control("BAD", 0)) IN
         /\ Repair(t, k, n, W)
         /\ Later(q, k, n, W) => Later(t, k, n, W)
  <1> DEFINE bad == Control("BAD", 0)
             t == Put(q, i, bad)
  <1>1. bad \in Frame /\ bad.type = "BAD"
    BY BadFrame
  <1> HIDE DEF bad
  <1>2. ASSUME NEW r \in Seq(Frame), NEW j \in 1 .. Len(r)
        PROVE  Repair(Put(r, j, bad), k, n, W)
    <2>1. Len(Put(r, j, bad)) = Len(r) /\ Put(r, j, bad)[j] = bad
      BY <1>1, Replaced
    <2>2. In(Put(r, j, bad), bad)
      BY <2>1 DEF In
    <2> QED BY <1>1, <2>2, Zenon DEF Repair, Spoilt
  <1>3. ASSUME NEW r \in Seq(Frame), NEW j \in 1 .. Len(r)
        PROVE  /\ Put(r, j, bad) \in Seq(Frame)
               /\ Calm(r) => Calm(Put(r, j, bad))
    <2>1. Put(r, j, bad) \in Seq(Frame) /\ Thinner(Put(r, j, bad), r)
      BY CorruptThinner DEF bad, Put
    <2> QED BY <2>1, ThinSummary DEF Calm
  <1>4. ASSUME Later(q, k, n, W)
        PROVE  Later(t, k, n, W)
    <2>1. CASE Calm(q)
      BY <1>3, <2>1 DEF Later
    <2>2. CASE ~ Calm(q)
      <3>1. PICK u, r \in Seq(Frame) : q = u \o r /\ Calm(r) /\ Repair(r, k, n, W)
        BY <1>4, <2>2, Zenon DEF Later
      <3>2. CASE i \in 1 .. Len(u) /\ t = Put(u, i, bad) \o r
        <4>1. Put(u, i, bad) \in Seq(Frame)
          BY <1>3, <3>2
        <4> QED BY <3>1, <3>2, <4>1, Zenon DEF Later
      <3>3. CASE i - Len(u) \in 1 .. Len(r) /\ t = u \o Put(r, i - Len(u), bad)
        <4>1. LET v == Put(r, i - Len(u), bad)
              IN  v \in Seq(Frame) /\ Calm(v) /\ Repair(v, k, n, W)
          BY <1>2, <1>3, <3>1, <3>3
        <4> HIDE DEF t
        <4> QED BY <3>1, <3>3, <4>1, Zenon DEF Later
      <3>4. t = Put(u \o r, i, bad) /\ bad \in Frame /\ i \in 1 .. Len(u \o r)
        BY <1>1, <3>1
      <3> HIDE DEF t
      <3>5. \/ i \in 1 .. Len(u) /\ t = Put(u, i, bad) \o r
            \/ i - Len(u) \in 1 .. Len(r) /\ t = u \o Put(r, i - Len(u), bad)
        <4>1. \/ i \in 1 .. Len(u) /\ Put(u \o r, i, bad) = Put(u, i, bad) \o r
              \/ i - Len(u) \in 1 .. Len(r) /\ Put(u \o r, i, bad) = u \o Put(r, i - Len(u), bad)
          BY <3>4, SpoilStretch
        <4> QED BY <3>4, <4>1, Zenon
      <3> QED BY <3>2, <3>3, <3>5
    <2> QED BY <2>1, <2>2
  <1> QED BY <1>2, <1>4 DEF bad

\* A NAK stays on the line when another frame is spoilt.
LEMMA NakStays ==
  ASSUME NEW q \in Seq(Frame), NEW i \in 1 .. Len(q), q[i].type # "NAK", Nak(q)
  PROVE  Nak(Put(q, i, Control("BAD", 0)))
  <1> DEFINE x == Control("BAD", 0)
             t == Put(q, i, x)
  <1>1. x \in Frame
    BY BadFrame
  <1> HIDE DEF x
  <1>2. Len(t) = Len(q) /\ \A n \in 1 .. Len(q) : n # i => t[n] = q[n]
    BY <1>1, Replaced
  <1> HIDE DEF t
  <1>3. PICK f \in Frame : In(q, f) /\ f.type = "NAK"
    BY DEF Nak
  <1>4. PICK j \in 1 .. Len(q) : q[j] = f
    BY <1>3 DEF In
  <1>5. j # i
    BY <1>3, <1>4
  <1>6. t[j] = f
    BY <1>2, <1>4, <1>5
  <1>7. In(t, f)
    BY <1>2, <1>6 DEF In
  <1>8. Nak(t)
    BY <1>3, <1>7, Zenon DEF Nak
  <1> QED BY <1>8 DEF t, x

\* A frame is spoilt; a NAK that is spoilt is no longer counted on.
LEMMA HealsCorrupt ==
  ASSUME TypeOK, NEW a \in Endpoints, NEW b \in Endpoints, b = Peer(a), Heals(a, b), Heals(b, a), Corrupt(a)
  PROVE  Heals(a, b)' /\ Heals(b, a)'
  <1> DEFINE q == line[a]
  <1>1. a # b /\ q \in Seq(Frame) /\ line[b] \in Seq(Frame)
    BY Peers, PairTypes
  <1>2. PICK i \in 1 .. Len(q) : /\ Damage(a, Put(q, i, Control("BAD", 0)))
                                 /\ intact' = [intact EXCEPT ![a] = @ /\ q[i].type # "NAK"]
    BY DEF Corrupt, Put
  <1> DEFINE t == Put(q, i, Control("BAD", 0))
  <1>3. /\ UNCHANGED <<connectState, written, last>> /\ line'[a] = t /\ line'[b] = line[b]
    <2>1. UNCHANGED <<connectState, written, last>> /\ line' = [line EXCEPT ![a] = t]
      BY <1>2 DEF Damage
    <2> HIDE DEF t
    <2> QED BY <1>1, <2>1 DEF TypeOK
  <1>4. intact'[b] = intact[b] /\ (intact'[a] => (intact[a] /\ q[i].type # "NAK"))
    BY <1>1, <1>2 DEF TypeOK
  <1>5. /\ Repair(t, line[b], last[a].num, written[b])
        /\ Later(q, line[b], last[a].num, written[b]) => Later(t, line[b], last[a].num, written[b])
    BY <1>1, SpoiltRepairs
  <1>6. q[i].type # "NAK" => (Nak(q) => Nak(t))
    BY <1>1, NakStays
  <1> HIDE DEF t
  <1>7. Heals(b, a)'
    BY <1>3, <1>4, <1>5 DEF Heals, Mends
  <1>8. CASE ~ intact'[a]
    BY <1>7, <1>8 DEF Heals
  <1>9. CASE intact'[a]
    <2>1. line'[b] = line[b] \o <<>>
      BY <1>1, <1>3, ConcatEmptySeq
    <2>2. <<>> \in Seq(Frame) /\ NoData(<<>>) /\ Calm(<<>>)
      BY EmptySummary DEF Calm
    <2>3. Nak(line[a]) => Nak(line'[a])
      BY <1>3, <1>4, <1>6, <1>9
    <2>4. Heals(a, b)'
      BY <1>3, <1>4, <1>9, <2>1, <2>2, <2>3, HealsSend
    <2> QED BY <1>7, <2>4
  <1> QED BY <1>8, <1>9

\* a takes a frame from its line: what that does to both lines.
LEMMA Taken ==
  ASSUME TypeOK, NEW a \in Endpoints, NEW b \in Endpoints, b = Peer(a), line[a] # <<>>,
         NEW s \in Seq(Frame), Reply(a, s)
  PROVE  /\ line'[a] = Tail(line[a]) /\ line'[a] \in Seq(Frame)
         /\ line'[b] = line[b] \o s /\ line'[b] \in Seq(Frame)
         /\ Got(a).type # "NAK" => (Nak(line[a]) => Nak(line'[a]))
         /\ Nak(s) => Nak(line'[b])
  <1>1. line[a] \in Seq(Frame) /\ line[b] \in Seq(Frame) /\ Tail(line[a]) \in Seq(Frame)
    BY PairTypes, TailLine
  <1>2. line'[a] = Tail(line[a]) /\ line'[b] = line[b] \o s
    BY ReplyType
  <1>3. line[b] \o s \in Seq(Frame)
    BY <1>1, ConcatLine
  <1>4. Got(a).type # "NAK" => (Nak(line[a]) => Nak(Tail(line[a])))
    BY <1>1, NakOnWay DEF Got
  <1>5. Nak(s) => Nak(line[b] \o s)
    BY <1>1, NakOnWay
  <1> QED BY <1>1, <1>2, <1>3, <1>4, <1>5

\* A frame that a answers with a NAK.
LEMMA HealsAnswer ==
  ASSUME TypeOK, NEW a \in Endpoints, NEW b \in Endpoints, b = Peer(a), Heals(a, b), line[a] # <<>>,
         Got(a).type # "NAK", Reply(a, <<Control("NAK", rxSeq[a])>>),
         UNCHANGED <<connectState, written, last, intact>>
  PROVE  Heals(a, b)' /\ Heals(b, a)'
  <1> DEFINE s == <<Control("NAK", rxSeq[a])>>
  <1>1. rxSeq[a] \in Seq6
    BY PairTypes
  <1>2. s \in Seq(Frame) /\ NoData(s) /\ Nak(s) /\ Calm(s)
    BY <1>1, NakSummary, OneNak
  <1> HIDE DEF s
  <1>3. /\ line'[a] \in Seq(Frame) /\ line'[b] = line[b] \o s
        /\ Nak(line[a]) => Nak(line'[a])
        /\ Nak(line'[b])
    BY <1>2, Taken DEF s
  <1>4. Heals(b, a)'
    BY <1>3, HealsNak
  <1>5. Heals(a, b)'
    BY <1>2, <1>3, HealsSend
  <1> QED BY <1>4, <1>5

\* A spoilt frame.
LEMMA HealsBad ==
  ASSUME TypeOK, NEW a \in Endpoints, NEW b \in Endpoints, b = Peer(a), Heals(a, b), HandleBad(a)
  PROVE  Heals(a, b)' /\ Heals(b, a)'
  <1>1. line[a] # <<>> /\ Got(a).type # "NAK" /\ Reply(a, <<Control("NAK", rxSeq[a])>>)
    BY DEF HandleBad, Arrives, Got
  <1>2. UNCHANGED <<connectState, written, last, intact>>
    BY DEF HandleBad
  <1> QED BY <1>1, <1>2, HealsAnswer

\* A packet that was expected, or a retransmission that was not, leaves the
\* other direction as it is.
LEMMA HealsOther ==
  ASSUME TypeOK, NEW a \in Endpoints, NEW b \in Endpoints, b = Peer(a), Heals(a, b), line[a] # <<>>,
         Got(a).type # "NAK", Reply(a, <<>>), UNCHANGED <<connectState, written, intact>>, last'[b] = last[b]
  PROVE  Heals(a, b)'
  <1>1. <<>> \in Seq(Frame) /\ NoData(<<>>) /\ Calm(<<>>)
    BY EmptySummary DEF Calm
  <1>2. line'[b] = line[b] \o <<>> /\ (Nak(line[a]) => Nak(line'[a]))
    BY <1>1, Taken
  <1> QED BY <1>1, <1>2, HealsSend

\* A packet with the expected number is delivered.
LEMMA HealsDeliver ==
  ASSUME TypeOK, NEW a \in Endpoints, NEW b \in Endpoints, b = Peer(a), Link(a, b),
         Heals(a, b), Heals(b, a), DeliverUSR(a)
  PROVE  Heals(a, b)' /\ Heals(b, a)'
  <1>1. /\ line[a] # <<>> /\ Data(Got(a)) /\ connectState[a] = "CONNECTED" /\ Got(a).seq = rxSeq[a]
        /\ Reply(a, <<>>) /\ Got(a).type \notin {"NAK", "BAD"}
    BY DEF DeliverUSR, Accepts, IsData, Arrives, Got, Data
  <1>2. UNCHANGED <<connectState, written, intact>>
    BY DEF DeliverUSR
  <1>3. a # b /\ line[a] \in Seq(Frame) /\ line[b] \in Seq(Frame) /\ last[a].num \in Nat /\ written[b] \in Nat
        /\ history[b] \in Seq(Packet) /\ Len(history[b]) <= HISTORY /\ last[a] \in Packet
    BY Peers, PairTypes
  <1>4. last'[a] = Got(a).packet /\ last'[b] = last[b]
    BY <1>3 DEF DeliverUSR, TypeOK
  <1>5. Heals(a, b)'
    BY <1>1, <1>2, <1>4, HealsOther
  <1>6. line'[a] = Tail(line[a]) /\ line'[b] = line[b]
    <2>1. line'[a] = Tail(line[a]) /\ line'[b] = line[b] \o <<>>
      BY <1>1, NoFrame, Taken
    <2> QED BY <1>3, <2>1, ConcatEmptySeq
  <1>7. SUFFICES ASSUME IsOpen(connectState[b]), intact[b], Got(a).packet.num < written[b]
                 PROVE  Repair(Tail(line[a]), line[b], Got(a).packet.num, written[b])
    BY <1>1, <1>2, <1>4, <1>5, <1>6 DEF Heals, Mends
  <1>8. Got(a).packet.num = last[a].num + 1
    <2>1. Flow(b, a)
      BY <1>1, <1>7 DEF Link, Half, IsOpen
    <2>2. Got(a) \in Frame /\ In(line[a], Got(a))
      BY <1>1, <1>3, TailLine DEF Got
    <2> QED BY <1>1, <1>3, <2>1, <2>2, ExpectedPacket DEF Flow
  <1>9. last[a].num < written[b] /\ last[a].num + 1 # written[b]
    BY <1>3, <1>7, <1>8
  <1>10. Repair(line[a], line[b], last[a].num, written[b])
    BY <1>1, <1>7, <1>9 DEF Heals, Mends, IsOpen
  <1>11. Repair(Tail(line[a]), line[b], last[a].num + 1, written[b])
    <2>1. /\ Head(line[a]).type # "BAD"
          /\ Head(line[a]).packet.num # written[b]
      BY <1>1, <1>8, <1>9 DEF Got
    <2> QED BY <1>1, <1>3, <1>9, <1>10, <2>1, RepairTake
  <1> QED BY <1>8, <1>11

\* Any other packet is dropped; a retransmission that is dropped was not the
\* next one.
LEMMA HealsRefuse ==
  ASSUME TypeOK, NEW a \in Endpoints, NEW b \in Endpoints, b = Peer(a), Link(a, b),
         Heals(a, b), Heals(b, a), RefuseUSR(a)
  PROVE  Heals(a, b)' /\ Heals(b, a)'
  <1>1. /\ line[a] # <<>> /\ Data(Got(a)) /\ connectState[a] = "CONNECTED" /\ Got(a).seq # rxSeq[a]
        /\ Got(a).type \notin {"NAK", "BAD"}
    BY DEF RefuseUSR, Accepts, IsData, Arrives, Got, Data
  <1>2. UNCHANGED <<connectState, written, last, intact>>
    BY DEF RefuseUSR
  <1>3. CASE Got(a).type = "USR"
    <2>1. Reply(a, <<Control("NAK", rxSeq[a])>>)
      BY <1>1, <1>3 DEF RefuseUSR, Arrives, Got
    <2> QED BY <1>1, <1>2, <2>1, HealsAnswer
  <1>4. CASE Got(a).type # "USR"
    <2>1. Reply(a, <<>>)
      BY <1>1, <1>4 DEF RefuseUSR, Arrives, Got
    <2>2. Heals(a, b)'
      BY <1>1, <1>2, <2>1, HealsOther
    <2>3. line'[a] = Tail(line[a]) /\ line'[b] = line[b] \o <<>> /\ <<>> \in Seq(Frame)
      BY <1>1, <2>1, NoFrame, Taken
    <2>4. CASE ~ IsOpen(connectState[b])
      BY <1>2, <2>2, <2>4 DEF Heals
    <2>5. CASE IsOpen(connectState[b])
      <3>1. Flow(b, a)
        BY <1>1, <2>5 DEF Link, Half, IsOpen
      <3>2. Got(a) \in Frame /\ In(line[a], Got(a)) /\ last[a].num \in Nat
        BY <1>1, PairTypes, TailLine DEF Got
      <3>3. Got(a).seq = (Got(a).packet.num - 1) % SEQ_RANGE /\ rxSeq[a] = last[a].num % SEQ_RANGE
        BY <1>1, <3>1, <3>2, Zenon DEF Flow, Transfer, Numbers, DataOK
      <3>4. Got(a).packet.num # last[a].num + 1
        <4> SUFFICES ASSUME Got(a).packet.num = last[a].num + 1 PROVE FALSE
          OBVIOUS
        <4>1. Got(a).packet.num - 1 = last[a].num
          BY <3>2
        <4> QED BY <1>1, <3>3, <4>1
      <3>5. Heals(b, a)'
        BY <1>1, <1>2, <1>4, <2>3, <3>4, HealsTake
      <3> QED BY <2>2, <3>5
    <2> QED BY <2>4, <2>5
  <1> QED BY <1>3, <1>4

\* Going back is an answer too.
LEMMA Resynced ==
  ASSUME TypeOK, NEW a \in Endpoints, NEW b \in Endpoints, b = Peer(a), line[a] # <<>>,
         NEW to \in Seq6, NEW first \in Seq(Frame), Resynchronize(a, to, first)
  PROVE  \E s \in Seq(Frame) : line'[a] = Tail(line[a]) /\ line'[b] = line[b] \o s
  <1> DEFINE s == first \o Resent(Rewound(history[a], txSeq[a], to), to)
  <1>1. line'[a] = Tail(line[a]) /\ line'[b] = line[b] \o s /\ s \in Seq(Frame)
    BY ResynchronizeType
  <1> HIDE DEF s
  <1> QED BY <1>1

\* a is asked, by a NAK, a SYN1 or a SYN2, to go back, and does, or is there
\* already.
LEMMA HealsAsked ==
  ASSUME TypeOK, TypeOK', NEW a \in Endpoints, NEW b \in Endpoints, b = Peer(a),
         Link(a, b), Link(a, b)', Heals(a, b), Heals(b, a), line[a] # <<>>,
         Asks(Got(a)), IsOpen(connectState[a]),
         Got(a).type = "NAK" => connectState[a] = "CONNECTED",
         NEW first \in Seq(Frame),
         Ask(Got(a)) = txSeq[a] => Reply(a, first),
         Ask(Got(a)) # txSeq[a] => Resynchronize(a, Ask(Got(a)), first),
         connectState'[a] = "CONNECTED", connectState'[b] = connectState[b],
         UNCHANGED <<written, last, intact>>
  PROVE  Heals(a, b)' /\ Heals(b, a)'
  <1> DEFINE to == Ask(Got(a))
  <1>0. Got(a) \in Frame
    BY Arrived
  <1>1. to \in Seq6
    BY <1>0, FrameFields
  <1> HIDE DEF to
  <1>2. PICK s \in Seq(Frame) : line'[a] = Tail(line[a]) /\ line'[b] = line[b] \o s
    <2>1. CASE to = txSeq[a]
      <3>1. Reply(a, first)
        BY <2>1 DEF to
      <3> QED BY <3>1, Taken
    <2>2. CASE to # txSeq[a]
      <3>1. Resynchronize(a, to, first)
        BY <2>2 DEF to
      <3> QED BY <1>1, <3>1, Resynced, Zenon
    <2> QED BY <2>1, <2>2
  <1>3. /\ Got(a).type \notin {"BAD", "USR", "RTX"} /\ ~ Data(Got(a))
        /\ connectState[a] \in {"SENT_SYN1", "CONNECTED"}
        /\ connectState[a] = "SENT_SYN1" => (Syn(Got(a), SYN1) \/ Syn(Got(a), SYN2))
    BY DEF Asks, Syn, Data, IsOpen
  <1>4. Heals(b, a)'
    BY <1>2, <1>3, HealsTake
  <1>5. CASE to = txSeq[a]
    <2>1. CASE IsOpen(connectState[b])
      <3>1. Flow(a, b)
        BY <2>1 DEF Link, Half
      <3>2. ~ (last[b].num < written[a])
        BY <1>5, <3>1, AskMet DEF to
      <3>3. Heals(a, b)'
        BY <3>2 DEF Heals
      <3> QED BY <1>4, <3>3
    <2>2. CASE ~ IsOpen(connectState[b])
      BY <1>4, <2>2 DEF Heals
    <2> QED BY <2>1, <2>2
  <1>6. CASE to # txSeq[a]
    <2>1. Resynchronize(a, to, first)
      BY <1>6 DEF to
    <2>2. Heals(a, b)'
      BY <1>1, <2>1, HealsResync
    <2> QED BY <1>4, <2>2
  <1> QED BY <1>5, <1>6

\* A NAK.
LEMMA HealsHandleNAK ==
  ASSUME TypeOK, TypeOK', NEW a \in Endpoints, NEW b \in Endpoints, b = Peer(a),
         Link(a, b), Link(a, b)', Heals(a, b), Heals(b, a), HandleNAK(a)
  PROVE  Heals(a, b)' /\ Heals(b, a)'
  <1>1. line[a] # <<>> /\ Got(a).type = "NAK" /\ connectState[a] = "CONNECTED"
    BY DEF HandleNAK, Arrives, Got
  <1>2. UNCHANGED <<connectState, written, last, intact>>
    BY DEF HandleNAK
  <1>3. Asks(Got(a)) /\ Ask(Got(a)) = Got(a).seq /\ IsOpen(connectState[a])
    BY <1>1 DEF Asks, Ask, IsOpen
  <1>4. /\ Ask(Got(a)) = txSeq[a] => Reply(a, <<>>)
        /\ Ask(Got(a)) # txSeq[a] => Resynchronize(a, Ask(Got(a)), <<>>)
    BY <1>3 DEF HandleNAK
  <1>5. <<>> \in Seq(Frame)
    BY NoFrame
  <1> QED BY <1>1, <1>2, <1>3, <1>4, <1>5, HealsAsked

\* A SYN1 or SYN2 that connects an endpoint its peer may have written to.
LEMMA HealsConnected ==
  ASSUME TypeOK, TypeOK', NEW a \in Endpoints, NEW b \in Endpoints, b = Peer(a),
         Link(a, b), Link(a, b)', Heals(a, b), Heals(b, a),
         NEW n \in {SYN1, SYN2}, ArrivesSYN(a, n), IsOpen(connectState[a]),
         NEW first \in Seq(Frame), Connected(a, first), UNCHANGED <<written, last, intact>>
  PROVE  Heals(a, b)' /\ Heals(b, a)'
  <1>1. line[a] # <<>> /\ Syn(Got(a), n)
    BY ArrivedSyn
  <1>2. Asks(Got(a)) /\ Ask(Got(a)) = 0 /\ Got(a).type # "NAK"
    BY <1>1 DEF Asks, Ask, Syn
  <1>3. /\ Ask(Got(a)) = txSeq[a] => Reply(a, first)
        /\ Ask(Got(a)) # txSeq[a] => Resynchronize(a, Ask(Got(a)), first)
    BY <1>2 DEF Connected
  <1>4. connectState'[a] = "CONNECTED" /\ connectState'[b] = connectState[b]
    BY Peers DEF Connected, TypeOK
  <1> QED BY <1>1, <1>2, <1>3, <1>4, HealsAsked

\* A SYN1.
LEMMA HealsSyn1 ==
  ASSUME TypeOK, TypeOK', NEW a \in Endpoints, NEW b \in Endpoints, b = Peer(a),
         Link(a, b), Link(a, b)', Heals(a, b), Heals(b, a), HandleSYN1(a)
  PROVE  Heals(a, b)' /\ Heals(b, a)'
  <1>0. ArrivesSYN(a, SYN1) /\ UNCHANGED <<written, last, intact>>
    BY DEF HandleSYN1
  <1>1. a # b /\ connectState[a] \in States /\ connectState[b] \in States /\ Has(line[a], SYN1)
    BY <1>0, Peers, PairTypes, ArrivedSyn
  <1>2. CASE connectState[a] = "DISCONNECTED"
    <2>1. ~ IsOpen(connectState'[a])
      BY <1>2 DEF HandleSYN1, Refused, IsOpen
    <2> QED BY <2>1, HealsClosed
  <1>3. CASE connectState[a] = "SENT_SYN0"
    <2>1. connectState'[b] = connectState[b]
      BY <1>1, <1>3 DEF HandleSYN1, Connected, TypeOK
    <2>2. connectState[b] = "SENT_SYN1"
      BY <1>1, <1>3 DEF Link, Both, Handshake
    <2>3. written[a] = 0 /\ written[b] = 0
      BY <1>3, <2>2 DEF Link, Half, Fresh
    <2> QED BY <1>0, <2>3, HealsNothing
  <1>4. CASE IsOpen(connectState[a])
    <2>1. Connected(a, <<Control("SYN", SYN2)>>)
      BY <1>4 DEF HandleSYN1, IsOpen
    <2>2. <<Control("SYN", SYN2)>> \in Seq(Frame)
      BY Syn2Frames
    <2> QED BY <1>0, <1>4, <2>1, <2>2, HealsConnected
  <1> QED BY <1>1, <1>2, <1>3, <1>4 DEF States, IsOpen

\* A SYN2.
LEMMA HealsSyn2 ==
  ASSUME TypeOK, TypeOK', NEW a \in Endpoints, NEW b \in Endpoints, b = Peer(a),
         Link(a, b), Link(a, b)', Heals(a, b), Heals(b, a), HandleSYN2(a)
  PROVE  Heals(a, b)' /\ Heals(b, a)'
  <1>0. ArrivesSYN(a, SYN2) /\ UNCHANGED <<written, last, intact>>
    BY DEF HandleSYN2
  <1>1. connectState[a] \in States
    BY PairTypes
  <1>2. CASE ~ IsOpen(connectState[a])
    <2>1. ~ IsOpen(connectState'[a])
      BY <1>1, <1>2 DEF HandleSYN2, Refused, IsOpen, States
    <2> QED BY <2>1, HealsClosed
  <1>3. CASE IsOpen(connectState[a])
    <2>1. Connected(a, <<>>)
      BY <1>3 DEF HandleSYN2, IsOpen
    <2>2. <<>> \in Seq(Frame)
      BY NoFrame
    <2> QED BY <1>0, <1>3, <2>1, <2>2, HealsConnected
  <1> QED BY <1>2, <1>3

\* A SYN0: a has nothing to send any more, and its peer has nothing for it yet or
\* sees no change.
LEMMA HealsSyn0 ==
  ASSUME TypeOK, TypeOK', NEW a \in Endpoints, NEW b \in Endpoints, b = Peer(a),
         Link(a, b), Heals(b, a), HandleSYN0(a)
  PROVE  Heals(a, b)' /\ Heals(b, a)'
  <1> DEFINE s == <<Control("SYN", SYN1)>>
  <1>0. ArrivesSYN(a, SYN0) /\ StartOver(a) /\ Reply(a, s)
    BY DEF HandleSYN0
  <1>1. line[a] # <<>> /\ Has(line[a], SYN0)
    BY <1>0, ArrivedSyn
  <1>2. /\ a # b /\ connectState[a] \in States /\ connectState[b] \in States /\ line[b] \in Seq(Frame)
    BY Peers, PairTypes
  <1>3. s \in Seq(Frame)
    BY SynSummary, SynNumbers
  <1> HIDE DEF s
  <1>4. line'[a] = Tail(line[a]) /\ line'[b] = line[b] \o s
    BY <1>0, <1>1, <1>3, Taken
  <1>5. connectState'[a] = "SENT_SYN1" /\ connectState'[b] = connectState[b] /\ intact' = intact
    BY <1>2 DEF TypeOK, HandleSYN0
  <1>6. written'[a] = 0 /\ written'[b] = written[b] /\ last'[a].num = 0
    BY <1>0, <1>2 DEF StartOver, TypeOK, NoPacket
  <1>7. Heals(a, b)'
    BY <1>6, HealsNothing
  <1>8. CASE ~ IsOpen(connectState[b])
    BY <1>5, <1>7, <1>8 DEF Heals
  <1>9. CASE connectState[b] = "CONNECTED"
    <2>1. connectState[a] = "SENT_SYN1"
      BY <1>1, <1>9 DEF Link, Both, Handshake
    <2>2. last[a].num = 0
      BY <2>1 DEF Link, Half, Fresh, NoPacket
    <2>3. Heals(b, a)'
      BY <1>1, <1>3, <1>4, <1>5, <1>6, <2>1, <2>2, HealsTake
    <2> QED BY <1>7, <2>3
  <1>10. CASE connectState[b] = "SENT_SYN1"
    <2>1. written[b] = 0
      BY <1>10 DEF Link, Half, Fresh
    <2>2. Heals(b, a)'
      BY <1>6, <2>1, HealsNothing
    <2> QED BY <1>7, <2>2
  <1> QED BY <1>8, <1>9, <1>10 DEF IsOpen

\* Data and NAKs met by an endpoint that is not connected.
LEMMA HealsNotConnected ==
  ASSUME TypeOK, TypeOK', NEW a \in Endpoints, NEW b \in Endpoints, b = Peer(a),
         Link(a, b), Heals(b, a), HandleNotConnected(a)
  PROVE  Heals(a, b)' /\ Heals(b, a)'
  <1>1. line[a] # <<>> /\ connectState[a] \in States /\ connectState[a] # "CONNECTED"
    BY PairTypes DEF HandleNotConnected, Arrives
  <1>2. UNCHANGED <<connectState, written, last, intact>>
    BY DEF HandleNotConnected
  <1>3. CASE connectState[a] = "SENT_SYN1"
    <2> DEFINE s == <<Control("SYN", SYN1)>>
    <2>1. Reply(a, s)
      BY <1>3 DEF HandleNotConnected, NotConnectedReply
    <2>2. s \in Seq(Frame)
      BY SynSummary, SynNumbers
    <2> HIDE DEF s
    <2>3. line'[a] = Tail(line[a]) /\ line'[b] = line[b] \o s
      BY <1>1, <2>1, <2>2, Taken
    <2>4. Heals(b, a)'
      BY <1>1, <1>2, <1>3, <2>2, <2>3, HealsTake
    <2>5. written'[a] = 0
      BY <1>2, <1>3 DEF Link, Half, Fresh
    <2> QED BY <2>4, <2>5, HealsNothing
  <1>4. CASE ~ IsOpen(connectState[a])
    BY <1>2, <1>4, HealsClosed
  <1> QED BY <1>1, <1>3, <1>4 DEF IsOpen, States

\* Whoever acts.
LEMMA HealsStep ==
  ASSUME TypeOK, TypeOK', NEW a \in Endpoints, NEW b \in Endpoints, b = Peer(a),
         Link(a, b), Link(a, b)', Heals(a, b), Heals(b, a),
         \/ sfpInit(a) \/ sfpConnect(a) \/ sfpWritePacket(a)
         \/ sfpHandleFrame(a) \/ Lose(a) \/ Corrupt(a)
  PROVE  Heals(a, b)' /\ Heals(b, a)'
  <1>1. CASE sfpInit(a) \/ sfpConnect(a) \/ HandleDIS(a)
    <2>1. ~ IsOpen(connectState'[a])
      BY <1>1 DEF sfpInit, sfpConnect, HandleDIS, IsOpen, TypeOK
    <2> QED BY <2>1, HealsClosed
  <1>2. CASE sfpWritePacket(a)
    BY <1>2, HealsWrite
  <1>3. CASE Lose(a)
    BY <1>3 DEF Lose, Heals
  <1>4. CASE Corrupt(a)
    BY <1>4, HealsCorrupt
  <1>5. CASE HandleBad(a)
    BY <1>5, HealsBad
  <1>6. CASE RefuseUSR(a)
    BY <1>6, HealsRefuse
  <1>7. CASE HandleNotConnected(a)
    BY <1>7, HealsNotConnected
  <1>8. CASE DeliverUSR(a)
    BY <1>8, HealsDeliver
  <1>9. CASE HandleNAK(a)
    BY <1>9, HealsHandleNAK
  <1>10. CASE HandleSYN0(a)
    BY <1>10, HealsSyn0
  <1>11. CASE HandleSYN1(a)
    BY <1>11, HealsSyn1
  <1>12. CASE HandleSYN2(a)
    BY <1>12, HealsSyn2
  <1> QED BY <1>1, <1>2, <1>3, <1>4, <1>5, <1>6, <1>7, <1>8, <1>9, <1>10, <1>11, <1>12
          DEF sfpHandleFrame

\* Every step leaves something on the lines that makes up for what is missing.
LEMMA HealsNext ==
  ASSUME TypeOK, TypeOK', Link(A, B), Link(A, B)', Heals(A, B), Heals(B, A), [Next]_vars
  PROVE  Heals(A, B)' /\ Heals(B, A)'
  <1>1. A \in Endpoints /\ B \in Endpoints /\ B = Peer(A) /\ A = Peer(B)
    BY SfpAssumption DEF Endpoints, Peer
  <1>2. CASE UNCHANGED vars
    BY <1>2 DEF vars, Heals
  <1>3. CASE Next
    <2>1. PICK e \in Endpoints : \/ sfpInit(e) \/ sfpConnect(e) \/ sfpWritePacket(e)
                                 \/ sfpHandleFrame(e) \/ Lose(e) \/ Corrupt(e)
      BY <1>3 DEF Next
    <2>2. CASE e = A
      BY <1>1, <2>1, <2>2, HealsStep
    <2>3. CASE e = B
      <3>1. Link(B, A) /\ Link(B, A)'
        BY DEF Link, Both
      <3> QED BY <1>1, <2>1, <2>3, <3>1, HealsStep
    <2> QED BY <2>2, <2>3 DEF Endpoints
  <1> QED BY <1>2, <1>3

\* Empty lines make up for nothing.
LEMMA NothingRepairs ==
  ASSUME NEW n \in Nat, NEW W \in Nat, n < W
  PROVE  ~ Repair(<<>>, <<>>, n, W)
  <1>1. ~ Nak(<<>>) /\ ~ Spoilt(<<>>) /\ ~ Newest(<<>>, W)
    BY NoFrame, Zenon DEF Nak, Spoilt, Newest
  <1>2. ASSUME Chain(<<>>, n, W)
        PROVE  FALSE
    <2>1. PICK u, v \in Seq(Frame) : <<>> = u \o v /\ Rising(v) /\ Covers(v, n, W)
      BY <1>2, Zenon DEF Chain
    <2>2. n < n + 1 /\ n + 1 <= W /\ n + 1 \in Nat
      OBVIOUS
    <2>3. PICK f \in Frame : In(v, f)
      BY <2>1, <2>2, Zenon DEF Covers
    <2>4. In(u \o v, f)
      BY <2>1, <2>3, ConcatLine
    <2> QED BY <2>1, <2>4, NoFrame
  <1> QED BY <1>1, <1>2, Zenon DEF Repair

\* What the invariants say of a quiet connection.
LEMMA HealsQuiet ==
  ASSUME TypeOK, NEW a \in Endpoints, NEW b \in Endpoints, Link(a, b), Heals(a, b),
         line[a] = <<>>, line[b] = <<>>,
         connectState[a] = "CONNECTED", connectState[b] = "CONNECTED", intact[a], written[a] > 0
  PROVE  last[b] = [stream |-> stream[a], num |-> written[a]]
  <1>1. last[b] \in Packet /\ last[b].num \in Nat /\ written[a] \in Nat
    BY PairTypes
  <1>2. ~ (last[b].num < written[a])
    <2> SUFFICES ASSUME last[b].num < written[a] PROVE FALSE
      OBVIOUS
    <2>1. Repair(<<>>, <<>>, last[b].num, written[a])
      BY DEF Heals, Mends, IsOpen
    <2> QED BY <1>1, <2>1, NothingRepairs
  <1>3. /\ last[b].num <= written[a]
        /\ last[b] = NoPacket \/ last[b].stream = stream[a]
    BY DEF Link, Half, Flow, Transfer, Numbers, IsOpen
  <1>4. last[b].num = written[a] /\ last[b] # NoPacket
    BY <1>1, <1>2, <1>3 DEF NoPacket
  <1> QED BY <1>1, <1>3, <1>4 DEF Packet

\* Between applications that keep within the history, once both lines are empty
\* and both ends connected, every packet written has been delivered, unless a
\* frame vanished or a NAK was spoilt since the last was written
\* (QuietMeansDelivered): the NAKs and retransmissions the code sends are enough.
THEOREM SfpQuietMeansDelivered ==
  ASSUME Careful PROVE Spec => []QuietMeansDelivered
  <1> DEFINE Inv == TypeOK /\ Link(A, B) /\ Heals(A, B) /\ Heals(B, A)
  <1>1. Inv => QuietMeansDelivered
    <2> SUFFICES ASSUME Inv, \A e \in Endpoints : line[e] = <<>> /\ connectState[e] = "CONNECTED",
                        NEW e \in Endpoints, intact[e], written[e] > 0
                 PROVE  last[Peer(e)] = [stream |-> stream[e], num |-> written[e]]
      BY DEF QuietMeansDelivered
    <2>1. Link(B, A)
      BY DEF Link, Both
    <2>2. A \in Endpoints /\ B \in Endpoints /\ B = Peer(A) /\ A = Peer(B) /\ (e = A \/ e = B)
      BY SfpAssumption DEF Endpoints, Peer
    <2>3. CASE e = A
      BY <2>2, <2>3, HealsQuiet
    <2>4. CASE e = B
      BY <2>1, <2>2, <2>4, HealsQuiet
    <2> QED BY <2>2, <2>3, <2>4
  <1>2. Init => Inv
    <2> SUFFICES ASSUME Init PROVE Heals(A, B) /\ Heals(B, A)
      BY TypeInit, LinkInit
    <2> QED BY DEF Init, Heals, IsOpen, Endpoints
  <1>3. Inv /\ [Next]_vars => Inv'
    BY TypeNext, LinkNext, HealsNext
  <1> QED BY <1>1, <1>2, <1>3, PTL DEF Spec
=============================================================================
