------------------------- MODULE FrameDecoderProofs -------------------------
(***************************************************************************)
(* Proofs about FrameDecoder, for every size of bytes, headers, messages   *)
(* and input.  There is no induction theorem the provers can use: what     *)
(* needs induction looks for the least number at which something fails     *)
(* (LeastNatural, from the well-foundedness of finite subsets).            *)
(***************************************************************************)
EXTENDS FrameDecoder, FiniteSetTheorems, SequenceTheorems, TLAPS

\* A set of natural numbers has a least one.
LEMMA LeastNatural ==
  ASSUME NEW T, T \subseteq Nat, T # {}
  PROVE  \E x \in T : \A y \in T : x <= y
<1> DEFINE F == {0..n - 1 : n \in T}
<1>1. F \subseteq FiniteSubsetsOf(Nat)
  <2> SUFFICES ASSUME NEW n \in T PROVE 0..n - 1 \in FiniteSubsetsOf(Nat)
    OBVIOUS
  <2>1. n - 1 \in Int /\ n \in Nat
    OBVIOUS
  <2>2. IsFiniteSet(0..n - 1)
    BY <2>1, FS_Interval
  <2>3. 0..n - 1 \in SUBSET Nat
    BY <2>1
  <2> QED BY <2>2, <2>3 DEF FiniteSubsetsOf
<1>2. PICK X \in F : \A Y \in F : <<Y, X>> \notin StrictSubsetOrdering(Nat)
  <2>1. F # {}
    OBVIOUS
  <2> HIDE DEF F
  <2> QED BY <1>1, <2>1, FS_StrictSubsetOrderingWellFounded, WFMin
<1>3. PICK x \in T : X = 0..x - 1
  BY <1>2
<1>4. SUFFICES ASSUME NEW y \in T, y < x PROVE FALSE
  OBVIOUS
<1>5. 0..y - 1 \subseteq X /\ 0..y - 1 # X
  <2>1. y \in 0..x - 1 /\ y \notin 0..y - 1
    BY <1>4
  <2> QED BY <1>3, <1>4, <2>1
<1>6. <<0..y - 1, X>> \in StrictSubsetOrdering(Nat)
  <2>1. 0..y - 1 \in SUBSET Nat /\ X \in SUBSET Nat
    BY <1>3
  <2> QED BY <1>5, <2>1 DEF StrictSubsetOrdering
<1> QED
  BY <1>2, <1>6

\* Dividing twice is dividing by the product.
LEMMA FloorOfFloor ==
  ASSUME NEW n \in Nat, NEW w \in Nat \ {0}, NEW b \in Nat \ {0}
  PROVE  (n \div w) \div b = n \div (b * w)
<1> DEFINE q == n \div w
           r == n % w
           p == q \div b
           s == q % b
<1>1. q \in Nat /\ r \in 0..w - 1 /\ n = q * w + r
  OBVIOUS
<1>2. p \in Nat /\ s \in 0..b - 1 /\ q = p * b + s
  BY <1>1
<1> HIDE DEF q, r, p, s
<1>3. n = p * (b * w) + (s * w + r)
  BY <1>1, <1>2
<1>4. s * w + r \in 0..b * w - 1
  <2>1. (b - 1 - s) * w >= 0 /\ s * w >= 0
    BY <1>1, <1>2
  <2>2. (b - 1 - s) * w = b * w - w - s * w
    BY <1>1, <1>2
  <2> QED BY <1>1, <1>2, <2>1, <2>2
<1>5. ASSUME NEW d \in Nat \ {0}, NEW x \in Nat, NEW t \in 0..d - 1
      PROVE  (x * d + t) \div d = x
  OBVIOUS
<1>6. b * w \in Nat \ {0}
  OBVIOUS
<1>7. n \div (b * w) = p
  BY <1>2, <1>3, <1>4, <1>5, <1>6
<1> QED
  BY <1>7 DEF p, q

\* The weights of the bytes of a header are positive.
LEMMA WeightPositive ==
  ASSUME NEW i \in 1..HeaderBytes + 1
  PROVE  Weight[i] \in Nat \ {0}
<1> SUFFICES ASSUME Weight[i] = 0 PROVE FALSE
  BY FrameAssumption
<1> DEFINE T == {k \in 1..HeaderBytes + 1 : Weight[k] = 0}
<1>1. PICK x \in T : \A y \in T : x <= y
  <2>1. T \subseteq Nat
    BY FrameAssumption
  <2>2. i \in T
    OBVIOUS
  <2> HIDE DEF T
  <2> QED BY <2>1, <2>2, LeastNatural
<1>2. x # 1
  BY FrameAssumption
<1>3. x - 1 \in 1..HeaderBytes /\ Weight[x - 1] \in Nat \ {0}
  BY <1>1, <1>2, FrameAssumption
<1>4. Weight[(x - 1) + 1] = Base * Weight[x - 1]
  BY <1>3, FrameAssumption
<1>5. Base * Weight[x - 1] # 0
  BY <1>3, FrameAssumption
<1>6. (x - 1) + 1 = x
  BY <1>3, FrameAssumption
<1>7. Weight[x] = 0
  BY <1>1
<1> QED
  BY <1>4, <1>5, <1>6, <1>7

\* A header is HeaderBytes bytes.
LEMMA HeaderType ==
  ASSUME NEW n \in Lengths
  PROVE  Header(n) \in [1..HeaderBytes -> Bytes]
<1> SUFFICES ASSUME NEW i \in 1..HeaderBytes PROVE (n \div Weight[i]) % Base \in Bytes
  BY DEF Header
<1>1. Weight[i] \in Nat \ {0} /\ Base \in Nat \ {0} /\ n \in Nat
  BY WeightPositive, FrameAssumption DEF Lengths
<1>2. n \div Weight[i] \in Nat
  BY <1>1
<1> QED
  BY <1>1, <1>2 DEF Bytes

\* The byte of a header that a weight belongs to is what the division by the next weight leaves
\* of the division by this one.
LEMMA Quotients ==
  ASSUME NEW n \in Lengths
  PROVE  /\ n \div Weight[1] = n
         /\ n \div Weight[HeaderBytes + 1] = 0
         /\ \A i \in 1..HeaderBytes :
              /\ n \div Weight[i] \in Nat
              /\ n \div Weight[i + 1] \in Nat
              /\ n \div Weight[i + 1] = (n \div Weight[i]) \div Base
              /\ n \div Weight[i] = Base * (n \div Weight[i + 1]) + Header(n)[i]
<1>1. n \in Nat /\ n \div Weight[1] = n
  BY FrameAssumption, WeightPositive DEF Lengths
<1>2. n \div Weight[HeaderBytes + 1] = 0
  <2>1. HeaderBytes + 1 \in 1..HeaderBytes + 1
    BY FrameAssumption
  <2>2. Weight[HeaderBytes + 1] \in Nat \ {0}
    BY <2>1, WeightPositive
  <2>3. n \in 0..Weight[HeaderBytes + 1] - 1
    BY DEF Lengths
  <2>4. ASSUME NEW w \in Nat \ {0}, n \in 0..w - 1 PROVE n \div w = 0
    BY <2>4
  <2> QED BY <2>2, <2>3, <2>4
<1>3. ASSUME NEW i \in 1..HeaderBytes
      PROVE  /\ n \div Weight[i] \in Nat
             /\ n \div Weight[i + 1] \in Nat
             /\ n \div Weight[i + 1] = (n \div Weight[i]) \div Base
             /\ n \div Weight[i] = Base * (n \div Weight[i + 1]) + Header(n)[i]
  <2>1. i \in 1..HeaderBytes + 1 /\ i + 1 \in 1..HeaderBytes + 1
    BY FrameAssumption
  <2>2. Weight[i] \in Nat \ {0} /\ Base \in Nat \ {0} /\ Weight[i + 1] = Base * Weight[i]
    BY <2>1, WeightPositive, FrameAssumption
  <2>3. n \div Weight[i + 1] = (n \div Weight[i]) \div Base
    BY <1>1, <2>2, FloorOfFloor
  <2>4. n \div Weight[i] \in Nat
    BY <1>1, <2>2
  <2>5. (n \div Weight[i]) \div Base \in Nat
       /\ n \div Weight[i] = Base * ((n \div Weight[i]) \div Base) + ((n \div Weight[i]) % Base)
    BY <2>2, <2>4
  <2> QED
    BY <2>3, <2>4, <2>5 DEF Header
<1> QED
  BY <1>1, <1>2, <1>3

\* Two lengths have different headers: from the last byte to the first, the quotients are the same.
LEMMA HeaderOneToOne ==
  ASSUME NEW m \in Lengths, NEW n \in Lengths, Header(m) = Header(n)
  PROVE  m = n
<1> SUFFICES ASSUME m # n PROVE FALSE
  OBVIOUS
<1> DEFINE T == {k \in 0..HeaderBytes :
                  m \div Weight[HeaderBytes + 1 - k] # n \div Weight[HeaderBytes + 1 - k]}
<1>1. HeaderBytes \in T
  <2>1. HeaderBytes + 1 - HeaderBytes = 1
    BY FrameAssumption
  <2> QED BY <2>1, Quotients, FrameAssumption
<1>2. PICK x \in T : \A y \in T : x <= y
  <2>1. T \subseteq Nat
    BY FrameAssumption
  <2> HIDE DEF T
  <2> QED BY <1>1, <2>1, LeastNatural
<1>3. x # 0
  BY Quotients, FrameAssumption
<1>4. x - 1 \in 0..HeaderBytes /\ x - 1 \notin T
  <2>1. x \in 1..HeaderBytes
    BY <1>2, <1>3, FrameAssumption
  <2>2. x - 1 \in T => x <= x - 1
    BY <1>2
  <2> HIDE DEF T
  <2> QED BY <2>1, <2>2, FrameAssumption
<1> DEFINE i == HeaderBytes + 1 - x
<1>5. i \in 1..HeaderBytes /\ HeaderBytes + 1 - (x - 1) = i + 1
  BY <1>2, <1>3, FrameAssumption
<1>6. m \div Weight[i + 1] = n \div Weight[i + 1]
  BY <1>4, <1>5
<1>7. m \div Weight[i] = n \div Weight[i]
  <2> HIDE DEF i
  <2> QED BY <1>5, <1>6, Quotients
<1> QED
  BY <1>2, <1>7

\* Every header is the header of a length: the digits add up.
LEMMA HeaderOnto ==
  ASSUME NEW h \in [1..HeaderBytes -> Bytes]
  PROVE  \E n \in Lengths : Header(n) = h
<1> DEFINE Sums(q, k) ==
             /\ q \in [HeaderBytes + 1 - k..HeaderBytes + 1 -> Nat]
             /\ q[HeaderBytes + 1] = 0
             /\ \A j \in HeaderBytes + 1 - k..HeaderBytes :
                  q[j] = Base * q[j + 1] + h[j]
           T == {k \in 0..HeaderBytes : ~ \E q : Sums(q, k)}
<1>1. ASSUME NEW k \in 0..HeaderBytes - 1, NEW q, Sums(q, k)
      PROVE  \E p : Sums(p, k + 1)
  <2> DEFINE a == HeaderBytes - k
             p == [j \in a..HeaderBytes + 1 |-> IF j = a THEN Base * q[a + 1] + h[a] ELSE q[j]]
  <2>1. a \in 1..HeaderBytes /\ HeaderBytes + 1 - (k + 1) = a /\ HeaderBytes + 1 - k = a + 1
    BY FrameAssumption
  <2>2. q \in [a + 1..HeaderBytes + 1 -> Nat] /\ q[HeaderBytes + 1] = 0
        /\ \A j \in a + 1..HeaderBytes : q[j] = Base * q[j + 1] + h[j]
    BY <1>1, <2>1
  <2> HIDE DEF a
  <2>3. Base * q[a + 1] + h[a] \in Nat
    <3>1. h[a] \in Bytes
      BY <2>1
    <3>4. h[a] \in Nat
      BY <3>1, FrameAssumption DEF Bytes
    <3>2. a + 1 \in a + 1..HeaderBytes + 1
      BY <2>1, FrameAssumption
    <3>3. q[a + 1] \in Nat /\ Base \in Nat
      BY <2>2, <3>2, FrameAssumption
    <3> QED BY <3>3, <3>4
  <2>4. p \in [a..HeaderBytes + 1 -> Nat]
    <3>1. ASSUME NEW j \in a..HeaderBytes + 1, j # a PROVE j \in a + 1..HeaderBytes + 1
      BY <2>1, <3>1, FrameAssumption
    <3> QED BY <2>2, <2>3, <3>1
  <2>5. p[HeaderBytes + 1] = 0 /\ p[a] = Base * q[a + 1] + h[a]
    BY <2>1, <2>2, FrameAssumption
  <2>6. \A j \in a + 1..HeaderBytes + 1 : p[j] = q[j]
    BY <2>1, FrameAssumption
  <2>7. ASSUME NEW j \in a..HeaderBytes PROVE p[j] = Base * p[j + 1] + h[j]
    <3>1. CASE j = a
      <4>1. p[a + 1] = q[a + 1]
        BY <2>1, <2>6, FrameAssumption
      <4> QED BY <2>5, <3>1, <4>1
    <3>2. CASE j # a
      <4>1. HeaderBytes \in Nat
        BY FrameAssumption
      <4>2. a \in Nat
        BY <2>1, <4>1
      <4>3. j \in Nat /\ a < j /\ j <= HeaderBytes
        BY <3>2, <4>1, <4>2
      <4>4. j \in a + 1..HeaderBytes /\ j \in a + 1..HeaderBytes + 1 /\ j + 1 \in a + 1..HeaderBytes + 1
        BY <4>3, <4>1, <4>2
      <4> QED BY <2>2, <2>6, <4>4
    <3> QED BY <3>1, <3>2
  <2> HIDE DEF p
  <2> QED BY <2>1, <2>4, <2>5, <2>7
<1>2. T = {}
  <2> SUFFICES ASSUME NEW t \in T PROVE FALSE
    OBVIOUS
  <2>1. PICK x \in T : \A y \in T : x <= y
    <3>1. T \subseteq Nat
      BY FrameAssumption
    <3> HIDE DEF T
    <3> QED BY <3>1, LeastNatural
  <2>2. x \in 0..HeaderBytes /\ ~ \E q : Sums(q, x)
    BY <2>1
  <2>3. x # 0
    <3>1. Sums([j \in HeaderBytes + 1 - 0..HeaderBytes + 1 |-> 0], 0)
      BY FrameAssumption
    <3> QED BY <2>2, <3>1
  <2>4. x - 1 \in 0..HeaderBytes - 1 /\ (x - 1) + 1 = x /\ ~(x <= x - 1)
    BY <2>2, <2>3, FrameAssumption
  <2>5. x - 1 \notin T
    BY <2>1, <2>4
  <2>6. \E q : Sums(q, x - 1)
    <3>1. x - 1 \in 0..HeaderBytes
      BY <2>4, FrameAssumption
    <3> HIDE DEF Sums
    <3> QED BY <2>5, <3>1
  <2> HIDE DEF Sums
  <2> QED BY <1>1, <2>2, <2>4, <2>6
<1>3. PICK q \in [1..HeaderBytes + 1 -> Nat] :
        /\ q[HeaderBytes + 1] = 0
        /\ \A j \in 1..HeaderBytes : q[j] = Base * q[j + 1] + h[j]
  <2>1. HeaderBytes \in 0..HeaderBytes /\ HeaderBytes + 1 - HeaderBytes = 1
    BY FrameAssumption
  <2>2. \E p : Sums(p, HeaderBytes)
    BY <1>2, <2>1
  <2> QED BY <2>1, <2>2
<1> DEFINE n == q[1]
<1>4. n \in Nat
  BY FrameAssumption
<1>5. ASSUME NEW j \in 1..HeaderBytes
      PROVE  /\ q[j] \div Base = q[j + 1]
             /\ q[j] % Base = h[j]
  <2>1. q[j + 1] \in Nat /\ Base \in Nat \ {0}
    <3>1. j + 1 \in 1..HeaderBytes + 1
      BY FrameAssumption
    <3> QED BY <3>1, FrameAssumption
  <2>3. h[j] \in 0..Base - 1
    BY DEF Bytes
  <2>2. ASSUME NEW b \in Nat \ {0}, NEW x \in Nat, NEW d \in 0..b - 1
        PROVE  (b * x + d) \div b = x /\ (b * x + d) % b = d
    OBVIOUS
  <2>4. q[j] = Base * q[j + 1] + h[j]
    BY <1>3
  <2>5. (Base * q[j + 1] + h[j]) \div Base = q[j + 1] /\ (Base * q[j + 1] + h[j]) % Base = h[j]
    BY <2>1, <2>2, <2>3
  <2> QED BY <2>4, <2>5
<1> DEFINE U == {j \in 1..HeaderBytes + 1 : q[j] # n \div Weight[j]}
<1>6. U = {}
  <2> SUFFICES ASSUME NEW u \in U PROVE FALSE
    OBVIOUS
  <2>1. PICK x \in U : \A y \in U : x <= y
    <3>1. U \subseteq Nat
      BY FrameAssumption
    <3> HIDE DEF U
    <3> QED BY <3>1, LeastNatural
  <2>2. x \in 1..HeaderBytes + 1 /\ q[x] # n \div Weight[x]
    BY <2>1
  <2>3. x # 1
    BY <1>4, <2>2, FrameAssumption
  <2> DEFINE j == x - 1
  <2>4. j \in 1..HeaderBytes /\ j \in 1..HeaderBytes + 1 /\ j + 1 = x /\ ~(x <= j)
    BY <2>2, <2>3, FrameAssumption
  <2>5. j \notin U
    BY <2>1, <2>4
  <2>6. q[j] = n \div Weight[j]
    BY <2>4, <2>5
  <2> HIDE DEF j, n
  <2>7. Weight[j] \in Nat \ {0} /\ Base \in Nat \ {0} /\ Weight[j + 1] = Base * Weight[j]
    BY <2>4, WeightPositive, FrameAssumption
  <2>8. n \div Weight[j + 1] = (n \div Weight[j]) \div Base
    BY <1>4, <2>7, FloorOfFloor
  <2> QED BY <1>5, <2>2, <2>4, <2>6, <2>8
<1>7. n \in Lengths
  <2>1. HeaderBytes + 1 \in 1..HeaderBytes + 1
    BY FrameAssumption
  <2>2. n \div Weight[HeaderBytes + 1] = 0 /\ Weight[HeaderBytes + 1] \in Nat \ {0}
    BY <1>3, <1>6, <2>1, WeightPositive
  <2>3. ASSUME NEW w \in Nat \ {0}, NEW m \in Nat, m \div w = 0 PROVE m \in 0..w - 1
    BY <2>3
  <2> HIDE DEF n
  <2> QED BY <1>4, <2>2, <2>3 DEF Lengths
<1>8. ASSUME NEW j \in 1..HeaderBytes PROVE Header(n)[j] = h[j]
  <2>1. j \in 1..HeaderBytes + 1
    BY FrameAssumption
  <2>2. q[j] = n \div Weight[j]
    BY <1>6, <2>1
  <2>3. Header(n)[j] = (n \div Weight[j]) % Base
    BY DEF Header
  <2> QED BY <1>5, <2>2, <2>3
<1>9. Header(n) = h
  <2> HIDE DEF n
  <2>1. Header(n) \in [1..HeaderBytes -> Bytes]
    BY <1>7, HeaderType
  <2> DEFINE g == Header(n)
  <2>2. g \in [1..HeaderBytes -> Bytes] /\ \A j \in 1..HeaderBytes : g[j] = h[j]
    BY <1>8, <2>1
  <2> HIDE DEF g
  <2>3. g = [j \in 1..HeaderBytes |-> g[j]] /\ h = [j \in 1..HeaderBytes |-> h[j]]
    BY <2>2
  <2>4. [j \in 1..HeaderBytes |-> g[j]] = [j \in 1..HeaderBytes |-> h[j]]
    BY <2>2
  <2>5. g = h
    BY <2>3, <2>4, Zenon
  <2> QED BY <2>5 DEF g
<1> QED
  BY <1>7, <1>9

\* Decoding a header and encoding a length are inverses of each other.
LEMMA HeaderRoundTrip ==
  /\ \A n \in Lengths : LengthOf(Header(n)) = n
  /\ \A h \in [1..HeaderBytes -> Bytes] : LengthOf(h) \in Lengths /\ Header(LengthOf(h)) = h
<1>1. ASSUME NEW h \in [1..HeaderBytes -> Bytes]
      PROVE  LengthOf(h) \in Lengths /\ Header(LengthOf(h)) = h
  BY HeaderOnto DEF LengthOf
<1>2. ASSUME NEW n \in Lengths PROVE LengthOf(Header(n)) = n
  BY <1>1, HeaderType, HeaderOneToOne
<1> QED
  BY <1>1, <1>2

-----------------------------------------------------------------------------
(* Bytes, bodies and frames *)

\* What the assumptions say of bytes, headers and lengths.
LEMMA ByteFacts ==
  /\ Bytes \subseteq Nat /\ 0 \in Bytes
  /\ HeaderBytes \in Nat \ {0} /\ MaxMessage \in Nat \ {0}
  /\ 1..MaxMessage \subseteq Lengths
  /\ Messages \subseteq Bodies
<1>1. HeaderBytes + 1 \in 1..HeaderBytes + 1
  BY FrameAssumption
<1>2. Weight[HeaderBytes + 1] \in Nat \ {0}
  BY <1>1, WeightPositive
<1>3. MaxMessage \in Nat \ {0} /\ MaxMessage <= Weight[HeaderBytes + 1] - 1
  BY <1>2, FrameAssumption
<1>4. 1..MaxMessage \subseteq Lengths
  BY <1>2, <1>3 DEF Lengths
<1>5. Bytes \subseteq Nat /\ 0 \in Bytes
  BY FrameAssumption DEF Bytes
<1> QED
  BY <1>3, <1>4, <1>5, FrameAssumption

\* A body is a sequence of bytes whose length a header can tell.
LEMMA BodyType ==
  ASSUME NEW b \in Bodies
  PROVE  /\ b \in Seq(Bytes) /\ Len(b) \in 1..MaxMessage /\ Len(b) \in Lengths
         /\ b \in [1..Len(b) -> Bytes]
<1>1. PICK n \in 1..MaxMessage : b \in [1..n -> Bytes]
  BY DEF Bodies
<1>2. n \in Nat
  BY ByteFacts
<1>3. b \in Seq(Bytes) /\ Len(b) = n
  BY <1>1, <1>2
<1> QED
  BY <1>1, <1>3, ByteFacts

\* A header is a sequence of HeaderBytes bytes.
LEMMA HeaderSeq ==
  ASSUME NEW n \in Lengths
  PROVE  Header(n) \in Seq(Bytes) /\ Len(Header(n)) = HeaderBytes
<1>1. Header(n) \in [1..HeaderBytes -> Bytes] /\ HeaderBytes \in Nat
  BY HeaderType, ByteFacts
<1> QED
  BY <1>1

\* A frame is the header of the length and then the body.
LEMMA FrameType ==
  ASSUME NEW b \in Bodies
  PROVE  /\ Frame(b) \in Seq(Bytes)
         /\ Len(Frame(b)) = HeaderBytes + Len(b)
         /\ \A i \in 1..HeaderBytes : Frame(b)[i] = Header(Len(b))[i]
         /\ \A i \in 1..Len(b) : Frame(b)[HeaderBytes + i] = b[i]
<1>1. b \in Seq(Bytes) /\ Len(b) \in Nat
  BY BodyType, ByteFacts
<1>2. Header(Len(b)) \in Seq(Bytes) /\ Len(Header(Len(b))) = HeaderBytes /\ HeaderBytes \in Nat
  BY HeaderSeq, BodyType, ByteFacts
<1> DEFINE h == Header(Len(b))
<1> HIDE DEF h
<1>3. h \in Seq(Bytes) /\ Len(h) = HeaderBytes
  BY <1>2 DEF h
<1>4. /\ h \o b \in Seq(Bytes) /\ Len(h \o b) = HeaderBytes + Len(b)
      /\ \A i \in 1..HeaderBytes + Len(b) :
           (h \o b)[i] = IF i <= HeaderBytes THEN h[i] ELSE b[i - HeaderBytes]
  BY <1>1, <1>3, ConcatProperties
<1>5. \A i \in 1..HeaderBytes : (h \o b)[i] = h[i]
  BY <1>1, <1>2, <1>4
<1>6. ASSUME NEW i \in 1..Len(b) PROVE (h \o b)[HeaderBytes + i] = b[i]
  <2>1. HeaderBytes + i \in 1..HeaderBytes + Len(b) /\ ~(HeaderBytes + i <= HeaderBytes)
        /\ (HeaderBytes + i) - HeaderBytes = i
    BY <1>1, <1>2
  <2> QED BY <1>4, <2>1
<1> QED
  BY <1>4, <1>5, <1>6 DEF Frame, h

\* A prefix is shorter and agrees byte by byte.
LEMMA PrefixIsPointwise ==
  ASSUME NEW s \in Seq(Bytes), NEW t \in Seq(Bytes)
  PROVE  IsPrefix(s, t) <=> Len(s) <= Len(t) /\ \A i \in 1..Len(s) : s[i] = t[i]
<1>1. SubSeq(s, 1, Len(s)) = s
  BY SubSeqFull
<1>2. ASSUME Len(s) <= Len(t)
      PROVE  /\ SubSeq(t, 1, Len(s)) \in Seq(Bytes) /\ Len(SubSeq(t, 1, Len(s))) = Len(s)
             /\ \A i \in 1..Len(s) : SubSeq(t, 1, Len(s))[i] = t[i]
  <2>1. Len(s) \in Nat /\ Len(t) \in Nat /\ \A i \in 1..Len(t) : t[i] \in Bytes
    OBVIOUS
  <2>2. \A i \in 1..Len(s) : t[i] \in Bytes
    BY <1>2, <2>1
  <2>3. /\ SubSeq(t, 1, Len(s)) \in Seq(Bytes)
        /\ Len(SubSeq(t, 1, Len(s))) = IF 1 <= Len(s) THEN Len(s) - 1 + 1 ELSE 0
        /\ \A i \in 1..Len(s) - 1 + 1 : SubSeq(t, 1, Len(s))[i] = t[1 + i - 1]
    BY <2>1, <2>2, SubSeqProperties
  <2>4. \A i \in 1..Len(s) : i \in 1..Len(s) - 1 + 1 /\ 1 + i - 1 = i
    BY <2>1
  <2> QED BY <2>1, <2>3, <2>4
<1>3. ASSUME Len(s) <= Len(t), \A i \in 1..Len(s) : s[i] = t[i]
      PROVE  s = SubSeq(t, 1, Len(s))
  BY <1>2, <1>3, SeqEqual
<1> QED
  BY <1>1, <1>2, <1>3 DEF IsPrefix

\* A frame that begins r, or that r begins, has the header r has.
LEMMA SameHeader ==
  ASSUME NEW b \in Bodies, NEW r \in Seq(Bytes), NEW n \in Lengths, Len(r) >= HeaderBytes,
         \A i \in 1..HeaderBytes : r[i] = Header(n)[i],
         IsPrefix(Frame(b), r) \/ IsPrefix(r, Frame(b))
  PROVE  Len(b) = n
<1>1. HeaderBytes \in Nat /\ Len(r) \in Nat /\ Len(b) \in Nat
  BY ByteFacts, BodyType
<1>2. \A i \in 1..HeaderBytes : Frame(b)[i] = r[i]
  <2>1. \A i \in 1..HeaderBytes : i \in 1..Len(r) /\ i \in 1..Len(Frame(b))
    BY <1>1, FrameType
  <2> QED BY <2>1, FrameType, PrefixIsPointwise
<1>3. \A i \in 1..HeaderBytes : Header(Len(b))[i] = Header(n)[i]
  BY <1>2, FrameType
<1>4. Header(Len(b)) = Header(n)
  <2>1. Len(b) \in Lengths
    BY BodyType
  <2>2. Header(Len(b)) \in Seq(Bytes) /\ Header(n) \in Seq(Bytes)
        /\ Len(Header(Len(b))) = HeaderBytes /\ Len(Header(n)) = HeaderBytes
    BY <2>1, HeaderSeq
  <2> QED BY <1>3, <2>2, SeqEqual
<1> QED
  BY <1>4, BodyType, HeaderOneToOne

\* A header that tells no length of a body begins nothing that is a frame.
LEMMA BadLength ==
  ASSUME NEW r \in Seq(Bytes), NEW n \in Lengths \ (1..MaxMessage), Len(r) >= HeaderBytes,
         \A i \in 1..HeaderBytes : r[i] = Header(n)[i]
  PROVE  What(r) = "bad"
<1>1. r # <<>> /\ ~(Len(r) < HeaderBytes)
  BY ByteFacts
<1>2. \A b \in Bodies : ~IsPrefix(Frame(b), r) /\ ~IsPrefix(r, Frame(b))
  BY SameHeader, BodyType
<1>3. \A m \in Messages : ~IsPrefix(Frame(m), r)
  BY <1>2, ByteFacts
<1>4. \A b \in Bodies : ~IsStrictPrefix(r, Frame(b))
  BY <1>2 DEF IsStrictPrefix
<1> QED
  BY <1>1, <1>3, <1>4 DEF What

\* Two bodies whose frames begin the same bytes are the same; a whole frame begins no other.
LEMMA PrefixFree ==
  ASSUME NEW b \in Bodies, NEW c \in Bodies, NEW r \in Seq(Bytes), IsPrefix(Frame(c), r)
  PROVE  /\ IsPrefix(Frame(b), r) => b = c
         /\ ~IsStrictPrefix(r, Frame(b))
<1>1. /\ HeaderBytes \in Nat /\ Len(b) \in Nat /\ Len(c) \in Nat /\ Len(r) \in Nat
      /\ Len(c) \in Lengths /\ b \in Seq(Bytes) /\ c \in Seq(Bytes)
      /\ Frame(b) \in Seq(Bytes) /\ Frame(c) \in Seq(Bytes)
      /\ Len(Frame(b)) = HeaderBytes + Len(b) /\ Len(Frame(c)) = HeaderBytes + Len(c)
  BY ByteFacts, BodyType, FrameType
<1>2. Len(Frame(c)) <= Len(r) /\ \A i \in 1..Len(Frame(c)) : Frame(c)[i] = r[i]
  BY <1>1, PrefixIsPointwise
<1>3. Len(r) >= HeaderBytes /\ \A i \in 1..HeaderBytes : r[i] = Header(Len(c))[i]
  <2>1. \A i \in 1..HeaderBytes : i \in 1..Len(Frame(c))
    BY <1>1
  <2> QED BY <1>1, <1>2, <2>1, FrameType
<1>4. IsPrefix(Frame(b), r) \/ IsPrefix(r, Frame(b)) => Len(b) = Len(c)
  BY <1>1, <1>3, SameHeader
<1>5. IsPrefix(Frame(b), r) => b = c
  <2> SUFFICES ASSUME IsPrefix(Frame(b), r) PROVE b = c
    OBVIOUS
  <2>1. Len(b) = Len(c)
    BY <1>4
  <2>2. ASSUME NEW i \in 1..Len(b) PROVE b[i] = c[i]
    <3>1. HeaderBytes + i \in 1..Len(Frame(b)) /\ HeaderBytes + i \in 1..Len(Frame(c))
      BY <1>1, <2>1
    <3>2. Frame(b)[HeaderBytes + i] = Frame(c)[HeaderBytes + i]
      BY <1>1, <1>2, <3>1, PrefixIsPointwise
    <3> QED BY <2>1, <3>2, FrameType
  <2> QED BY <1>1, <2>1, <2>2, SeqEqual
<1>6. ~IsStrictPrefix(r, Frame(b))
  <2> SUFFICES ASSUME IsPrefix(r, Frame(b)) PROVE r = Frame(b)
    BY DEF IsStrictPrefix
  <2>1. Len(b) = Len(c) /\ Len(r) <= Len(Frame(b)) /\ \A i \in 1..Len(r) : r[i] = Frame(b)[i]
    BY <1>1, <1>4, PrefixIsPointwise
  <2>2. Len(r) = Len(Frame(b))
    BY <1>1, <1>2, <2>1
  <2> QED BY <1>1, <2>1, <2>2, SeqEqual
<1> QED
  BY <1>5, <1>6

\* A whole body that is no message is no frame of any message, and no beginning of one.
LEMMA BadBody ==
  ASSUME NEW b \in Bodies \ Messages, NEW r \in Seq(Bytes), IsPrefix(Frame(b), r)
  PROVE  What(r) = "bad"
<1>1. r # <<>> /\ ~(Len(r) < HeaderBytes)
  <2>1. Frame(b) \in Seq(Bytes) /\ Len(Frame(b)) <= Len(r) /\ Len(Frame(b)) = HeaderBytes + Len(b)
        /\ Len(b) \in Nat /\ HeaderBytes \in Nat \ {0} /\ Len(r) \in Nat
    BY FrameType, PrefixIsPointwise, BodyType, ByteFacts
  <2> QED BY <2>1
<1>2. \A m \in Messages : ~IsPrefix(Frame(m), r)
  BY PrefixFree, ByteFacts
<1>3. \A c \in Bodies : ~IsStrictPrefix(r, Frame(c))
  BY PrefixFree
<1> QED
  BY <1>1, <1>2, <1>3 DEF What

-----------------------------------------------------------------------------
(* The frames of the input *)

\* What follows the last frame is the end of the input.
LEMMA CutFacts ==
  ASSUME NEW s \in Seq(Bytes), NEW ms \in Seq(Messages), NEW cuts \in Cuts(s, ms)
  PROVE  /\ Len(ms) \in Nat /\ Len(s) \in Nat
         /\ \A k \in 0..Len(ms) : cuts[k] \in 0..Len(s)
         /\ \A k \in 1..Len(ms) : k - 1 \in 0..Len(ms) /\ k \in 0..Len(ms)
         /\ cuts[Len(ms)] \in 0..Len(s)
         /\ After(s, cuts, ms) \in Seq(Bytes)
         /\ Len(After(s, cuts, ms)) = Len(s) - cuts[Len(ms)]
         /\ \A i \in 1..Len(s) - cuts[Len(ms)] : After(s, cuts, ms)[i] = s[cuts[Len(ms)] + i]
<1>1. Len(ms) \in Nat /\ Len(s) \in Nat /\ \A i \in 1..Len(s) : s[i] \in Bytes
  OBVIOUS
<1>2. \A k \in 0..Len(ms) : cuts[k] \in 0..Len(s)
  BY DEF Cuts
<1>3. \A k \in 1..Len(ms) : k - 1 \in 0..Len(ms) /\ k \in 0..Len(ms)
  BY <1>1
<1> DEFINE c == cuts[Len(ms)]
<1>4. c \in 0..Len(s)
  BY <1>1, <1>2
<1> HIDE DEF c
<1>5. \A i \in c + 1..Len(s) : s[i] \in Bytes
  BY <1>1, <1>4
<1>6. /\ SubSeq(s, c + 1, Len(s)) \in Seq(Bytes)
      /\ Len(SubSeq(s, c + 1, Len(s))) = IF c + 1 <= Len(s) THEN Len(s) - (c + 1) + 1 ELSE 0
      /\ \A i \in 1..Len(s) - (c + 1) + 1 : SubSeq(s, c + 1, Len(s))[i] = s[c + 1 + i - 1]
  BY <1>1, <1>4, <1>5, SubSeqProperties
<1>7. Len(SubSeq(s, c + 1, Len(s))) = Len(s) - c
  BY <1>1, <1>4, <1>6
<1>8. \A i \in 1..Len(s) - c : i \in 1..Len(s) - (c + 1) + 1 /\ c + 1 + i - 1 = c + i
  BY <1>1, <1>4
<1> QED
  BY <1>1, <1>2, <1>3, <1>4, <1>6, <1>7, <1>8 DEF After, c

\* More input leaves the frames where they are.
LEMMA MoreInput ==
  ASSUME NEW s \in Seq(Bytes), NEW t \in Seq(Bytes), NEW ms \in Seq(Messages), NEW cuts \in Cuts(s, ms)
  PROVE  /\ cuts \in Cuts(s \o t, ms)
         /\ After(s \o t, cuts, ms) = After(s, cuts, ms) \o t
<1> DEFINE w == s \o t
<1>1. /\ w \in Seq(Bytes) /\ Len(w) = Len(s) + Len(t)
      /\ \A i \in 1..Len(s) + Len(t) : w[i] = IF i <= Len(s) THEN s[i] ELSE t[i - Len(s)]
  BY ConcatProperties
<1> HIDE DEF w
<1>2. Len(s) \in Nat /\ Len(t) \in Nat
  OBVIOUS
<1>3. ASSUME NEW a \in 0..Len(s), NEW b \in 0..Len(s)
      PROVE  SubSeq(w, a + 1, b) = SubSeq(s, a + 1, b)
  <2>1. CASE a < b
    <3>1. a + 1 \in 1..Len(s) /\ b \in 1..Len(s)
      BY <1>2, <2>1
    <3> QED BY <3>1, SubSeqOfConcat1 DEF w
  <2>2. CASE ~(a < b)
    <3>1. a + 1 \in Int /\ b \in Int /\ b < a + 1
      BY <1>2, <2>2
    <3> QED BY <3>1, SubSeqEmpty
  <2> QED BY <2>1, <2>2
<1>4. cuts \in Cuts(w, ms)
  <2>1. \A k \in 1..Len(ms) : cuts[k - 1] \in 0..Len(s) /\ cuts[k] \in 0..Len(s)
    BY CutFacts
  <2>2. \A k \in 1..Len(ms) : SubSeq(w, cuts[k - 1] + 1, cuts[k]) = SubSeq(s, cuts[k - 1] + 1, cuts[k])
    BY <1>3, <2>1
  <2>3. 0..Len(s) \subseteq 0..Len(w)
    BY <1>1, <1>2
  <2>4. cuts \in [0..Len(ms) -> 0..Len(s)]
    BY DEF Cuts
  <2>5. cuts \in [0..Len(ms) -> 0..Len(w)]
    BY <2>3, <2>4
  <2> QED BY <2>2, <2>5 DEF Cuts
<1> DEFINE c == cuts[Len(ms)]
           u == After(w, cuts, ms)
           v == After(s, cuts, ms)
<1>5. c \in 0..Len(s)
  BY CutFacts
<1>6. u \in Seq(Bytes) /\ Len(u) = Len(s) + Len(t) - c /\ \A i \in 1..Len(s) + Len(t) - c : u[i] = w[c + i]
  <2>1. /\ u \in Seq(Bytes) /\ Len(u) = Len(w) - c
        /\ \A i \in 1..Len(w) - c : u[i] = w[c + i]
    BY <1>1, <1>4, CutFacts
  <2>2. Len(w) = Len(s) + Len(t)
    BY <1>1
  <2> HIDE DEF u, c
  <2> QED BY <1>2, <1>5, <2>1, <2>2
<1>7. v \in Seq(Bytes) /\ Len(v) = Len(s) - c /\ \A i \in 1..Len(s) - c : v[i] = s[c + i]
  BY CutFacts
<1> HIDE DEF c, u, v
<1>8. /\ v \o t \in Seq(Bytes) /\ Len(v \o t) = Len(v) + Len(t)
      /\ \A i \in 1..Len(v) + Len(t) : (v \o t)[i] = IF i <= Len(v) THEN v[i] ELSE t[i - Len(v)]
  BY <1>7, ConcatProperties
<1>9. Len(u) = Len(v \o t)
  BY <1>2, <1>5, <1>6, <1>7, <1>8
<1>10. ASSUME NEW i \in 1..Len(u) PROVE u[i] = (v \o t)[i]
  <2>1. i \in 1..Len(s) + Len(t) - c /\ c + i \in 1..Len(s) + Len(t) /\ i \in 1..Len(v) + Len(t)
    BY <1>2, <1>5, <1>6, <1>7
  <2>2. u[i] = IF c + i <= Len(s) THEN s[c + i] ELSE t[(c + i) - Len(s)]
    BY <1>1, <1>6, <2>1
  <2>3. (v \o t)[i] = IF i <= Len(v) THEN v[i] ELSE t[i - Len(v)]
    BY <1>8, <2>1
  <2>4. CASE c + i <= Len(s)
    <3>1. i <= Len(v) /\ i \in 1..Len(s) - c
      BY <1>2, <1>5, <1>7, <2>1, <2>4
    <3> QED BY <1>7, <2>2, <2>3, <2>4, <3>1
  <2>5. CASE ~(c + i <= Len(s))
    <3>1. ~(i <= Len(v)) /\ (c + i) - Len(s) = i - Len(v)
      BY <1>2, <1>5, <1>7, <2>1, <2>5
    <3> QED BY <2>2, <2>3, <2>5, <3>1
  <2> QED BY <2>4, <2>5
<1>11. u = v \o t
  BY <1>6, <1>8, <1>9, <1>10, SeqEqual
<1> QED
  BY <1>4, <1>11 DEF u, v, w

\* A frame that begins what is left is one more frame.
LEMMA OneMoreFrame ==
  ASSUME NEW s \in Seq(Bytes), NEW ms \in Seq(Messages), NEW cuts \in Cuts(s, ms),
         NEW m \in Messages, NEW r \in Seq(Bytes), After(s, cuts, ms) = Frame(m) \o r
  PROVE  \E more \in Cuts(s, Append(ms, m)) : After(s, more, Append(ms, m)) = r
<1> DEFINE L == Len(ms)
           f == Frame(m)
           c == cuts[L]
           d == c + Len(f)
           v == After(s, cuts, ms)
           all == Append(ms, m)
           more == [k \in 0..L + 1 |-> IF k = L + 1 THEN d ELSE cuts[k]]
<1>1. /\ L \in Nat /\ Len(s) \in Nat /\ c \in 0..Len(s)
      /\ v \in Seq(Bytes) /\ Len(v) = Len(s) - c
      /\ \A i \in 1..Len(s) - c : v[i] = s[c + i]
  <2>1. Len(ms) \in Nat /\ Len(s) \in Nat /\ cuts[Len(ms)] \in 0..Len(s)
    BY CutFacts
  <2>2. After(s, cuts, ms) \in Seq(Bytes) /\ Len(After(s, cuts, ms)) = Len(s) - cuts[Len(ms)]
    BY CutFacts
  <2>3. \A i \in 1..Len(s) - cuts[Len(ms)] : After(s, cuts, ms)[i] = s[cuts[Len(ms)] + i]
    BY CutFacts
  <2> QED BY <2>1, <2>2, <2>3
<1>2. f \in Seq(Bytes) /\ Len(f) \in Nat \ {0}
  BY FrameType, BodyType, ByteFacts
<1>3. v = f \o r
  OBVIOUS
<1>4. /\ all \in Seq(Messages) /\ Len(all) = L + 1 /\ all[L + 1] = m
      /\ \A k \in 1..L : all[k] = ms[k]
  BY AppendProperties
<1> HIDE DEF f, c, v, all, L
<1>5. /\ Len(v) = Len(f) + Len(r)
      /\ \A i \in 1..Len(f) + Len(r) : v[i] = IF i <= Len(f) THEN f[i] ELSE r[i - Len(f)]
  BY <1>2, <1>3, ConcatProperties
<1>6. Len(r) \in Nat /\ d \in 0..Len(s) /\ Len(s) - d = Len(r) /\ c <= d
  <2>3. Len(r) \in Nat
    OBVIOUS
  <2>4. Len(v) = Len(s) - c /\ Len(v) = Len(f) + Len(r)
    BY <1>1, <1>5
  <2>1. Len(r) \in Nat /\ Len(s) - c = Len(f) + Len(r)
    BY <2>3, <2>4
  <2>2. c \in Nat /\ c <= Len(s) /\ Len(s) \in Nat /\ Len(f) \in Nat
    BY <1>1, <1>2
  <2> QED BY <2>1, <2>2
<1>7. ASSUME NEW i \in 1..Len(f) PROVE s[c + i] = f[i]
  <2>1. i \in 1..Len(s) - c /\ i \in 1..Len(f) + Len(r) /\ i <= Len(f)
    BY <1>1, <1>2, <1>5, <1>6
  <2> QED BY <1>1, <1>5, <2>1
<1>8. ASSUME NEW i \in 1..Len(r) PROVE s[d + i] = r[i]
  <2> DEFINE j == Len(f) + i
  <2>1. j \in 1..Len(s) - c /\ j \in 1..Len(f) + Len(r) /\ ~(j <= Len(f)) /\ j - Len(f) = i /\ c + j = d + i
    BY <1>1, <1>2, <1>5, <1>6
  <2> HIDE DEF j, d
  <2>2. v[j] = s[c + j] /\ v[j] = r[j - Len(f)]
    BY <1>1, <1>5, <2>1
  <2> QED BY <2>1, <2>2
<1>9. SubSeq(s, c + 1, d) = f
  <2>1. c + 1 \in Int /\ d \in Int /\ \A i \in c + 1..d : s[i] \in Bytes
    BY <1>1, <1>6
  <2>2. /\ SubSeq(s, c + 1, d) \in Seq(Bytes)
        /\ Len(SubSeq(s, c + 1, d)) = IF c + 1 <= d THEN d - (c + 1) + 1 ELSE 0
        /\ \A i \in 1..d - (c + 1) + 1 : SubSeq(s, c + 1, d)[i] = s[c + 1 + i - 1]
    <3> HIDE DEF d
    <3> QED BY <2>1, SubSeqProperties
  <2>3. Len(SubSeq(s, c + 1, d)) = Len(f)
    BY <1>1, <1>2, <2>2
  <2>4. \A i \in 1..Len(f) : i \in 1..d - (c + 1) + 1 /\ c + 1 + i - 1 = c + i
    BY <1>1, <1>2
  <2>5. \A i \in 1..Len(f) : SubSeq(s, c + 1, d)[i] = f[i]
    <3> HIDE DEF d
    <3> QED BY <1>7, <2>2, <2>4
  <2> HIDE DEF d
  <2> QED BY <1>2, <2>2, <2>3, <2>5, SeqEqual
<1>10. more \in Cuts(s, all)
  <2>0. cuts \in [0..L -> 0..Len(s)] /\ cuts[0] = 0
    BY DEF Cuts, L
  <2>1. more \in [0..L + 1 -> 0..Len(s)]
    <3>1. \A k \in 0..L + 1 : k # L + 1 => k \in 0..L
      BY <1>1
    <3> HIDE DEF d
    <3> QED BY <1>6, <2>0, <3>1
  <2>2. more[0] = 0
    BY <1>1, <2>0
  <2>3. ASSUME NEW k \in 1..L
        PROVE  all[k] \in Messages /\ SubSeq(s, more[k - 1] + 1, more[k]) = Frame(all[k])
    <3>1. k \in 0..L + 1 /\ k - 1 \in 0..L + 1 /\ k # L + 1 /\ k - 1 # L + 1
      BY <1>1
    <3>2. more[k] = cuts[k] /\ more[k - 1] = cuts[k - 1]
      BY <3>1
    <3>3. ms[k] \in Messages /\ SubSeq(s, cuts[k - 1] + 1, cuts[k]) = Frame(ms[k])
      BY DEF Cuts, L
    <3> HIDE DEF more
    <3> QED BY <1>4, <3>2, <3>3
  <2>4. more[L] = c /\ more[L + 1] = d
    BY <1>1 DEF c
  <2>5. SubSeq(s, more[(L + 1) - 1] + 1, more[L + 1]) = Frame(all[L + 1])
    <3>1. (L + 1) - 1 = L
      BY <1>1
    <3> HIDE DEF more
    <3> QED BY <1>4, <1>9, <2>4, <3>1 DEF f
  <2>6. \A k \in 1..L + 1 : k = L + 1 \/ k \in 1..L
    BY <1>1
  <2> HIDE DEF more
  <2>7. ASSUME NEW k \in 1..L + 1
        PROVE  all[k] \in Messages /\ SubSeq(s, more[k - 1] + 1, more[k]) = Frame(all[k])
    BY <1>4, <2>3, <2>5, <2>6
  <2> QED BY <1>4, <2>1, <2>2, <2>7 DEF Cuts
<1>11. After(s, more, all) = r
  <2>1. more[Len(all)] = d
    BY <1>1, <1>4
  <2> DEFINE w == After(s, more, all)
  <2>2. w \in Seq(Bytes) /\ Len(w) = Len(s) - d /\ \A i \in 1..Len(s) - d : w[i] = s[d + i]
    <3> HIDE DEF more, d
    <3>1. /\ After(s, more, all) \in Seq(Bytes) /\ Len(After(s, more, all)) = Len(s) - more[Len(all)]
          /\ \A i \in 1..Len(s) - more[Len(all)] : After(s, more, all)[i] = s[more[Len(all)] + i]
      BY <1>4, <1>10, CutFacts
    <3> QED BY <2>1, <3>1
  <2> HIDE DEF w, d
  <2>3. w = r
    BY <1>6, <1>8, <2>2, SeqEqual
  <2> QED BY <2>3 DEF w
<1> HIDE DEF more
<1> QED
  BY <1>10, <1>11 DEF all

-----------------------------------------------------------------------------
(* The inductive invariant *)

\* What consume and finish throw.
Codes == {"invalid_frame_length", "frame_rejected", "truncated_frame"}

\* The type invariant; the input is no longer than the bound of the model.
FrameTypeOK ==
  /\ header \in Seq(Bytes)
  /\ length \in (1..MaxMessage) \cup {Null}
  /\ body \in Seq(Bytes)
  /\ rest \in Seq(Bytes)
  /\ busy \in BOOLEAN /\ accepting \in BOOLEAN /\ closed \in BOOLEAN
  /\ failure \in Codes \cup {Null}
  /\ input \in Seq(Bytes) /\ Len(input) <= MaxInput
  /\ accepted \in Seq(Messages)

\* A length is there when the header is whole, and then the body is not whole yet; a message
\* is handed over, and a decoder closed, with nothing in the header.
FillOK ==
  /\ length = Null => Len(header) < HeaderBytes /\ body = <<>>
  /\ length # Null => header = Header(length) /\ Len(body) < length
  /\ accepting => busy /\ header = <<>> /\ accepted # <<>>
  /\ ~busy => rest = <<>>
  /\ closed => ~busy /\ header = <<>>
  /\ failure # Null => closed

\* The bytes taken from the input that belong to no message handed over.
Pending == (header \o body) \o rest

\* What the decoder says of the bytes that follow the last message it handed over.
Verdict(left) ==
  /\ ~closed => left = Pending
  /\ closed /\ failure = Null => left = <<>>
  /\ failure = "truncated_frame" => What(left) = "truncated_frame"
  /\ failure = "invalid_frame_length" => What(left) = "bad"
  /\ failure = "frame_rejected" /\ accepted = <<>> => What(left) = "bad"

\* The input is read as the messages handed over and what the decoder says of the others.
ReadOK == \E cuts \in Cuts(input, accepted) : Verdict(After(input, cuts, accepted))

FrameInv == FrameTypeOK /\ FillOK /\ ReadOK

\* What is taken and what is left make up the rest of a chunk.
LEMMA SplitRest ==
  ASSUME NEW r \in Seq(Bytes), NEW n \in 0..Len(r)
  PROVE  /\ SubSeq(r, 1, n) \in Seq(Bytes) /\ Len(SubSeq(r, 1, n)) = n
         /\ SubSeq(r, n + 1, Len(r)) \in Seq(Bytes)
         /\ SubSeq(r, 1, n) \o SubSeq(r, n + 1, Len(r)) = r
<1>1. Len(r) \in Nat /\ \A i \in 1..Len(r) : r[i] \in Bytes
  OBVIOUS
<1>2. 1 \in Int /\ n \in Int /\ n + 1 \in Int /\ Len(r) \in Int
  BY <1>1
<1>3. \A i \in 1..n : r[i] \in Bytes
  BY <1>1
<1>4. \A i \in n + 1..Len(r) : r[i] \in Bytes
  BY <1>1
<1>5. SubSeq(r, 1, n) \in Seq(Bytes) /\ Len(SubSeq(r, 1, n)) = IF 1 <= n THEN n - 1 + 1 ELSE 0
  BY <1>2, <1>3, SubSeqProperties
<1>6. SubSeq(r, n + 1, Len(r)) \in Seq(Bytes)
  BY <1>2, <1>4, SubSeqProperties
<1>7. SubSeq(r, 1, n) \o SubSeq(r, n + 1, Len(r)) = SubSeq(r, 1, Len(r))
  <2>1. 1 \in 1..Len(r) + 1 /\ n \in 1 - 1..Len(r) /\ Len(r) \in n..Len(r)
    BY <1>1
  <2> QED BY <2>1, ConcatAdjacentSubSeq
<1>8. SubSeq(r, 1, Len(r)) = r
  BY SubSeqFull
<1>9. Len(SubSeq(r, 1, n)) = n
  BY <1>1, <1>5
<1> QED
  BY <1>5, <1>6, <1>7, <1>8, <1>9

\* An unfinished frame is the beginning of a frame, and nothing is left of no frame.
LEMMA PendingBegins ==
  ASSUME FrameTypeOK, FillOK
  PROVE  /\ header = <<>> => header \o body = <<>>
         /\ header # <<>> => What(header \o body) = "truncated_frame"
<1>1. HeaderBytes \in Nat \ {0} /\ header \in Seq(Bytes) /\ body \in Seq(Bytes)
  BY ByteFacts DEF FrameTypeOK
<1>2. length # Null => length \in 1..MaxMessage /\ length \in Lengths
  BY ByteFacts DEF FrameTypeOK
<1>3. length # Null => Len(header) = HeaderBytes /\ header # <<>>
  BY <1>1, <1>2, HeaderSeq DEF FillOK
<1>4. header = <<>> => header \o body = <<>>
  BY <1>1, <1>3, ConcatEmptySeq DEF FillOK
<1>5. ASSUME header # <<>>, length = Null PROVE What(header \o body) = "truncated_frame"
  <2>1. header \o body = header /\ Len(header) < HeaderBytes
    BY <1>1, <1>5, ConcatEmptySeq DEF FillOK
  <2>2. ASSUME NEW m \in Messages PROVE ~IsPrefix(Frame(m), header)
    <3>1. Frame(m) \in Seq(Bytes) /\ Len(Frame(m)) = HeaderBytes + Len(m) /\ Len(m) \in Nat /\ Len(header) \in Nat
      BY <1>1, ByteFacts, BodyType, FrameType
    <3>2. ~(Len(Frame(m)) <= Len(header))
      BY <1>1, <2>1, <3>1
    <3> QED BY <3>2 DEF IsPrefix
  <2> QED BY <1>5, <2>1, <2>2 DEF What
<1>6. ASSUME header # <<>>, length # Null PROVE What(header \o body) = "truncated_frame"
  <2> DEFINE r == header \o body
             b == [i \in 1..length |-> IF i <= Len(body) THEN body[i] ELSE 0]
  <2>1. length \in 1..MaxMessage /\ length \in Lengths /\ length \in Nat
        /\ header = Header(length) /\ Len(header) = HeaderBytes /\ Len(body) < length /\ Len(body) \in Nat
    BY <1>1, <1>2, <1>3, <1>6, ByteFacts DEF FillOK
  <2>2. /\ r \in Seq(Bytes) /\ Len(r) = Len(header) + Len(body)
        /\ \A i \in 1..Len(header) + Len(body) : r[i] = IF i <= Len(header) THEN header[i] ELSE body[i - Len(header)]
    BY <1>1, ConcatProperties
  <2>3. b \in [1..length -> Bytes]
    <3>1. \A i \in 1..length : i <= Len(body) => i \in 1..Len(body)
      BY <2>1
    <3>2. \A i \in 1..Len(body) : body[i] \in Bytes
      BY <1>1
    <3> QED BY <3>1, <3>2, ByteFacts
  <2>4. b \in Bodies /\ Len(b) = length
    <3>1. b \in Bodies
      BY <2>1, <2>3 DEF Bodies
    <3> HIDE DEF b
    <3> QED BY <2>1, <2>3, <3>1
  <2>5. \A i \in 1..Len(body) : i \in 1..length /\ b[i] = body[i]
    BY <2>1
  <2> HIDE DEF b, r
  <2>6. /\ Frame(b) \in Seq(Bytes) /\ Len(Frame(b)) = HeaderBytes + length
        /\ \A i \in 1..HeaderBytes : Frame(b)[i] = header[i]
        /\ \A i \in 1..length : Frame(b)[HeaderBytes + i] = b[i]
    BY <2>1, <2>4, FrameType
  <2>7. ASSUME NEW i \in 1..Len(r) PROVE r[i] = Frame(b)[i]
    <3>1. CASE i <= HeaderBytes
      <4>1. i \in 1..Len(header) + Len(body) /\ i \in 1..HeaderBytes /\ i <= Len(header)
        BY <1>1, <2>1, <2>2, <3>1
      <4> QED BY <2>2, <2>6, <4>1
    <3>2. CASE ~(i <= HeaderBytes)
      <4> DEFINE j == i - HeaderBytes
      <4>1. i \in 1..Len(header) + Len(body) /\ ~(i <= Len(header)) /\ j \in 1..Len(body)
            /\ i - Len(header) = j /\ HeaderBytes + j = i
        BY <1>1, <2>1, <2>2, <3>2
      <4> HIDE DEF j
      <4>2. r[i] = body[j]
        BY <2>2, <4>1
      <4>3. Frame(b)[HeaderBytes + j] = body[j]
        BY <2>5, <2>6, <4>1
      <4> QED BY <4>1, <4>2, <4>3
    <3> QED BY <3>1, <3>2
  <2>8. Len(r) \in Nat /\ Len(r) < Len(Frame(b)) /\ Len(r) >= HeaderBytes
    BY <1>1, <2>1, <2>2, <2>6
  <2>9. IsPrefix(r, Frame(b)) /\ r # Frame(b)
    <3>1. Len(r) <= Len(Frame(b)) /\ r # Frame(b)
      BY <2>6, <2>8
    <3> QED BY <2>2, <2>6, <2>7, <3>1, PrefixIsPointwise
  <2>10. \A c \in Messages : ~IsPrefix(Frame(c), r)
    BY <2>2, <2>4, <2>9, PrefixFree, ByteFacts DEF IsStrictPrefix
  <2>11. r # <<>>
    BY <1>1, <2>8
  <2> QED BY <2>4, <2>9, <2>10, <2>11 DEF What, IsStrictPrefix, r
<1> QED
  BY <1>4, <1>5, <1>6

-----------------------------------------------------------------------------
(* It holds in every state *)

\* The decoder begins with nothing read and nothing handed over.
LEMMA FrameInitially == FrameInit => FrameInv
<1> SUFFICES ASSUME FrameInit PROVE FrameInv
  OBVIOUS
<1>1. /\ header = <<>> /\ length = Null /\ body = <<>> /\ busy = FALSE /\ rest = <<>>
      /\ accepting = FALSE /\ closed = FALSE /\ failure = Null /\ input = <<>> /\ accepted = <<>>
  BY DEF FrameInit
<1>2. FrameTypeOK
  <2>1. <<>> \in Seq(Bytes) /\ <<>> \in Seq(Messages) /\ Len(<<>>) = 0
    BY EmptySeq
  <2>2. 0 <= MaxInput
    BY FrameAssumption
  <2> QED BY <1>1, <2>1, <2>2 DEF FrameTypeOK
<1>3. FillOK
  BY <1>1, ByteFacts DEF FillOK
<1>4. ReadOK
  <2> DEFINE none == [k \in 0..0 |-> 0]
  <2>1. none \in Cuts(<<>>, <<>>)
    BY DEF Cuts
  <2>2. After(<<>>, none, <<>>) = <<>>
    BY DEF After
  <2>3. (<<>> \o <<>>) \o <<>> = <<>>
    OBVIOUS
  <2>4. Verdict(After(<<>>, none, <<>>))
    BY <1>1, <2>2, <2>3, FrameAssumption DEF Verdict, Pending
  <2> HIDE DEF none
  <2> QED BY <1>1, <2>1, <2>4 DEF ReadOK
<1> QED
  BY <1>2, <1>3, <1>4 DEF FrameInv

\* A new chunk comes after all that is pending.
LEMMA ConsumeKeeps == FrameInv /\ Consume => FrameInv'
<1> SUFFICES ASSUME FrameInv, Consume PROVE FrameInv'
  OBVIOUS
<1>1. FrameTypeOK /\ FillOK /\ ReadOK
  BY DEF FrameInv
<1>0. PICK n \in 1..MaxInput - Len(input) :
        \E chunk \in [1..n -> Bytes] : rest' = chunk /\ input' = input \o chunk
  BY DEF Consume
<1>2. PICK chunk \in [1..n -> Bytes] : rest' = chunk /\ input' = input \o chunk
  BY <1>0
<1>3. /\ ~closed /\ ~busy /\ busy' = TRUE
      /\ UNCHANGED <<header, length, body, accepting, closed, failure, accepted>>
  BY DEF Consume
<1>4. /\ header \in Seq(Bytes) /\ body \in Seq(Bytes) /\ input \in Seq(Bytes)
      /\ Len(input) \in Nat /\ Len(input) <= MaxInput /\ accepted \in Seq(Messages)
  BY <1>1 DEF FrameTypeOK
<1>5. chunk \in Seq(Bytes) /\ Len(chunk) = n /\ n \in Nat
  BY <1>2, <1>4
<1>6. input' \in Seq(Bytes) /\ Len(input') <= MaxInput
  <2>1. input \o chunk \in Seq(Bytes) /\ Len(input \o chunk) = Len(input) + Len(chunk)
    BY <1>4, <1>5, ConcatProperties
  <2> QED BY <1>2, <1>4, <1>5, <2>1, FrameAssumption
<1>7. FrameTypeOK'
  BY <1>1, <1>2, <1>3, <1>5, <1>6 DEF FrameTypeOK
<1>8. FillOK'
  BY <1>1, <1>2, <1>3 DEF FillOK
<1>9. ReadOK'
  <2>1. PICK cuts \in Cuts(input, accepted) : Verdict(After(input, cuts, accepted))
    BY <1>1 DEF ReadOK
  <2>2. cuts \in Cuts(input', accepted) /\ After(input', cuts, accepted) = After(input, cuts, accepted) \o chunk
    BY <1>2, <1>4, <1>5, MoreInput
  <2>3. After(input, cuts, accepted) = header \o body
    <3>1. rest = <<>> /\ header \o body \in Seq(Bytes)
      BY <1>1, <1>3, <1>4, ConcatProperties DEF FillOK
    <3>2. (header \o body) \o <<>> = header \o body
      BY <3>1, ConcatEmptySeq
    <3> QED BY <1>3, <2>1, <3>1, <3>2 DEF Verdict, Pending
  <2>4. Pending' = After(input', cuts, accepted)
    BY <1>2, <1>3, <2>2, <2>3 DEF Pending
  <2>5. failure' = Null
    BY <1>1, <1>3 DEF FillOK
  <2>6. Verdict(After(input, cuts, accepted))'
    BY <1>3, <2>4, <2>5, FrameAssumption DEF Verdict
  <2> QED BY <1>3, <2>2, <2>6 DEF ReadOK
<1> QED
  BY <1>7, <1>8, <1>9 DEF FrameInv

\* What the steps that take bytes do to them.
LEMMA TakeFacts ==
  ASSUME FrameTypeOK, NEW have \in Seq(Bytes), NEW want \in Nat, Len(have) < want, rest # <<>>
  PROVE  LET n == Lesser(want - Len(have), Len(rest))
             h == have \o Taken(n)
         IN /\ h \in Seq(Bytes) /\ Left(n) \in Seq(Bytes)
            /\ Len(h) <= want /\ Len(h) \in Nat \ {0}
            /\ h \o Left(n) = have \o rest
<1> DEFINE n == Lesser(want - Len(have), Len(rest))
           h == have \o Taken(n)
<1>1. rest \in Seq(Bytes) /\ Len(rest) \in Nat \ {0} /\ Len(have) \in Nat
  BY DEF FrameTypeOK
<1>2. n \in 1..Len(rest) /\ n <= want - Len(have)
  BY <1>1 DEF Lesser
<1> HIDE DEF n
<1>3. n \in 0..Len(rest) /\ n \in Nat \ {0}
  BY <1>1, <1>2
<1>4. /\ Taken(n) \in Seq(Bytes) /\ Len(Taken(n)) = n
      /\ Left(n) \in Seq(Bytes) /\ Taken(n) \o Left(n) = rest
  BY <1>1, <1>3, SplitRest DEF Taken, Left
<1>5. h \in Seq(Bytes) /\ Len(h) = Len(have) + n
  BY <1>4, ConcatProperties
<1>6. h \o Left(n) = have \o rest
  <2>1. have \in Seq(Bytes) /\ Taken(n) \in Seq(Bytes) /\ Left(n) \in Seq(Bytes)
    BY <1>4
  <2>2. (have \o Taken(n)) \o Left(n) = have \o (Taken(n) \o Left(n))
    BY <2>1, ConcatAssociative
  <2> QED BY <1>4, <2>2
<1>7. Len(h) <= want /\ Len(h) \in Nat \ {0}
  BY <1>1, <1>2, <1>3, <1>5
<1> QED
  BY <1>4, <1>5, <1>6, <1>7 DEF n

\* A decoder that fails drops what is pending, for which it has a verdict.
LEMMA FailKeeps ==
  ASSUME FrameInv, ~closed, NEW f \in Codes, Fail(f), UNCHANGED <<input, accepted>>,
         f = "truncated_frame" \/ f = "invalid_frame_length" \/ accepted = <<>> =>
           What(Pending) = IF f = "truncated_frame" THEN "truncated_frame" ELSE "bad"
  PROVE  FrameInv'
<1>1. FrameTypeOK /\ FillOK /\ ReadOK
  BY DEF FrameInv
<1>2. /\ header' = <<>> /\ length' = Null /\ body' = <<>> /\ closed' = TRUE /\ failure' = f
      /\ busy' = FALSE /\ rest' = <<>> /\ accepting' = FALSE /\ input' = input /\ accepted' = accepted
  BY DEF Fail, Clear
<1>3. FrameTypeOK'
  <2>1. <<>> \in Seq(Bytes)
    BY EmptySeq
  <2> QED BY <1>1, <1>2, <2>1 DEF FrameTypeOK
<1>4. FillOK'
  BY <1>2, ByteFacts DEF FillOK
<1>5. ReadOK'
  <2>1. PICK cuts \in Cuts(input, accepted) : Verdict(After(input, cuts, accepted))
    BY <1>1 DEF ReadOK
  <2>2. After(input, cuts, accepted) = Pending
    BY <2>1 DEF Verdict
  <2>3. After(input, cuts, accepted)' = Pending
    BY <1>2, <2>2
  <2>4. Verdict(After(input, cuts, accepted))'
    BY <1>2, <2>3, FrameAssumption DEF Verdict, Codes
  <2> QED BY <1>2, <2>1, <2>4 DEF ReadOK
<1> QED
  BY <1>3, <1>4, <1>5 DEF FrameInv

\* Bytes of a header move from the chunk to the header; one that tells no length is "bad".
LEMMA TakeHeaderKeeps == FrameInv /\ TakeHeader => FrameInv'
<1> SUFFICES ASSUME FrameInv, TakeHeader PROVE FrameInv'
  OBVIOUS
<1> DEFINE h == header \o Taken(HeaderCount)
           l == Left(HeaderCount)
<1>1. FrameTypeOK /\ FillOK /\ ReadOK
  BY DEF FrameInv
<1>2. busy /\ ~accepting /\ rest # <<>> /\ length = Null /\ UNCHANGED <<input, accepted>>
  BY DEF TakeHeader, Looping
<1>3. ~closed /\ body = <<>> /\ Len(header) < HeaderBytes
  BY <1>1, <1>2 DEF FillOK
<1>4. header \in Seq(Bytes) /\ HeaderBytes \in Nat \ {0} /\ rest \in Seq(Bytes)
  BY <1>1, ByteFacts DEF FrameTypeOK
<1>5. /\ h \in Seq(Bytes) /\ l \in Seq(Bytes) /\ Len(h) <= HeaderBytes /\ Len(h) \in Nat \ {0}
      /\ h \o l = header \o rest
  BY <1>1, <1>2, <1>3, <1>4, TakeFacts DEF HeaderCount
<1>6. Pending = h \o l
  BY <1>3, <1>4, <1>5, ConcatEmptySeq DEF Pending
<1>7. \/ Len(h) >= HeaderBytes /\ LengthOf(h) \notin 1..MaxMessage /\ Fail("invalid_frame_length")
      \/ /\ ~(Len(h) >= HeaderBytes /\ LengthOf(h) \notin 1..MaxMessage)
         /\ header' = h /\ rest' = l
         /\ length' = IF Len(h) < HeaderBytes THEN Null ELSE LengthOf(h)
         /\ UNCHANGED <<body, busy, accepting, closed, failure>>
  BY DEF TakeHeader
<1> HIDE DEF h, l
<1>8. Len(h) >= HeaderBytes => h \in [1..HeaderBytes -> Bytes]
  <2> SUFFICES ASSUME Len(h) >= HeaderBytes PROVE h \in [1..HeaderBytes -> Bytes]
    OBVIOUS
  <2>1. Len(h) = HeaderBytes
    BY <1>4, <1>5
  <2> QED BY <1>5, <2>1
<1>9. Len(h) >= HeaderBytes => LengthOf(h) \in Lengths /\ Header(LengthOf(h)) = h
  BY <1>8, HeaderRoundTrip
<1>10. CASE Len(h) >= HeaderBytes /\ LengthOf(h) \notin 1..MaxMessage /\ Fail("invalid_frame_length")
  <2>1. What(Pending) = "bad"
    <3> DEFINE r == h \o l
    <3>1. /\ r \in Seq(Bytes) /\ Len(r) = Len(h) + Len(l) /\ Len(l) \in Nat
          /\ \A i \in 1..Len(h) + Len(l) : r[i] = IF i <= Len(h) THEN h[i] ELSE l[i - Len(h)]
      <4>1. h \in Seq(Bytes) /\ l \in Seq(Bytes)
        BY <1>5
      <4>2. Len(l) \in Nat
        BY <4>1
      <4> QED BY <4>1, <4>2, ConcatProperties
    <3> HIDE DEF r
    <3>2. Len(r) >= HeaderBytes /\ \A i \in 1..HeaderBytes : r[i] = h[i]
      <4>1. \A i \in 1..HeaderBytes : i \in 1..Len(h) + Len(l) /\ i <= Len(h)
        BY <1>4, <1>5, <1>10, <3>1
      <4>2. Len(r) >= HeaderBytes
        BY <1>4, <1>5, <1>10, <3>1
      <4> QED BY <3>1, <4>1, <4>2
    <3>3. LengthOf(h) \in Lengths \ (1..MaxMessage) /\ Header(LengthOf(h)) = h
      BY <1>9, <1>10
    <3>4. What(r) = "bad"
      BY <3>1, <3>2, <3>3, BadLength
    <3> QED BY <1>6, <3>4 DEF r
  <2>2. "invalid_frame_length" \in Codes
    BY DEF Codes
  <2>3. Fail("invalid_frame_length")
    BY <1>10
  <2> QED BY <1>2, <1>3, <2>1, <2>2, <2>3, FailKeeps
<1>11. CASE /\ ~(Len(h) >= HeaderBytes /\ LengthOf(h) \notin 1..MaxMessage)
            /\ header' = h /\ rest' = l
            /\ length' = IF Len(h) < HeaderBytes THEN Null ELSE LengthOf(h)
            /\ UNCHANGED <<body, busy, accepting, closed, failure>>
  <2>1. FrameTypeOK'
    <3>1. length' \in (1..MaxMessage) \cup {Null}
      BY <1>4, <1>5, <1>11
    <3> QED BY <1>1, <1>2, <1>5, <1>11, <3>1 DEF FrameTypeOK
  <2>2. FillOK'
    <3>1. length' = Null => Len(header') < HeaderBytes /\ body' = <<>>
      <4>1. Len(h) >= HeaderBytes => LengthOf(h) # Null
        BY <1>11, ByteFacts, FrameAssumption
      <4> QED BY <1>3, <1>4, <1>5, <1>11, <4>1
    <3>2. length' # Null => header' = Header(length') /\ Len(body') < length'
      <4> SUFFICES ASSUME length' # Null PROVE header' = Header(length') /\ Len(body') < length'
        OBVIOUS
      <4>1. ~(Len(h) < HeaderBytes) /\ length' = LengthOf(h)
        BY <1>11
      <4>2. Len(h) >= HeaderBytes /\ LengthOf(h) \in 1..MaxMessage
        BY <1>4, <1>5, <1>11, <4>1
      <4>3. Len(<<>>) = 0 /\ MaxMessage \in Nat
        BY ByteFacts
      <4> QED BY <1>3, <1>9, <1>11, <4>1, <4>2, <4>3
    <3> QED BY <1>1, <1>2, <1>3, <1>11, <3>1, <3>2 DEF FillOK
  <2>3. Pending' = Pending
    BY <1>3, <1>5, <1>6, <1>11, ConcatEmptySeq DEF Pending
  <2>4. ReadOK'
    <3>1. PICK cuts \in Cuts(input, accepted) : Verdict(After(input, cuts, accepted))
      BY <1>1 DEF ReadOK
    <3>2. Verdict(After(input, cuts, accepted))'
      BY <1>2, <1>11, <2>3, <3>1 DEF Verdict
    <3> QED BY <1>2, <3>2 DEF ReadOK
  <2> QED BY <2>1, <2>2, <2>4 DEF FrameInv
<1> QED
  BY <1>7, <1>10, <1>11

\* Bytes of a body move from the chunk to the body; a whole one is one more frame of the input.
LEMMA TakeBodyKeeps == FrameInv /\ TakeBody => FrameInv'
<1> SUFFICES ASSUME FrameInv, TakeBody PROVE FrameInv'
  OBVIOUS
<1> DEFINE b == body \o Taken(BodyCount)
           l == Left(BodyCount)
<1>1. FrameTypeOK /\ FillOK /\ ReadOK
  BY DEF FrameInv
<1>2. busy /\ ~accepting /\ rest # <<>> /\ length # Null /\ input' = input
  BY DEF TakeBody, Looping
<1>3. ~closed /\ failure = Null /\ header = Header(length) /\ Len(body) < length
  BY <1>1, <1>2 DEF FillOK
<1>4. /\ header \in Seq(Bytes) /\ body \in Seq(Bytes) /\ rest \in Seq(Bytes)
      /\ length \in 1..MaxMessage /\ length \in Nat /\ accepted \in Seq(Messages)
      /\ input \in Seq(Bytes)
  BY <1>1, <1>2, ByteFacts DEF FrameTypeOK
<1>5. /\ b \in Seq(Bytes) /\ l \in Seq(Bytes) /\ Len(b) <= length /\ Len(b) \in Nat \ {0}
      /\ b \o l = body \o rest
  BY <1>1, <1>2, <1>3, <1>4, TakeFacts DEF BodyCount
<1>6. \/ /\ Len(b) < length
         /\ body' = b /\ rest' = l
         /\ UNCHANGED <<header, length, busy, accepting, closed, failure, accepted>>
      \/ /\ Len(b) = length /\ b \in Messages
         /\ Clear /\ rest' = l
         /\ accepting' = TRUE /\ accepted' = Append(accepted, b)
         /\ UNCHANGED <<busy, closed, failure>>
      \/ /\ Len(b) = length /\ b \notin Messages
         /\ Fail("frame_rejected") /\ UNCHANGED accepted
  BY DEF TakeBody
<1> HIDE DEF b, l
<1>7. Pending = (header \o b) \o l
  <2>1. (header \o body) \o rest = header \o (body \o rest)
    BY <1>4, ConcatAssociative
  <2>0. header \in Seq(Bytes) /\ b \in Seq(Bytes) /\ l \in Seq(Bytes)
    BY <1>4, <1>5
  <2>2. (header \o b) \o l = header \o (b \o l)
    BY <2>0, ConcatAssociative
  <2> QED BY <1>5, <2>1, <2>2 DEF Pending
<1>8. Len(b) = length => Frame(b) = header \o b /\ b \in Bodies
  <2> SUFFICES ASSUME Len(b) = length PROVE Frame(b) = header \o b /\ b \in Bodies
    OBVIOUS
  <2>1. b \in [1..length -> Bytes]
    BY <1>5
  <2> QED BY <1>3, <1>4, <2>1 DEF Frame, Bodies
<1>9. CASE /\ Len(b) < length
           /\ body' = b /\ rest' = l
           /\ UNCHANGED <<header, length, busy, accepting, closed, failure, accepted>>
  <2>1. FrameTypeOK'
    BY <1>1, <1>2, <1>5, <1>9 DEF FrameTypeOK
  <2>2. FillOK'
    BY <1>1, <1>2, <1>9 DEF FillOK
  <2>3. Pending' = Pending
    BY <1>7, <1>9 DEF Pending
  <2>4. ReadOK'
    <3>1. PICK cuts \in Cuts(input, accepted) : Verdict(After(input, cuts, accepted))
      BY <1>1 DEF ReadOK
    <3>2. Verdict(After(input, cuts, accepted))'
      BY <1>2, <1>9, <2>3, <3>1 DEF Verdict
    <3> QED BY <1>2, <1>9, <3>2 DEF ReadOK
  <2> QED BY <2>1, <2>2, <2>4 DEF FrameInv
<1>10. CASE /\ Len(b) = length /\ b \in Messages
            /\ Clear /\ rest' = l
            /\ accepting' = TRUE /\ accepted' = Append(accepted, b)
            /\ UNCHANGED <<busy, closed, failure>>
  <2>1. header' = <<>> /\ length' = Null /\ body' = <<>>
    BY <1>10 DEF Clear
  <2>2. accepted' \in Seq(Messages) /\ accepted' # <<>>
    BY <1>4, <1>10, AppendProperties
  <2>3. FrameTypeOK'
    BY <1>1, <1>2, <1>5, <1>10, <2>1, <2>2 DEF FrameTypeOK
  <2>4. FillOK'
    BY <1>1, <1>2, <1>3, <1>10, <2>1, <2>2, ByteFacts DEF FillOK
  <2>5. ReadOK'
    <3>1. PICK cuts \in Cuts(input, accepted) : Verdict(After(input, cuts, accepted))
      BY <1>1 DEF ReadOK
    <3>2. After(input, cuts, accepted) = Frame(b) \o l
      BY <1>3, <1>7, <1>8, <1>10, <3>1 DEF Verdict
    <3>3. PICK more \in Cuts(input, Append(accepted, b)) : After(input, more, Append(accepted, b)) = l
      <4>1. b \in Messages /\ l \in Seq(Bytes) /\ input \in Seq(Bytes) /\ accepted \in Seq(Messages)
        BY <1>4, <1>5, <1>10
      <4> QED BY <3>2, <4>1, OneMoreFrame
    <3>4. Pending' = l
      <4>1. <<>> \o <<>> = <<>> /\ <<>> \o l = l
        BY <1>5, ConcatEmptySeq
      <4> QED BY <1>10, <2>1, <4>1 DEF Pending
    <3>5. Verdict(After(input, more, accepted))'
      BY <1>2, <1>3, <1>10, <3>3, <3>4, FrameAssumption DEF Verdict
    <3> QED BY <1>2, <1>10, <3>3, <3>5 DEF ReadOK
  <2> QED BY <2>3, <2>4, <2>5 DEF FrameInv
<1>11. CASE Len(b) = length /\ b \notin Messages /\ Fail("frame_rejected") /\ UNCHANGED accepted
  <2>1. What(Pending) = "bad"
    <3> DEFINE f == Frame(b)
               r == f \o l
    <3>1. f \in Seq(Bytes) /\ b \in Bodies \ Messages /\ Len(f) \in Nat /\ Len(l) \in Nat
      BY <1>5, <1>8, <1>11, FrameType
    <3>2. r = Pending
      BY <1>7, <1>8, <1>11
    <3> HIDE DEF f
    <3>3. /\ r \in Seq(Bytes) /\ Len(r) = Len(f) + Len(l)
          /\ \A i \in 1..Len(f) + Len(l) : r[i] = IF i <= Len(f) THEN f[i] ELSE l[i - Len(f)]
      BY <1>5, <3>1, ConcatProperties
    <3> HIDE DEF r
    <3>4. Len(f) <= Len(r) /\ \A i \in 1..Len(f) : f[i] = r[i]
      <4>1. \A i \in 1..Len(f) : i \in 1..Len(f) + Len(l) /\ i <= Len(f)
        BY <3>1
      <4>2. Len(f) <= Len(r)
        BY <3>1, <3>3
      <4> QED BY <3>3, <4>1, <4>2
    <3>5. IsPrefix(f, r)
      BY <3>1, <3>3, <3>4, PrefixIsPointwise
    <3>6. What(r) = "bad"
      BY <3>1, <3>3, <3>5, BadBody DEF f
    <3> QED BY <3>2, <3>6
  <2>2. "frame_rejected" \in Codes
    BY DEF Codes
  <2>3. Fail("frame_rejected") /\ UNCHANGED <<input, accepted>>
    BY <1>2, <1>11
  <2> QED BY <1>3, <2>1, <2>2, <2>3, FailKeeps
<1> QED
  BY <1>6, <1>9, <1>10, <1>11

\* That a message is settled, or refused, changes no reading.
LEMMA SettleKeeps == FrameInv /\ Settle => FrameInv'
<1> SUFFICES ASSUME FrameInv, Settle PROVE FrameInv'
  OBVIOUS
<1>1. FrameTypeOK /\ FillOK /\ ReadOK
  BY DEF FrameInv
<1>2. accepting /\ UNCHANGED <<input, accepted>>
  BY DEF Settle
<1>3. ~closed /\ accepted # <<>> /\ failure = Null
  BY <1>1, <1>2 DEF FillOK
<1>4. CASE Fail("frame_rejected")
  <2>1. "frame_rejected" \in Codes /\ "frame_rejected" # "truncated_frame"
        /\ "frame_rejected" # "invalid_frame_length"
    BY DEF Codes
  <2> QED BY <1>2, <1>3, <1>4, <2>1, FailKeeps
<1>5. CASE accepting' = FALSE /\ UNCHANGED <<header, length, body, busy, rest, closed, failure>>
  <2>1. FrameTypeOK'
    BY <1>1, <1>2, <1>5 DEF FrameTypeOK
  <2>2. FillOK'
    BY <1>1, <1>2, <1>5 DEF FillOK
  <2>3. ReadOK'
    BY <1>1, <1>2, <1>5 DEF ReadOK, Verdict, Pending
  <2> QED BY <2>1, <2>2, <2>3 DEF FrameInv
<1> QED
  BY <1>4, <1>5 DEF Settle

\* The end of a chunk changes no reading.
LEMMA EndConsumeKeeps == FrameInv /\ EndConsume => FrameInv'
<1> SUFFICES ASSUME FrameInv, EndConsume PROVE FrameInv'
  OBVIOUS
<1>1. FrameTypeOK /\ FillOK /\ ReadOK
  BY DEF FrameInv
<1>2. /\ busy /\ ~accepting /\ rest = <<>> /\ busy' = FALSE
      /\ UNCHANGED <<header, length, body, rest, accepting, closed, failure, input, accepted>>
  BY DEF EndConsume
<1>3. FrameTypeOK'
  BY <1>1, <1>2 DEF FrameTypeOK
<1>4. FillOK'
  BY <1>1, <1>2 DEF FillOK
<1>5. ReadOK'
  BY <1>1, <1>2 DEF ReadOK, Verdict, Pending
<1> QED
  BY <1>3, <1>4, <1>5 DEF FrameInv

\* The end of the stream is clean between two frames and "truncated_frame" within one.
LEMMA FinishKeeps == FrameInv /\ Finish => FrameInv'
<1> SUFFICES ASSUME FrameInv, Finish PROVE FrameInv'
  OBVIOUS
<1>1. FrameTypeOK /\ FillOK /\ ReadOK
  BY DEF FrameInv
<1>2. /\ ~closed /\ ~busy /\ closed' = TRUE
      /\ UNCHANGED <<busy, rest, accepting, input, accepted>>
  BY DEF Finish
<1>3. failure = Null /\ rest = <<>> /\ ~accepting
  BY <1>1, <1>2 DEF FillOK
<1>4. /\ header \in Seq(Bytes) /\ body \in Seq(Bytes)
      /\ header \o body \in Seq(Bytes) /\ Pending = header \o body
  <2>1. header \in Seq(Bytes) /\ body \in Seq(Bytes)
    BY <1>1 DEF FrameTypeOK
  <2>2. header \o body \in Seq(Bytes)
    BY <2>1, ConcatProperties
  <2> QED BY <1>3, <2>1, <2>2, ConcatEmptySeq DEF Pending
<1>5. CASE header # <<>>
  <2>1. header' = <<>> /\ length' = Null /\ body' = <<>> /\ failure' = "truncated_frame"
    BY <1>5 DEF Finish, Clear
  <2>2. What(Pending) = "truncated_frame"
    BY <1>1, <1>4, <1>5, PendingBegins
  <2>3. FrameTypeOK'
    BY <1>1, <1>2, <2>1 DEF FrameTypeOK, Codes
  <2>4. FillOK'
    BY <1>1, <1>2, <1>3, <2>1, ByteFacts DEF FillOK
  <2>5. ReadOK'
    <3>1. PICK cuts \in Cuts(input, accepted) : Verdict(After(input, cuts, accepted))
      BY <1>1 DEF ReadOK
    <3>2. After(input, cuts, accepted)' = Pending
      BY <1>2, <3>1 DEF Verdict
    <3>3. Verdict(After(input, cuts, accepted))'
      BY <1>2, <2>1, <2>2, <3>2, FrameAssumption DEF Verdict
    <3> QED BY <1>2, <3>3 DEF ReadOK
  <2> QED BY <2>3, <2>4, <2>5 DEF FrameInv
<1>6. CASE header = <<>>
  <2>1. UNCHANGED <<header, length, body, failure>>
    BY <1>6 DEF Finish
  <2>2. Pending = <<>>
    BY <1>1, <1>4, <1>6, PendingBegins
  <2>3. FrameTypeOK'
    BY <1>1, <1>2, <2>1 DEF FrameTypeOK
  <2>4. FillOK'
    BY <1>1, <1>2, <1>6, <2>1 DEF FillOK
  <2>5. ReadOK'
    <3>1. PICK cuts \in Cuts(input, accepted) : Verdict(After(input, cuts, accepted))
      BY <1>1 DEF ReadOK
    <3>2. After(input, cuts, accepted)' = <<>>
      BY <1>2, <2>2, <3>1 DEF Verdict
    <3>3. Verdict(After(input, cuts, accepted))'
      BY <1>2, <1>3, <2>1, <3>2, FrameAssumption DEF Verdict
    <3> QED BY <1>2, <3>3 DEF ReadOK
  <2> QED BY <2>3, <2>4, <2>5 DEF FrameInv
<1> QED
  BY <1>5, <1>6

\* Every step keeps the invariant.
LEMMA FrameStep == FrameInv /\ [FrameNext]_frameVars => FrameInv'
<1> SUFFICES ASSUME FrameInv, [FrameNext]_frameVars PROVE FrameInv'
  OBVIOUS
<1>1. CASE UNCHANGED frameVars
  <2>1. UNCHANGED <<FrameTypeOK, FillOK, ReadOK>>
    BY <1>1 DEF frameVars, FrameTypeOK, FillOK, ReadOK, Verdict, Pending
  <2> QED BY <2>1 DEF FrameInv
<1> QED
  BY <1>1, ConsumeKeeps, TakeHeaderKeeps, TakeBodyKeeps, SettleKeeps, EndConsumeKeeps, FinishKeeps
     DEF FrameNext

\* While the decoder is open its header, body and rest of the chunk are what follows the frames
\* of the messages it handed over; what it closed with is the verdict on what follows.
THEOREM FrameInvariant == FrameSpec => []FrameInv
  BY FrameInitially, FrameStep, PTL DEF FrameSpec

\* Between chunks and at the end, what the decoder holds is told by the input alone.
LEMMA InvariantSaysSplits == FrameInv => SplitsDoNotMatter
<1> SUFFICES ASSUME FrameInv PROVE SplitsDoNotMatter
  OBVIOUS
<1>1. FrameTypeOK /\ FillOK /\ ReadOK
  BY DEF FrameInv
<1>2. PICK cuts \in Cuts(input, accepted) : Verdict(After(input, cuts, accepted))
  BY <1>1 DEF ReadOK
<1> DEFINE left == After(input, cuts, accepted)
<1>3. ~busy /\ ~closed => What(left) \in {"clean", "truncated_frame"}
  <2> SUFFICES ASSUME ~busy, ~closed PROVE What(left) \in {"clean", "truncated_frame"}
    OBVIOUS
  <2>1. header \in Seq(Bytes) /\ body \in Seq(Bytes) /\ rest = <<>>
    BY <1>1 DEF FrameTypeOK, FillOK
  <2>2. header \o body \in Seq(Bytes)
    BY <2>1, ConcatProperties
  <2>3. left = header \o body
    BY <1>2, <2>1, <2>2, ConcatEmptySeq DEF Verdict, Pending
  <2>4. header = <<>> => What(left) = "clean"
    BY <1>1, <2>3, PendingBegins DEF What
  <2> QED BY <1>1, <2>3, <2>4, PendingBegins
<1>4. closed /\ failure \in {Null, "truncated_frame"} =>
        What(left) = IF failure = Null THEN "clean" ELSE failure
  BY <1>2, FrameAssumption DEF Verdict, What
<1>5. failure = "invalid_frame_length" \/ (failure = "frame_rejected" /\ accepted = <<>>) =>
        What(left) = "bad"
  BY <1>2 DEF Verdict
<1> QED
  BY <1>3, <1>4, <1>5 DEF SplitsDoNotMatter

\* However the bytes are split into chunks, the decoder hands over the messages that were encoded
\* and ends without a failure if and only if the input ends with a frame (framing.mjs, consume
\* and finish), for every size of bytes, header, message and input.
THEOREM SplitsNeverMatter == FrameSpec => []SplitsDoNotMatter
  BY FrameInvariant, InvariantSaysSplits, PTL

\* What the decoder holds stays bounded: a header, and a body that is shorter than its length,
\* which is at most MaxMessage (framing.mjs, bufferedBytes and allocatedBodyBytes).
BufferBounded == Len(header) + Len(body) < HeaderBytes + MaxMessage

LEMMA InvariantBoundsBuffer == FrameInv => BufferBounded
<1> SUFFICES ASSUME FrameTypeOK, FillOK PROVE BufferBounded
  BY DEF FrameInv
<1>1. HeaderBytes \in Nat \ {0} /\ MaxMessage \in Nat \ {0} /\ Len(body) \in Nat /\ Len(header) \in Nat
  BY ByteFacts DEF FrameTypeOK
<1>2. CASE length = Null
  BY <1>1, <1>2, EmptySeq DEF FillOK, BufferBounded
<1>3. CASE length # Null
  <2>1. length \in 1..MaxMessage /\ length \in Lengths
    BY <1>3, ByteFacts DEF FrameTypeOK
  <2>2. Len(header) = HeaderBytes /\ Len(body) < length
    BY <1>3, <2>1, HeaderSeq DEF FillOK
  <2> QED BY <1>1, <2>1, <2>2 DEF BufferBounded
<1> QED
  BY <1>2, <1>3

\* The types, and what is buffered, are right for any input (framing.mjs, consume).
THEOREM FrameTypes == FrameSpec => [](FrameTypeOK /\ BufferBounded)
<1>1. FrameInv => FrameTypeOK /\ BufferBounded
  BY InvariantBoundsBuffer DEF FrameInv
<1> QED
  BY <1>1, FrameInvariant, PTL

\* A decoder that failed or finished never changes again: nothing is taken, handed over or
\* reported after that (framing.mjs, decoder_closed).
FailsForGood == [][closed => UNCHANGED frameVars]_frameVars

\* FailsForGood holds of the specification: only a decoder that is open takes a step.
THEOREM FailsForGoodAlways == FrameSpec => FailsForGood
<1>1. FrameInv /\ [FrameNext]_frameVars => [closed => UNCHANGED frameVars]_frameVars
  <2> SUFFICES ASSUME FillOK, FrameNext, closed PROVE FALSE
    BY DEF FrameInv
  <2>1. ~busy /\ ~accepting
    BY DEF FillOK
  <2> QED
    BY <2>1 DEF FrameNext, Consume, TakeHeader, TakeBody, Looping, Settle, EndConsume, Finish
<1> QED
  BY <1>1, FrameInvariant, PTL DEF FrameSpec, FailsForGood

-----------------------------------------------------------------------------
(* The input has one reading *)

\* What follows a place in the input.
LEMMA From ==
  ASSUME NEW s \in Seq(Bytes), NEW a \in 0..Len(s), NEW b \in a..Len(s)
  PROVE  /\ SubSeq(s, a + 1, b) \in Seq(Bytes) /\ Len(SubSeq(s, a + 1, b)) = b - a
         /\ \A i \in 1..b - a : SubSeq(s, a + 1, b)[i] = s[a + i]
<1>1. Len(s) \in Nat /\ \A i \in 1..Len(s) : s[i] \in Bytes
  OBVIOUS
<1>2. a + 1 \in Int /\ b \in Int /\ \A i \in a + 1..b : s[i] \in Bytes
  BY <1>1
<1>3. /\ SubSeq(s, a + 1, b) \in Seq(Bytes)
      /\ Len(SubSeq(s, a + 1, b)) = IF a + 1 <= b THEN b - (a + 1) + 1 ELSE 0
      /\ \A i \in 1..b - (a + 1) + 1 : SubSeq(s, a + 1, b)[i] = s[a + 1 + i - 1]
  BY <1>2, SubSeqProperties
<1>4. Len(SubSeq(s, a + 1, b)) = b - a
  BY <1>1, <1>3
<1>5. \A i \in 1..b - a : i \in 1..b - (a + 1) + 1 /\ a + 1 + i - 1 = a + i
  BY <1>1
<1> QED
  BY <1>3, <1>4, <1>5

\* Frame k begins what follows cut k - 1, and ends at cut k.
LEMMA FrameAt ==
  ASSUME NEW s \in Seq(Bytes), NEW ms \in Seq(Messages), NEW cuts \in Cuts(s, ms), NEW k \in 1..Len(ms)
  PROVE  /\ ms[k] \in Messages
         /\ cuts[k - 1] \in 0..Len(s)
         /\ cuts[k] = cuts[k - 1] + Len(Frame(ms[k]))
         /\ SubSeq(s, cuts[k - 1] + 1, Len(s)) \in Seq(Bytes)
         /\ IsPrefix(Frame(ms[k]), SubSeq(s, cuts[k - 1] + 1, Len(s)))
<1> DEFINE a == cuts[k - 1]
           b == cuts[k]
           f == Frame(ms[k])
           r == SubSeq(s, a + 1, Len(s))
<1>1. Len(s) \in Nat /\ Len(ms) \in Nat /\ a \in 0..Len(s) /\ b \in 0..Len(s)
  <2>1. k - 1 \in 0..Len(ms) /\ k \in 0..Len(ms)
    BY CutFacts
  <2> QED BY <2>1, CutFacts
<1>2. ms[k] \in Messages /\ SubSeq(s, a + 1, b) = f
  BY DEF Cuts
<1>3. f \in Seq(Bytes) /\ Len(f) \in Nat \ {0}
  BY <1>2, FrameType, BodyType, ByteFacts
<1> HIDE DEF a, b, f, r
<1>4. a < b
  <2> SUFFICES ASSUME ~(a < b) PROVE FALSE
    OBVIOUS
  <2>1. a + 1 \in Int /\ b \in Int /\ b < a + 1
    BY <1>1
  <2>2. f = <<>>
    BY <1>2, <2>1, SubSeqEmpty
  <2> QED BY <1>3, <2>2
<1>5. b \in a..Len(s) /\ Len(s) \in a..Len(s)
  BY <1>1, <1>4
<1>6. Len(f) = b - a /\ \A i \in 1..b - a : f[i] = s[a + i]
  BY <1>1, <1>2, <1>5, From
<1>7. /\ r \in Seq(Bytes) /\ Len(r) = Len(s) - a
      /\ \A i \in 1..Len(s) - a : r[i] = s[a + i]
  BY <1>1, <1>5, From DEF r
<1>8. b = a + Len(f) /\ Len(f) <= Len(r)
  BY <1>1, <1>3, <1>6, <1>7
<1>9. \A i \in 1..Len(f) : i \in 1..b - a /\ i \in 1..Len(s) - a
  BY <1>1, <1>3, <1>6
<1>10. IsPrefix(f, r)
  BY <1>3, <1>6, <1>7, <1>8, <1>9, PrefixIsPointwise
<1> QED
  BY <1>1, <1>2, <1>7, <1>8, <1>10 DEF a, b, f, r

\* Two readings have the same frames, as far as both go.
LEMMA SameCuts ==
  ASSUME NEW s \in Seq(Bytes), NEW ms \in Seq(Messages), NEW ns \in Seq(Messages),
         NEW cuts \in Cuts(s, ms), NEW ends \in Cuts(s, ns), Len(ms) <= Len(ns)
  PROVE  \A k \in 0..Len(ms) : cuts[k] = ends[k] /\ (k # 0 => ms[k] = ns[k])
<1> DEFINE T == {k \in 0..Len(ms) : ~(cuts[k] = ends[k] /\ (k # 0 => ms[k] = ns[k]))}
<1> SUFFICES ASSUME NEW t \in T PROVE FALSE
  OBVIOUS
<1>1. Len(ms) \in Nat /\ Len(ns) \in Nat
  OBVIOUS
<1>2. PICK x \in T : \A y \in T : x <= y
  <2>1. T \subseteq Nat
    BY <1>1
  <2> HIDE DEF T
  <2> QED BY <2>1, LeastNatural
<1>3. x # 0
  BY <1>2 DEF Cuts
<1>4. x \in 1..Len(ms) /\ x \in 1..Len(ns) /\ x - 1 \in 0..Len(ms) /\ ~(x <= x - 1)
  BY <1>1, <1>2, <1>3
<1>5. x - 1 \notin T
  BY <1>2, <1>4
<1>6. cuts[x - 1] = ends[x - 1]
  BY <1>4, <1>5
<1> DEFINE r == SubSeq(s, cuts[x - 1] + 1, Len(s))
<1>7. /\ ms[x] \in Messages /\ cuts[x] = cuts[x - 1] + Len(Frame(ms[x]))
      /\ r \in Seq(Bytes) /\ IsPrefix(Frame(ms[x]), r)
  BY <1>4, FrameAt
<1>8. ns[x] \in Messages /\ ends[x] = cuts[x - 1] + Len(Frame(ns[x])) /\ IsPrefix(Frame(ns[x]), r)
  BY <1>4, <1>6, FrameAt
<1> HIDE DEF r
<1>9. ms[x] = ns[x]
  BY <1>7, <1>8, PrefixFree, ByteFacts
<1> QED
  BY <1>2, <1>7, <1>8, <1>9

\* A reading that leaves no message is no shorter than another.
LEMMA NoLonger ==
  ASSUME NEW s \in Seq(Bytes), NEW ms \in Seq(Messages), NEW ns \in Seq(Messages),
         NEW cuts \in Cuts(s, ms), NEW ends \in Cuts(s, ns),
         What(After(s, cuts, ms)) # "message"
  PROVE  ~(Len(ms) < Len(ns))
<1> SUFFICES ASSUME Len(ms) < Len(ns) PROVE FALSE
  OBVIOUS
<1> DEFINE k == Len(ms) + 1
<1>1. k \in 1..Len(ns) /\ k - 1 = Len(ms) /\ Len(ms) \in 0..Len(ms) /\ Len(ms) <= Len(ns)
  OBVIOUS
<1>2. cuts[Len(ms)] = ends[Len(ms)]
  BY <1>1, SameCuts
<1>3. ns[k] \in Messages /\ IsPrefix(Frame(ns[k]), After(s, cuts, ms))
  <2>1. ns[k] \in Messages /\ IsPrefix(Frame(ns[k]), SubSeq(s, ends[k - 1] + 1, Len(s)))
    BY <1>1, FrameAt
  <2> QED BY <1>1, <1>2, <2>1 DEF After
<1>4. After(s, cuts, ms) # <<>>
  <2>1. Len(Frame(ns[k])) \in Nat \ {0}
    BY <1>3, FrameType, BodyType, ByteFacts
  <2> QED BY <1>3, <2>1 DEF IsPrefix
<1> QED
  BY <1>3, <1>4 DEF What

\* The input has one reading: messages that are all the frames it begins with, and what follows
\* them, are told by the bytes alone.  SplitsDoNotMatter says of one reading what holds of all.
THEOREM OneReading ==
  ASSUME NEW s \in Seq(Bytes), NEW ms \in Seq(Messages), NEW ns \in Seq(Messages),
         NEW cuts \in Cuts(s, ms), NEW ends \in Cuts(s, ns),
         What(After(s, cuts, ms)) # "message", What(After(s, ends, ns)) # "message"
  PROVE  ms = ns /\ After(s, cuts, ms) = After(s, ends, ns)
<1>1. Len(ms) \in Nat /\ Len(ns) \in Nat
  OBVIOUS
<1>2. Len(ms) = Len(ns)
  BY <1>1, NoLonger
<1>3. \A k \in 0..Len(ms) : cuts[k] = ends[k] /\ (k # 0 => ms[k] = ns[k])
  BY <1>1, <1>2, SameCuts
<1>4. ms = ns
  BY <1>1, <1>2, <1>3, SeqEqual
<1>5. cuts[Len(ms)] = ends[Len(ns)]
  BY <1>1, <1>2, <1>3
<1> QED
  BY <1>2, <1>4, <1>5 DEF After
=============================================================================
