---------------------------- MODULE EpsCrcProofs ----------------------------
(***************************************************************************)
(* What the CRC of the frames computes and what it detects, proved for     *)
(* payloads of any bytes and for any damage on the bus.                    *)
(***************************************************************************)
EXTENDS EpsCrc, WellFoundedInduction, FiniteSetTheorems, TLAPS

-----------------------------------------------------------------------------
(***************************************************************************)
(* Polynomials over the integers modulo 2: membership of each exponent.    *)
(***************************************************************************)
LEMMA SumMember ==
    ASSUME NEW P, NEW Q, NEW e
    PROVE  e \in SymDiff(P, Q) <=> ~(e \in P <=> e \in Q)
  BY DEF SymDiff

LEMMA SumType ==
    /\ \A P, Q \in SUBSET Nat : SymDiff(P, Q) \in SUBSET Nat
    /\ \A P, Q \in SUBSET Int : SymDiff(P, Q) \in SUBSET Int
  BY DEF SymDiff

LEMMA ByteType ==
    ASSUME NEW b \in Byte
    PROVE  b \in SUBSET Nat /\ b \in SUBSET Int /\ \A e \in b : e <= 7
  BY DEF Byte, Bit

LEMMA TimesMember ==
    ASSUME NEW P \in SUBSET Int, NEW k \in Int
    PROVE  /\ Times(P, k) \in SUBSET Int
           /\ \A e \in Int : e \in Times(P, k) <=> e - k \in P
  BY DEF Times

LEMMA TimesNat ==
    ASSUME NEW P \in SUBSET Nat, NEW k \in Nat
    PROVE  Times(P, k) \in SUBSET Nat
  BY DEF Times

LEMMA ProductMember ==
    ASSUME NEW q \in SUBSET Nat
    PROVE  /\ Product(q) \in SUBSET Nat
           /\ \A e \in Int : e \in Product(q) <=>
                  ~(~(e - 8 \in q <=> e - 5 \in q) <=> ~(e - 4 \in q <=> e \in q))
  <1>1. /\ Times(q, 8) \in SUBSET Nat /\ Times(q, 5) \in SUBSET Nat
        /\ Times(q, 4) \in SUBSET Nat
    BY TimesNat
  <1>2. Product(q) \in SUBSET Nat
    BY <1>1 DEF Product, SymDiff
  <1>3. \A e \in Int : /\ e \in Times(q, 8) <=> e - 8 \in q
                       /\ e \in Times(q, 5) <=> e - 5 \in q
                       /\ e \in Times(q, 4) <=> e - 4 \in q
    BY TimesMember
  <1>4. ASSUME NEW e \in Int
        PROVE  e \in Product(q) <=>
                  ~(~(e - 8 \in q <=> e - 5 \in q) <=> ~(e - 4 \in q <=> e \in q))
    BY <1>3, SumMember DEF Product
  <1> QED
    BY <1>2, <1>4

(***************************************************************************)
(* The product distributes over sums, and over shifts.                     *)
(***************************************************************************)
LEMMA ProductOfSum ==
    ASSUME NEW q \in SUBSET Nat, NEW r \in SUBSET Nat
    PROVE  Product(SymDiff(q, r)) = SymDiff(Product(q), Product(r))
  <1> DEFINE s == SymDiff(q, r)
  <1>1. s \in SUBSET Nat /\ \A e : e \in s <=> ~(e \in q <=> e \in r)
    BY DEF SymDiff
  <1> HIDE DEF s
  <1>2. Product(s) \subseteq Int /\ SymDiff(Product(q), Product(r)) \subseteq Int
    BY <1>1, ProductMember DEF SymDiff
  <1>3. ASSUME NEW e \in Int
        PROVE  e \in Product(s) <=> e \in SymDiff(Product(q), Product(r))
    BY <1>1, ProductMember, SumMember
  <1> QED
    BY <1>2, <1>3 DEF s

LEMMA ProductOfTimes ==
    ASSUME NEW q \in SUBSET Nat, NEW k \in Nat
    PROVE  Product(Times(q, k)) = Times(Product(q), k)
  <1> DEFINE s == Times(q, k)
  <1>1. s \in SUBSET Nat /\ \A e \in Int : e \in s <=> e - k \in q
    BY TimesNat, TimesMember
  <1> HIDE DEF s
  <1>2. Product(q) \in SUBSET Int
    BY ProductMember
  <1>3. Product(s) \subseteq Int /\ Times(Product(q), k) \subseteq Int
    BY <1>1, <1>2, ProductMember, TimesMember
  <1>4. ASSUME NEW e \in Int
        PROVE  e \in Product(s) <=> e \in Times(Product(q), k)
    <2>1. e \in Times(Product(q), k) <=> e - k \in Product(q)
      BY <1>2, TimesMember
    <2>2. /\ (e - 8) - k = (e - k) - 8 /\ (e - 5) - k = (e - k) - 5
          /\ (e - 4) - k = (e - k) - 4
      OBVIOUS
    <2>3. e - k \in Product(q) <=>
             ~(~((e - k) - 8 \in q <=> (e - k) - 5 \in q)
                   <=> ~((e - k) - 4 \in q <=> e - k \in q))
      BY ProductMember
    <2>4. e \in Product(s) <=>
             ~(~((e - 8) - k \in q <=> (e - 5) - k \in q)
                   <=> ~((e - 4) - k \in q <=> e - k \in q))
      BY <1>1, ProductMember
    <2> QED
      BY <2>1, <2>2, <2>3, <2>4
  <1> QED
    BY <1>3, <1>4 DEF s

-----------------------------------------------------------------------------
(***************************************************************************)
(* A set of naturals that is not empty has a least element, and a greatest *)
(* one if it is bounded.                                                   *)
(***************************************************************************)
LEMMA Least ==
    ASSUME NEW S \in SUBSET Nat, S # {}
    PROVE  \E a \in S : \A e \in S : a <= e
  <1>1. \E a \in S : \A e \in S : ~ (<<e, a>> \in OpToRel(<, Nat))
    BY NatLessThanWellFounded, WFMin
  <1>2. \A a, e \in S : ~ (<<e, a>> \in OpToRel(<, Nat)) => a <= e
    BY DEF OpToRel
  <1> QED
    BY <1>1, <1>2

LEMMA Greatest ==
    ASSUME NEW m \in Nat, NEW S \in SUBSET (0..m), S # {}
    PROVE  \E b \in S : \A e \in S : e <= b
  <1> DEFINE T == {m - e : e \in S}
  <1>1. T \in SUBSET Nat /\ T # {}
    <2>1. \A e \in S : m - e \in Nat
      OBVIOUS
    <2> QED
      BY <2>1
  <1>2. PICK a \in T : \A e \in T : a <= e
    <2> HIDE DEF T
    <2> QED
      BY <1>1, Least
  <1>3. PICK b \in S : a = m - b
    BY <1>2
  <1>4. ASSUME NEW e \in S
        PROVE  e <= b
    <2>1. m - e \in T
      OBVIOUS
    <2>2. m - b <= m - e
      BY <1>2, <1>3, <2>1
    <2>3. m \in Int /\ e \in Int /\ b \in Int
      OBVIOUS
    <2> QED
      BY <2>2, <2>3
  <1> QED
    BY <1>4

(***************************************************************************)
(* A polynomial that is a multiple of x^8 + x^5 + x^4 + 1, and not zero,   *)
(* spans more than 8 exponents.                                            *)
(***************************************************************************)
LEMMA MultiplesAreWide ==
    ASSUME NEW m \in Nat, NEW q \in SUBSET (0..m), NEW a \in Nat,
           Product(q) \subseteq a..(a + 7)
    PROVE  q = {}
  <1> SUFFICES ASSUME q # {} PROVE FALSE
    OBVIOUS
  <1>1. q \in SUBSET Nat
    OBVIOUS
  <1>2. PICK low \in q : \A e \in q : low <= e
    BY <1>1, Least
  <1>3. PICK high \in q : \A e \in q : e <= high
    BY Greatest
  <1>4. low \in Product(q)
    <2>1. low - 8 \notin q /\ low - 5 \notin q /\ low - 4 \notin q /\ low \in q
      BY <1>1, <1>2
    <2> QED
      BY <1>1, <2>1, ProductMember
  <1>5. high + 8 \in Product(q)
    <2>1. /\ (high + 8) - 8 \in q /\ (high + 8) - 5 \notin q
          /\ (high + 8) - 4 \notin q /\ high + 8 \notin q /\ high + 8 \in Int
      BY <1>1, <1>3
    <2> QED
      BY <1>1, <2>1, ProductMember
  <1> QED
    BY <1>1, <1>2, <1>3, <1>4, <1>5

-----------------------------------------------------------------------------
(***************************************************************************)
(* One round of the inner loop divides: what shifted the polynomial P by   *)
(* one term is the product of the quotient, shifted and with a new lowest  *)
(* term if a bit left the register, plus the register of the next round.   *)
(***************************************************************************)
Digit(c) == IF 7 \in c THEN {0} ELSE {}

LEMMA ShiftedMember ==
    ASSUME NEW c \in Byte
    PROVE  /\ Shifted(c) \in Byte
           /\ \A e \in Int : e \in Shifted(c) <=>
                  ~(e \in 1..7 /\ e - 1 \in c <=> e \in {5, 4, 0} /\ 7 \in c)
  <1>1. \A e \in Int : e \in Times(c \ {7}, 1) <=> e \in 1..7 /\ e - 1 \in c
    BY TimesMember DEF Byte, Bit
  <1>2. \A e : e \in (IF 7 \in c THEN {5, 4, 0} ELSE {}) <=> e \in {5, 4, 0} /\ 7 \in c
    OBVIOUS
  <1>3. ASSUME NEW e \in Int
        PROVE  e \in Shifted(c) <=>
                  ~(e \in 1..7 /\ e - 1 \in c <=> e \in {5, 4, 0} /\ 7 \in c)
    <2> DEFINE A == Times(c \ {7}, 1)
               B == IF 7 \in c THEN {5, 4, 0} ELSE {}
    <2>1. e \in A <=> e \in 1..7 /\ e - 1 \in c
      BY <1>1
    <2>2. e \in B <=> e \in {5, 4, 0} /\ 7 \in c
      BY <1>2
    <2>3. Shifted(c) = SymDiff(A, B)
      BY DEF Shifted
    <2> HIDE DEF A, B
    <2> QED
      BY <2>1, <2>2, <2>3, SumMember
  <1>4. Shifted(c) \subseteq Int
    BY TimesMember DEF Shifted, SymDiff, Byte, Bit
  <1>5. Shifted(c) \in Byte
    BY <1>3, <1>4 DEF Byte, Bit
  <1> QED
    BY <1>3, <1>5

LEMMA RoundDivides ==
    ASSUME NEW P \in SUBSET Nat, NEW q \in SUBSET Nat, NEW c \in Byte,
           P = SymDiff(Product(q), c)
    PROVE  Times(P, 1) = SymDiff(Product(Times(q, 1) \cup Digit(c)), Shifted(c))
  <1> DEFINE r == Times(q, 1) \cup Digit(c)
  <1>1. r \in SUBSET Nat
    BY TimesNat DEF Digit
  <1>2. \A e \in Int : e \in r <=> e - 1 \in q \/ (e = 0 /\ 7 \in c)
    BY TimesMember DEF Digit
  <1> HIDE DEF r
  <1>3. Product(r) \subseteq Nat /\ Product(q) \subseteq Nat
    BY <1>1, ProductMember
  <1>4. /\ Times(P, 1) \subseteq Int
        /\ SymDiff(Product(r), Shifted(c)) \subseteq Int
    BY <1>3, TimesMember, ShiftedMember DEF SymDiff, Byte, Bit
  <1>5. ASSUME NEW e \in Int
        PROVE  e \in Times(P, 1) <=> e \in SymDiff(Product(r), Shifted(c))
    <2>1. e \in Times(P, 1) <=> ~(e - 1 \in Product(q) <=> e - 1 \in c)
      BY TimesMember, SumMember
    <2>2. e - 1 \in Product(q) <=>
             ~(~(e - 9 \in q <=> e - 6 \in q) <=> ~(e - 5 \in q <=> e - 1 \in q))
      BY ProductMember
    <2>3. e \in Product(r) <=>
             ~(~(e - 8 \in r <=> e - 5 \in r) <=> ~(e - 4 \in r <=> e \in r))
      BY <1>1, ProductMember
    <2>4. /\ e - 8 \in r <=> e - 9 \in q \/ (e = 8 /\ 7 \in c)
          /\ e - 5 \in r <=> e - 6 \in q \/ (e = 5 /\ 7 \in c)
          /\ e - 4 \in r <=> e - 5 \in q \/ (e = 4 /\ 7 \in c)
          /\ e \in r <=> e - 1 \in q \/ (e = 0 /\ 7 \in c)
      BY <1>2
    <2>5. /\ e = 8 => e - 9 \notin q
          /\ e = 5 => e - 6 \notin q
          /\ e = 4 => e - 5 \notin q
          /\ e = 0 => e - 1 \notin q
      OBVIOUS
    <2>6. e - 1 \in c <=> \/ e \in 1..7 /\ e - 1 \in c
                          \/ e = 8 /\ 7 \in c
      BY DEF Byte, Bit
    <2>7. e \in Shifted(c) <=>
             ~(e \in 1..7 /\ e - 1 \in c <=> e \in {5, 4, 0} /\ 7 \in c)
      BY ShiftedMember
    <2>8. e \in SymDiff(Product(r), Shifted(c)) <=> ~(e \in Product(r) <=> e \in Shifted(c))
      BY SumMember
    <2> QED
      BY <2>1, <2>2, <2>3, <2>4, <2>5, <2>6, <2>7, <2>8
  <1> QED
    BY <1>4, <1>5 DEF r

LEMMA TimesZero ==
    ASSUME NEW P \in SUBSET Int
    PROVE  Times(P, 0) = P
  <1>1. Times(P, 0) \subseteq Int /\ \A e \in Int : e \in Times(P, 0) <=> e - 0 \in P
    BY TimesMember
  <1>2. \A e \in Int : e - 0 = e
    OBVIOUS
  <1> QED
    BY <1>1, <1>2

LEMMA TimesTwice ==
    ASSUME NEW P \in SUBSET Int, NEW k \in Int, NEW l \in Int
    PROVE  Times(Times(P, k), l) = Times(P, k + l)
  <1>1. Times(Times(P, k), l) \subseteq Int /\ Times(P, k + l) \subseteq Int
    BY TimesMember
  <1>2. \A e \in Int : e \in Times(Times(P, k), l) <=> e \in Times(P, k + l)
    BY TimesMember
  <1> QED
    BY <1>1, <1>2

\* The rounds are rounds.
LEMMA RoundsAre ==
    ASSUME NEW c \in Byte
    PROVE  /\ Rounds(c)[1] = c
           /\ \A k \in 1..8 : Rounds(c)[k + 1] = Shifted(Rounds(c)[k])
           /\ \A k \in 1..9 : Rounds(c)[k] \in Byte
  <1>1. Rounds(c)[1] = c
    BY DEF Rounds
  <1>2. ASSUME NEW k \in 1..8
        PROVE  Rounds(c)[k + 1] = Shifted(Rounds(c)[k])
    <2>1. k \in {1, 2, 3, 4, 5, 6, 7, 8}
      OBVIOUS
    <2>2. /\ Rounds(c)[2] = Shifted(Rounds(c)[1])
          /\ Rounds(c)[3] = Shifted(Rounds(c)[2])
          /\ Rounds(c)[4] = Shifted(Rounds(c)[3])
          /\ Rounds(c)[5] = Shifted(Rounds(c)[4])
          /\ Rounds(c)[6] = Shifted(Rounds(c)[5])
          /\ Rounds(c)[7] = Shifted(Rounds(c)[6])
          /\ Rounds(c)[8] = Shifted(Rounds(c)[7])
          /\ Rounds(c)[9] = Shifted(Rounds(c)[8])
      BY DEF Rounds
    <2> QED
      BY <2>1, <2>2
  <1>3. ASSUME NEW k \in 1..8, Rounds(c)[k] \in Byte
        PROVE  Rounds(c)[k + 1] \in Byte
    BY <1>2, <1>3, ShiftedMember
  <1>4. /\ Rounds(c)[1] \in Byte /\ Rounds(c)[2] \in Byte /\ Rounds(c)[3] \in Byte
        /\ Rounds(c)[4] \in Byte /\ Rounds(c)[5] \in Byte /\ Rounds(c)[6] \in Byte
        /\ Rounds(c)[7] \in Byte /\ Rounds(c)[8] \in Byte /\ Rounds(c)[9] \in Byte
    BY <1>1, <1>3
  <1> QED
    BY <1>1, <1>2, <1>4

(***************************************************************************)
(* The eight rounds of a byte divide the polynomial times x^8.             *)
(***************************************************************************)
LEMMA RoundsDivide ==
    ASSUME NEW P \in SUBSET Nat, NEW q \in SUBSET Nat, NEW c \in Byte,
           P = SymDiff(Product(q), c)
    PROVE  LET r == Times(q, 8) \cup {8 - k : k \in {n \in 1..8 : 7 \in Rounds(c)[n]}} IN
           /\ r \in SUBSET Nat
           /\ Times(P, 8) = SymDiff(Product(r), Rounds(c)[9])
  <1> DEFINE reg == Rounds(c)
             Q(k) == Times(q, k) \cup {k - j : j \in {n \in 1..k : 7 \in reg[n]}}
  <1>1. /\ reg[1] = c
        /\ \A k \in 1..8 : reg[k + 1] = Shifted(reg[k])
        /\ \A k \in 1..9 : reg[k] \in Byte
    BY RoundsAre
  <1> HIDE DEF reg
  <1>2. \A k \in Nat : Q(k) \in SUBSET Nat
    BY TimesNat
  <1>3. ASSUME NEW k \in Nat, NEW e \in Int
        PROVE  e \in Q(k) <=> e - k \in q \/ (k - e \in 1..k /\ 7 \in reg[k - e])
    BY TimesMember
  <1>4. ASSUME NEW k \in Nat
        PROVE  Q(k + 1) = Times(Q(k), 1) \cup Digit(reg[k + 1])
    <2>1. \A e \in Int : e \in Q(k + 1) <=>
              \/ e - (k + 1) \in q
              \/ (k + 1) - e \in 1..(k + 1) /\ 7 \in reg[(k + 1) - e]
      BY <1>3
    <2>2. \A e \in Int : e - 1 \in Q(k) <=>
              \/ (e - 1) - k \in q
              \/ k - (e - 1) \in 1..k /\ 7 \in reg[k - (e - 1)]
      BY <1>3
    <2>3. Q(k) \in SUBSET Int /\ Q(k + 1) \in SUBSET Int
      BY <1>2
    <2> HIDE DEF Q
    <2>4. ASSUME NEW e \in Int
          PROVE  e \in Q(k + 1) <=> e - 1 \in Q(k) \/ (e = 0 /\ 7 \in reg[k + 1])
      <3>1. e - (k + 1) = (e - 1) - k /\ (k + 1) - e = k - (e - 1)
        OBVIOUS
      <3>2. (k + 1) - e \in 1..(k + 1) <=> k - (e - 1) \in 1..k \/ e = 0
        OBVIOUS
      <3>3. e = 0 => (k + 1) - e = k + 1
        OBVIOUS
      <3> QED
        BY <2>1, <2>2, <3>1, <3>2, <3>3
    <2>5. \A e \in Int : e \in Times(Q(k), 1) \cup Digit(reg[k + 1]) <=>
              e - 1 \in Q(k) \/ (e = 0 /\ 7 \in reg[k + 1])
      BY <2>3, TimesMember DEF Digit
    <2>6. Times(Q(k), 1) \cup Digit(reg[k + 1]) \subseteq Int
      BY <2>3, TimesMember DEF Digit
    <2> QED
      BY <2>3, <2>4, <2>5, <2>6
  <1>5. ASSUME NEW k \in 0..7, Times(P, k) = SymDiff(Product(Q(k)), reg[k + 1])
        PROVE  Times(P, k + 1) = SymDiff(Product(Q(k + 1)), reg[k + 2])
    <2>0. k \in Nat
      OBVIOUS
    <2> HIDE DEF Q
    <2>1. /\ Times(P, k) \in SUBSET Nat /\ Q(k) \in SUBSET Nat
          /\ reg[k + 1] \in Byte /\ reg[k + 2] = Shifted(reg[k + 1])
      BY <1>1, <1>2, <2>0, TimesNat
    <2>2. Times(Times(P, k), 1) = Times(P, k + 1)
      BY TimesTwice
    <2>3. Q(k + 1) = Times(Q(k), 1) \cup Digit(reg[k + 1])
      BY <1>4, <2>0
    <2> QED
      BY <1>5, <2>1, <2>2, <2>3, RoundDivides
  <1>6. Times(P, 0) = SymDiff(Product(Q(0)), reg[1])
    <2>1. Times(P, 0) = P
      BY TimesZero
    <2>2. Q(0) = q
      <3>1. 1..0 = {}
        OBVIOUS
      <3>2. Times(q, 0) = q
        BY TimesZero
      <3> QED
        BY <3>1, <3>2
    <2> QED
      BY <1>1, <2>1, <2>2
  <1> HIDE DEF Q
  <1>7. Times(P, 8) = SymDiff(Product(Q(8)), reg[9])
    <2>1. Times(P, 1) = SymDiff(Product(Q(1)), reg[2])
      BY <1>5, <1>6
    <2>2. Times(P, 2) = SymDiff(Product(Q(2)), reg[3])
      BY <1>5, <2>1
    <2>3. Times(P, 3) = SymDiff(Product(Q(3)), reg[4])
      BY <1>5, <2>2
    <2>4. Times(P, 4) = SymDiff(Product(Q(4)), reg[5])
      BY <1>5, <2>3
    <2>5. Times(P, 5) = SymDiff(Product(Q(5)), reg[6])
      BY <1>5, <2>4
    <2>6. Times(P, 6) = SymDiff(Product(Q(6)), reg[7])
      BY <1>5, <2>5
    <2>7. Times(P, 7) = SymDiff(Product(Q(7)), reg[8])
      BY <1>5, <2>6
    <2> QED
      BY <1>5, <2>7
  <1> QED
    BY <1>2, <1>7 DEF Q, reg

-----------------------------------------------------------------------------
(***************************************************************************)
(* The polynomial of a byte sequence, one byte at a time.                  *)
(***************************************************************************)
LEMMA TermsMember ==
    ASSUME NEW bytes \in Seq(Byte), NEW n \in 0..Len(bytes)
    PROVE  /\ Terms(bytes, n) \in SUBSET Nat
           /\ \A e \in Int :
                  e \in Terms(bytes, n) <=> \E j \in 1..n : e - 8 * (n - j) \in bytes[j]
  <1>1. \A j \in 1..n : bytes[j] \in SUBSET Nat /\ 8 * (n - j) \in Nat
    BY DEF Byte, Bit
  <1>2. \A j \in 1..n : Times(bytes[j], 8 * (n - j)) \in SUBSET Nat
    BY <1>1, TimesNat
  <1>3. \A j \in 1..n, e \in Int :
            e \in Times(bytes[j], 8 * (n - j)) <=> e - 8 * (n - j) \in bytes[j]
    <2> TAKE j \in 1..n, e \in Int
    <2>1. bytes[j] \in SUBSET Int /\ 8 * (n - j) \in Int
      BY <1>1
    <2> QED
      BY <2>1, TimesMember
  <1> QED
    BY <1>2, <1>3 DEF Terms

LEMMA TermsNext ==
    ASSUME NEW bytes \in Seq(Byte), NEW n \in Nat, n < Len(bytes)
    PROVE  Terms(bytes, n + 1) = SymDiff(Times(Terms(bytes, n), 8), bytes[n + 1])
  <1> DEFINE old == Terms(bytes, n)
             new == Terms(bytes, n + 1)
             byte == bytes[n + 1]
  <1>1. n \in 0..Len(bytes) /\ n + 1 \in 0..Len(bytes) /\ byte \in Byte
    OBVIOUS
  <1>2. /\ old \in SUBSET Nat
        /\ \A e \in Int : e \in old <=> \E j \in 1..n : e - 8 * (n - j) \in bytes[j]
    BY <1>1, TermsMember
  <1>3. /\ new \in SUBSET Nat
        /\ \A e \in Int :
               e \in new <=> \E j \in 1..(n + 1) : e - 8 * ((n + 1) - j) \in bytes[j]
    BY <1>1, TermsMember
  <1> HIDE DEF old, new
  <1>4. ASSUME NEW e \in Int
        PROVE  e \in new <=> e - 8 \in old \/ e \in byte
    <2>1. \A j \in 1..n : e - 8 * ((n + 1) - j) = (e - 8) - 8 * (n - j)
      OBVIOUS
    <2>2. e - 8 \in old <=> \E j \in 1..n : e - 8 * ((n + 1) - j) \in bytes[j]
      BY <1>2, <2>1
    <2>3. e - 8 * ((n + 1) - (n + 1)) = e
      OBVIOUS
    <2>4. 1..(n + 1) = 1..n \cup {n + 1}
      OBVIOUS
    <2> QED
      BY <1>3, <2>2, <2>3, <2>4
  <1>5. \A e \in Int : e - 8 \in old => e \notin byte
    <2> TAKE e \in Int
    <2>1. e \in byte => e <= 7
      BY <1>1, ByteType
    <2>2. e - 8 \in old => e - 8 >= 0
      BY <1>2
    <2> QED
      BY <2>1, <2>2
  <1> HIDE DEF byte
  <1>6. \A e \in Int : e \in SymDiff(Times(old, 8), byte) <=>
                          ~(e - 8 \in old <=> e \in byte)
    <2> TAKE e \in Int
    <2>1. e \in Times(old, 8) <=> e - 8 \in old
      BY <1>2, TimesMember
    <2> QED
      BY <2>1, SumMember
  <1>7. SymDiff(Times(old, 8), byte) \subseteq Int
    <2>1. Times(old, 8) \in SUBSET Int /\ byte \in SUBSET Int
      BY <1>1, <1>2, TimesMember, ByteType
    <2> QED
      BY <2>1, SumType
  <1>8. new = SymDiff(Times(old, 8), byte)
    <2>1. ASSUME NEW e \in Int
          PROVE  e \in new <=> e \in SymDiff(Times(old, 8), byte)
      BY <1>4, <1>5, <1>6
    <2>2. new \subseteq Int
      BY <1>3
    <2> QED
      BY <1>7, <2>1, <2>2
  <1> QED
    BY <1>8 DEF old, new, byte

\* Sums in any order.
LEMMA SumShift ==
    ASSUME NEW P \in SUBSET Int, NEW Q \in SUBSET Int, NEW k \in Int
    PROVE  Times(SymDiff(P, Q), k) = SymDiff(Times(P, k), Times(Q, k))
  <1>1. SymDiff(P, Q) \in SUBSET Int
    BY DEF SymDiff
  <1>2. /\ Times(SymDiff(P, Q), k) \subseteq Int
        /\ SymDiff(Times(P, k), Times(Q, k)) \subseteq Int
    BY <1>1, TimesMember DEF SymDiff
  <1>3. \A e \in Int : e \in Times(SymDiff(P, Q), k) <=> e - k \in SymDiff(P, Q)
    BY <1>1, TimesMember
  <1>4. \A e \in Int : e \in SymDiff(Times(P, k), Times(Q, k)) <=>
                          ~(e - k \in P <=> e - k \in Q)
    BY TimesMember, SumMember
  <1>5. \A e \in Int : e - k \in SymDiff(P, Q) <=> ~(e - k \in P <=> e - k \in Q)
    BY SumMember
  <1> QED
    BY <1>2, <1>3, <1>4, <1>5

LEMMA SumAssociates ==
    ASSUME NEW P, NEW Q, NEW R
    PROVE  SymDiff(SymDiff(P, Q), R) = SymDiff(P, SymDiff(Q, R))
  BY DEF SymDiff

LEMMA PolynomialNext ==
    ASSUME NEW bytes \in Seq(Byte), NEW n \in Nat, n < Len(bytes)
    PROVE  /\ Polynomial(bytes, n) \in SUBSET Nat
           /\ Polynomial(bytes, n + 1) =
                  Times(SymDiff(Polynomial(bytes, n), bytes[n + 1]), 8)
  <1> DEFINE lead == Times(Bit, 8 * n)
             terms == Times(Terms(bytes, n), 8)
             byte == bytes[n + 1]
  <1>1. n \in 0..Len(bytes) /\ byte \in Byte /\ 8 * n \in Nat
    OBVIOUS
  <1>2. Terms(bytes, n) \in SUBSET Nat
    BY <1>1, TermsMember
  <1>3. lead \in SUBSET Nat /\ terms \in SUBSET Nat
    BY <1>1, <1>2, TimesNat DEF Bit
  <1>4. Times(Bit, 8 * (n + 1)) = Times(lead, 8)
    <2>1. 8 * (n + 1) = 8 * n + 8 /\ Bit \in SUBSET Int /\ 8 * n \in Int /\ 8 \in Int
      BY DEF Bit
    <2> QED
      BY <2>1, TimesTwice
  <1>5. Terms(bytes, n + 1) = SymDiff(terms, byte)
    BY TermsNext
  <1>6. Polynomial(bytes, n) = SymDiff(lead, terms)
    BY DEF Polynomial
  <1>7. Polynomial(bytes, n + 1) = SymDiff(Times(lead, 8), Times(SymDiff(terms, byte), 8))
    BY <1>4, <1>5 DEF Polynomial
  <1> HIDE DEF lead, terms, byte
  <1>8. SymDiff(terms, byte) \in SUBSET Int /\ lead \in SUBSET Int
    <2>1. terms \in SUBSET Int /\ byte \in SUBSET Int /\ lead \in SUBSET Int
      BY <1>1, <1>3, ByteType
    <2> QED
      BY <2>1, SumType
  <1>9. SymDiff(Times(lead, 8), Times(SymDiff(terms, byte), 8))
            = Times(SymDiff(lead, SymDiff(terms, byte)), 8)
    BY <1>8, SumShift
  <1>10. Polynomial(bytes, n) \in SUBSET Nat
    BY <1>3, <1>6 DEF SymDiff
  <1> QED
    BY <1>6, <1>7, <1>9, <1>10, SumAssociates DEF byte

(***************************************************************************)
(* One byte of the outer loop divides.                                     *)
(***************************************************************************)
LEMMA FeedDivides ==
    ASSUME NEW bytes \in Seq(Byte), NEW n \in Nat, n < Len(bytes),
           NEW c \in Byte, NEW q \in SUBSET (0..(8 * n - 1)),
           Polynomial(bytes, n) = SymDiff(Product(q), c)
    PROVE  /\ Fed(c, bytes[n + 1]) \in Byte
           /\ Divided(q, c, bytes[n + 1]) \in SUBSET (0..(8 * (n + 1) - 1))
           /\ Polynomial(bytes, n + 1) =
                  SymDiff(Product(Divided(q, c, bytes[n + 1])), Fed(c, bytes[n + 1]))
  <1> DEFINE byte == bytes[n + 1]
             start == SymDiff(c, byte)
             P == SymDiff(Polynomial(bytes, n), byte)
             r == Divided(q, c, byte)
  <1>1. byte \in Byte /\ start \in Byte /\ q \in SUBSET Nat
    BY DEF SymDiff, Byte
  <1>2. P = SymDiff(Product(q), start)
    BY SumAssociates
  <1>3. P \in SUBSET Nat
    <2>1. Polynomial(bytes, n) \in SUBSET Nat
      BY PolynomialNext
    <2> QED
      BY <1>1, <2>1, ByteType, SumType
  <1>4. Polynomial(bytes, n + 1) = Times(P, 8)
    BY PolynomialNext
  <1>5. Fed(c, byte) = Rounds(start)[9]
    BY DEF Fed
  <1>6. Fed(c, byte) \in Byte
    <2> HIDE DEF start
    <2> QED
      BY <1>1, <1>5, RoundsAre
  <1>7. Times(P, 8) = SymDiff(Product(r), Rounds(start)[9])
    <2> HIDE DEF start, P
    <2>1. r = Times(q, 8) \cup {8 - k : k \in {m \in 1..8 : 7 \in Rounds(start)[m]}}
      BY DEF Divided, start
    <2> HIDE DEF r
    <2> QED
      BY <1>1, <1>2, <1>3, <2>1, RoundsDivide
  <1>8. r \in SUBSET (0..(8 * (n + 1) - 1))
    BY DEF Divided, Times
  <1> QED
    BY <1>4, <1>5, <1>6, <1>7, <1>8

-----------------------------------------------------------------------------
(***************************************************************************)
(* The inductive invariant.                                                *)
(***************************************************************************)

\* What may arrive when the bytes of a frame are sent.
Arrivals(bytes) ==
    {bytes} \cup {Damaged(bytes, d) : d \in DamageTo(bytes)} \cup Unread(bytes)

\* The last byte is the remainder of those before it.
Closed(bytes) ==
    \E q \in SUBSET (0..(8 * (Len(bytes) - 1) - 1)) :
        Polynomial(bytes, Len(bytes) - 1) = SymDiff(Product(q), Last(bytes))

Inv ==
    /\ i \in Nat /\ quotient \in SUBSET (0..(8 * i - 1))
    /\ frame \in Seq(Byte) /\ received \in Seq(Byte)
    /\ received = <<>> => frame \in Payload /\ i <= Len(frame)
    /\ received # <<>> =>
           /\ \E p \in Payload : Len(frame) = Len(p) + 1
           /\ received \in Arrivals(frame)
           /\ Len(received) = Len(frame) /\ i < Len(received)
           /\ Closed(frame)
    /\ RegisterIsRemainder

LEMMA ProductOfNothing == Product({}) = {}
  <1>1. Product({}) \subseteq Nat /\ \A e \in Int : e \notin Product({})
    BY ProductMember
  <1> QED
    BY <1>1

\* Before the first byte nothing has been divided.
LEMMA StartDivides ==
    ASSUME NEW bytes \in Seq(Byte)
    PROVE  InitialCrc \in Byte /\ Polynomial(bytes, 0) = SymDiff(Product({}), InitialCrc)
  <1>1. Times(Bit, 8 * 0) = Bit
    BY TimesZero DEF Bit
  <1>2. Terms(bytes, 0) = {}
    <2>1. 1..0 = {}
      OBVIOUS
    <2> QED
      BY <2>1 DEF Terms
  <1>3. Times({}, 8) = {}
    BY DEF Times
  <1>4. Polynomial(bytes, 0) = SymDiff(Bit, {})
    BY <1>1, <1>2, <1>3 DEF Polynomial
  <1>5. SymDiff(Bit, {}) = SymDiff({}, Bit)
    BY DEF SymDiff
  <1> QED
    BY <1>4, <1>5, ProductOfNothing DEF InitialCrc, Byte

LEMMA InitInv == Init => Inv
  <1> SUFFICES ASSUME Init PROVE Inv
    OBVIOUS
  <1>1. /\ frame \in Payload /\ frame \in Seq(Byte) /\ received = <<>>
        /\ i = 0 /\ crc = InitialCrc /\ quotient = {}
    BY PayloadAssumption DEF Init
  <1>2. RegisterIsRemainder
    BY <1>1, StartDivides DEF RegisterIsRemainder
  <1> QED
    BY <1>1, <1>2 DEF Inv

\* A byte is fed, of the payload or of what arrived.
LEMMA FeedInv ==
    ASSUME Inv, Compose \/ Check
    PROVE  Inv'
  <1> DEFINE bytes == IF received = <<>> THEN frame ELSE received
  <1>1. /\ UNCHANGED <<frame, received>> /\ i < Len(bytes)
        /\ received # <<>> => i + 1 < Len(bytes)
        /\ crc' = Fed(crc, bytes[i + 1])
        /\ quotient' = Divided(quotient, crc, bytes[i + 1])
        /\ i' = i + 1
    BY DEF Compose, Check, Feed, Inv
  <1>2. /\ bytes \in Seq(Byte) /\ i \in Nat /\ crc \in Byte
        /\ quotient \in SUBSET (0..(8 * i - 1))
        /\ Polynomial(bytes, i) = SymDiff(Product(quotient), crc)
    BY DEF Inv, RegisterIsRemainder
  <1>3. bytes' = bytes
    BY <1>1
  <1> HIDE DEF bytes
  <1>4. /\ crc' \in Byte
        /\ quotient' \in SUBSET (0..(8 * i' - 1))
        /\ Polynomial(bytes, i') = SymDiff(Product(quotient'), crc')
    BY <1>1, <1>2, FeedDivides
  <1>5. RegisterIsRemainder'
    BY <1>3, <1>4 DEF RegisterIsRemainder, bytes
  <1> QED
    BY <1>1, <1>2, <1>4, <1>5 DEF Inv, bytes

\* A frame that was sent, as it arrives.
LEMMA ArrivalType ==
    ASSUME NEW bytes \in Seq(Byte), NEW p \in Payload, Len(bytes) = Len(p) + 1,
           NEW arrival \in Arrivals(bytes)
    PROVE  arrival \in Seq(Byte) /\ Len(arrival) = Len(bytes) /\ arrival # <<>>
  <1>1. Len(bytes) \in Nat /\ Len(bytes) >= 1 /\ DOMAIN bytes = 1..Len(bytes)
    BY PayloadAssumption
  <1>2. \A b, c \in Byte : SymDiff(b, c) \in Byte
    BY DEF SymDiff, Byte
  <1>3. {} \in Byte
    BY DEF Byte
  <1>4. ASSUME NEW f \in [1..Len(bytes) -> Byte]
        PROVE  f \in Seq(Byte) /\ Len(f) = Len(bytes) /\ f # <<>>
    <2>1. f \in Seq(Byte) /\ Len(f) = Len(bytes)
      BY <1>1
    <2> QED
      BY <1>1, <2>1
  <1>5. CASE arrival = bytes
    BY <1>1, <1>5
  <1>6. CASE \E d \in DamageTo(bytes) : arrival = Damaged(bytes, d)
    <2>1. PICK d \in DamageTo(bytes) : arrival = Damaged(bytes, d)
      BY <1>6
    <2>2. d \in Seq(Byte) /\ Len(d) = Len(bytes)
      BY DamageAssumption DEF DamageTo
    <2>3. \A k \in 1..Len(bytes) : SymDiff(bytes[k], d[k]) \in Byte
      BY <1>2, <2>2
    <2>4. arrival \in [1..Len(bytes) -> Byte]
      BY <1>1, <2>1, <2>3 DEF Damaged
    <2> QED
      BY <1>4, <2>4
  <1>7. CASE arrival \in Unread(bytes)
    <2>1. arrival = [k \in 1..Len(bytes) |-> {}]
      BY <1>1, <1>7 DEF Unread
    <2>2. arrival \in [1..Len(bytes) -> Byte]
      BY <1>3, <2>1
    <2> QED
      BY <1>4, <2>2
  <1> QED
    BY <1>5, <1>6, <1>7 DEF Arrivals

\* Polynomials of sequences with a common beginning.
LEMMA CommonBeginning ==
    ASSUME NEW a, NEW b, NEW n \in Nat, \A j \in 1..n : a[j] = b[j]
    PROVE  Polynomial(a, n) = Polynomial(b, n)
  BY DEF Polynomial, Terms

\* The payload is closed with its CRC and sent.
LEMMA TransferInv ==
    ASSUME Inv, Transfer
    PROVE  Inv'
  <1> DEFINE n == Len(frame)
  <1>1. /\ received = <<>> /\ i = n /\ frame' = Append(frame, crc)
        /\ received' \in Arrivals(frame')
        /\ i' = 0 /\ crc' = InitialCrc /\ quotient' = {}
    BY DEF Transfer, Arrivals
  <1>2. /\ frame \in Seq(Byte) /\ frame \in Payload /\ crc \in Byte /\ n \in Nat
        /\ quotient \in SUBSET (0..(8 * i - 1))
        /\ Polynomial(frame, i) = SymDiff(Product(quotient), crc)
    BY <1>1 DEF Inv, RegisterIsRemainder
  <1>3. /\ frame' \in Seq(Byte) /\ Len(frame') = n + 1
        /\ \A j \in 1..n : frame'[j] = frame[j]
        /\ Last(frame') = crc
    BY <1>1, <1>2 DEF Last
  <1>4. /\ received' \in Seq(Byte) /\ Len(received') = n + 1 /\ received' # <<>>
    BY <1>1, <1>2, <1>3, ArrivalType
  <1>5. Closed(frame')
    <2>1. Polynomial(frame', n) = Polynomial(frame, n)
      BY <1>2, <1>3, CommonBeginning
    <2>2. Polynomial(frame', n) = SymDiff(Product(quotient), Last(frame'))
      BY <1>1, <1>2, <1>3, <2>1
    <2>3. Len(frame') - 1 = n
      BY <1>2, <1>3
    <2> QED
      BY <1>1, <1>2, <2>2, <2>3 DEF Closed
  <1>6. RegisterIsRemainder'
    BY <1>1, <1>4, StartDivides DEF RegisterIsRemainder
  <1>7. \E p \in Payload : Len(frame') = Len(p) + 1
    BY <1>2, <1>3
  <1> QED
    BY <1>1, <1>2, <1>3, <1>4, <1>5, <1>6, <1>7 DEF Inv

LEMMA NextInv == Inv /\ [Next]_vars => Inv'
  <1> SUFFICES ASSUME Inv, [Next]_vars PROVE Inv'
    OBVIOUS
  <1>1. CASE Compose \/ Check
    BY <1>1, FeedInv
  <1>2. CASE Transfer
    BY <1>2, TransferInv
  <1>3. CASE UNCHANGED vars
    BY <1>3 DEF vars, Inv, RegisterIsRemainder
  <1> QED
    BY <1>1, <1>2, <1>3 DEF Next

(***************************************************************************)
(* The invariant holds in every reachable state.                           *)
(***************************************************************************)
THEOREM Invariance == Spec => []Inv
  BY InitInv, NextInv, PTL DEF Spec

(***************************************************************************)
(* The register of the CRC computation, in the sender and in the receiver, *)
(* is at every byte the remainder of the division by the polynomial of the *)
(* CRC, whatever the bytes are.                                            *)
(***************************************************************************)
THEOREM Remainders == Spec => []RegisterIsRemainder
  <1>1. Inv => RegisterIsRemainder
    BY DEF Inv
  <1> QED
    BY Invariance, <1>1, PTL

-----------------------------------------------------------------------------
(***************************************************************************)
(* What the verdict depends on.                                            *)
(***************************************************************************)
IsMultiple(P) == \E m \in Nat : \E q \in SUBSET (0..m) : P = Product(q)

\* Where the receiver has gone through all but the last byte.
Finished == received # <<>> /\ i = Len(received) - 1

\* A byte sequence as a polynomial, its last byte at the lowest exponents.
AllTerms(bytes) == Terms(bytes, Len(bytes))

Difference(a, b) == SymDiff(AllTerms(a), AllTerms(b))

\* All of a byte sequence, and its leading 8 terms inverted, divided.
LEMMA AllDivided ==
    ASSUME NEW bytes \in Seq(Byte), bytes # <<>>,
           NEW q, NEW c,
           Polynomial(bytes, Len(bytes) - 1) = SymDiff(Product(q), c)
    PROVE  SymDiff(Times(Bit, 8 * (Len(bytes) - 1)), AllTerms(bytes)) =
               SymDiff(Product(q), SymDiff(c, Last(bytes)))
  <1> DEFINE n == Len(bytes) - 1
  <1>1. n \in Nat /\ n < Len(bytes) /\ n + 1 = Len(bytes)
    OBVIOUS
  <1>2. Terms(bytes, n + 1) = SymDiff(Times(Terms(bytes, n), 8), bytes[n + 1])
    BY <1>1, TermsNext
  <1>3. AllTerms(bytes) = SymDiff(Times(Terms(bytes, n), 8), Last(bytes))
    BY <1>1, <1>2 DEF AllTerms, Last
  <1>4. SymDiff(Times(Bit, 8 * n), Times(Terms(bytes, n), 8)) = SymDiff(Product(q), c)
    BY DEF Polynomial
  <1> QED
    BY <1>3, <1>4, SumAssociates

LEMMA SumCancels ==
    ASSUME NEW P, NEW Q
    PROVE  SymDiff(P, SymDiff(P, Q)) = Q
  <1>1. ASSUME NEW e
        PROVE  e \in SymDiff(P, SymDiff(P, Q)) <=> e \in Q
    <2>1. e \in SymDiff(P, SymDiff(P, Q)) <=> ~(e \in P <=> e \in SymDiff(P, Q))
      BY SumMember
    <2>2. e \in SymDiff(P, Q) <=> ~(e \in P <=> e \in Q)
      BY SumMember
    <2> QED
      BY <2>1, <2>2
  <1> QED
    BY <1>1

LEMMA FourSums ==
    ASSUME NEW lead, NEW a, NEW b, NEW p, NEW q, NEW r,
           SymDiff(lead, a) = p, SymDiff(lead, b) = SymDiff(q, r)
    PROVE  SymDiff(a, b) = SymDiff(SymDiff(p, q), r)
  <1>1. \A e : e \in a <=> ~(e \in lead <=> e \in p)
    BY SumMember
  <1>2. \A e : e \in b <=> ~(e \in lead <=> ~(e \in q <=> e \in r))
    <2> TAKE e
    <2>1. e \in SymDiff(lead, b) <=> ~(e \in lead <=> e \in b)
      BY SumMember
    <2>2. e \in SymDiff(q, r) <=> ~(e \in q <=> e \in r)
      BY SumMember
    <2> QED
      BY <2>1, <2>2
  <1>3. ASSUME NEW e
        PROVE  e \in SymDiff(a, b) <=> e \in SymDiff(SymDiff(p, q), r)
    <2>1. e \in SymDiff(a, b) <=> ~(e \in a <=> e \in b)
      BY SumMember
    <2>2. e \in SymDiff(SymDiff(p, q), r) <=> ~(~(e \in p <=> e \in q) <=> e \in r)
      BY SumMember
    <2> QED
      BY <1>1, <1>2, <2>1, <2>2
  <1> QED
    BY <1>3

\* The difference of what was sent and what arrived is a multiple of the
\* polynomial of the CRC, plus the difference of the CRCs.
LEMMA DifferenceDivided ==
    ASSUME Inv, Finished
    PROVE  \E m \in Nat : \E q \in SUBSET (0..m) :
               Difference(frame, received) =
                   SymDiff(Product(q), SymDiff(crc, Last(received)))
  <1> DEFINE n == Len(frame) - 1
             lead == Times(Bit, 8 * n)
  <1>1. /\ frame \in Seq(Byte) /\ received \in Seq(Byte) /\ received # <<>>
        /\ Len(received) = Len(frame) /\ i = n /\ n \in Nat /\ frame # <<>>
        /\ quotient \in SUBSET (0..(8 * n - 1))
        /\ Polynomial(received, n) = SymDiff(Product(quotient), crc)
        /\ Closed(frame)
    BY DEF Inv, Finished, RegisterIsRemainder
  <1>2. PICK sent \in SUBSET (0..(8 * n - 1)) :
            Polynomial(frame, n) = SymDiff(Product(sent), Last(frame))
    BY <1>1 DEF Closed
  <1>3. SymDiff(lead, AllTerms(frame)) = Product(sent)
    <2>1. SymDiff(lead, AllTerms(frame)) =
              SymDiff(Product(sent), SymDiff(Last(frame), Last(frame)))
      BY <1>1, <1>2, AllDivided
    <2>2. SymDiff(Last(frame), Last(frame)) = {}
      BY DEF SymDiff
    <2>3. SymDiff(Product(sent), {}) = Product(sent)
      BY DEF SymDiff
    <2> QED
      BY <2>1, <2>2, <2>3
  <1>4. SymDiff(lead, AllTerms(received)) =
            SymDiff(Product(quotient), SymDiff(crc, Last(received)))
    BY <1>1, AllDivided
  <1> DEFINE q == SymDiff(sent, quotient)
  <1>5. /\ Product(q) = SymDiff(Product(sent), Product(quotient))
        /\ q \in SUBSET (0..(8 * n))
    <2>1. q \in SUBSET (0..(8 * n))
      BY <1>1, <1>2 DEF SymDiff
    <2>2. sent \in SUBSET Nat /\ quotient \in SUBSET Nat
      BY <1>1, <1>2
    <2> QED
      BY <2>1, <2>2, ProductOfSum
  <1> HIDE DEF q, lead
  <1>6. Difference(frame, received) =
            SymDiff(SymDiff(Product(sent), Product(quotient)),
                    SymDiff(crc, Last(received)))
    BY <1>3, <1>4, FourSums DEF Difference
  <1>7. 8 * n \in Nat
    BY <1>1
  <1>8. Difference(frame, received) =
            SymDiff(Product(q), SymDiff(crc, Last(received)))
    BY <1>5, <1>6
  <1> QED
    BY <1>5, <1>7, <1>8

(***************************************************************************)
(* The receiver accepts what arrived exactly when it differs from what was *)
(* sent by a multiple of the polynomial of the CRC: nothing else decides,  *)
(* neither the payload nor the length of the frame.                        *)
(***************************************************************************)
AcceptsMultiplesOnly ==
    Finished => (crc = Last(received) <=> IsMultiple(Difference(frame, received)))

LEMMA InvAcceptsMultiplesOnly == Inv => AcceptsMultiplesOnly
  <1> SUFFICES ASSUME Inv, Finished
               PROVE  crc = Last(received) <=> IsMultiple(Difference(frame, received))
    BY DEF AcceptsMultiplesOnly
  <1>1. PICK m \in Nat : \E q \in SUBSET (0..m) :
            Difference(frame, received) =
                SymDiff(Product(q), SymDiff(crc, Last(received)))
    BY DifferenceDivided
  <1>2. PICK q \in SUBSET (0..m) :
            Difference(frame, received) =
                SymDiff(Product(q), SymDiff(crc, Last(received)))
    BY <1>1
  <1>3. crc \in Byte /\ Last(received) \in Byte
    BY DEF Inv, Finished, RegisterIsRemainder, Last
  <1>4. ASSUME crc = Last(received)
        PROVE  IsMultiple(Difference(frame, received))
    <2>1. SymDiff(crc, Last(received)) = {}
      BY <1>4 DEF SymDiff
    <2>2. SymDiff(Product(q), {}) = Product(q)
      BY DEF SymDiff
    <2> QED
      BY <1>2, <2>1, <2>2 DEF IsMultiple
  <1>5. ASSUME IsMultiple(Difference(frame, received))
        PROVE  crc = Last(received)
    <2>1. PICK k \in Nat : \E r \in SUBSET (0..k) : Difference(frame, received) = Product(r)
      BY <1>5 DEF IsMultiple
    <2>2. PICK r \in SUBSET (0..k) : Difference(frame, received) = Product(r)
      BY <2>1
    <2> DEFINE s == SymDiff(q, r)
    <2>3. s \in SUBSET (0..(m + k))
      BY DEF SymDiff
    <2>4. Product(s) = SymDiff(Product(q), Product(r))
      <3>1. q \in SUBSET Nat /\ r \in SUBSET Nat
        OBVIOUS
      <3> QED
        BY <3>1, ProductOfSum
    <2> HIDE DEF s
    <2>5. Product(s) = SymDiff(crc, Last(received))
      <3>1. Product(r) = SymDiff(Product(q), SymDiff(crc, Last(received)))
        BY <1>2, <2>2
      <3> QED
        BY <2>4, <3>1, SumCancels
    <2>6. Product(s) \subseteq 0..(0 + 7)
      <3>1. \A b, c \in Byte : SymDiff(b, c) \subseteq 0..7
        BY DEF SymDiff, Byte, Bit
      <3> QED
        BY <1>3, <2>5, <3>1
    <2>7. s = {}
      <3>1. m + k \in Nat /\ 0 \in Nat
        OBVIOUS
      <3> QED
        BY <2>3, <2>6, <3>1, MultiplesAreWide
    <2>8. SymDiff(crc, Last(received)) = {}
      BY <2>5, <2>7, ProductOfNothing
    <2> QED
      BY <2>8 DEF SymDiff
  <1> QED
    BY <1>4, <1>5

(***************************************************************************)
(* What a receiver accepts, and only that, differs from what was sent by a *)
(* multiple of the polynomial, for every payload and every damage.         *)
(***************************************************************************)
THEOREM OnlyMultiplesAccepted == Spec => []AcceptsMultiplesOnly
  BY Invariance, InvAcceptsMultiplesOnly, PTL

-----------------------------------------------------------------------------
(***************************************************************************)
(* What arrives damaged differs from what was sent by the damage.          *)
(***************************************************************************)
LEMMA AllTermsMember ==
    ASSUME NEW bytes \in Seq(Byte)
    PROVE  /\ AllTerms(bytes) \in SUBSET Nat
           /\ \A e \in Int : e \in AllTerms(bytes) <=>
                  \E j \in 1..Len(bytes) : e - 8 * (Len(bytes) - j) \in bytes[j]
  <1>1. Len(bytes) \in 0..Len(bytes)
    OBVIOUS
  <1> QED
    BY <1>1, TermsMember DEF AllTerms

\* The exponents of different bytes are different.
LEMMA OneByteEach ==
    ASSUME NEW n \in Nat, NEW j \in 1..n, NEW k \in 1..n, NEW e \in Int,
           e - 8 * (n - j) \in Bit, e - 8 * (n - k) \in Bit
    PROVE  j = k
  BY DEF Bit

LEMMA DifferenceIsDamage ==
    ASSUME NEW bytes \in Seq(Byte), NEW d \in Seq(Byte), Len(d) = Len(bytes)
    PROVE  Difference(bytes, Damaged(bytes, d)) = AllTerms(d)
  <1> DEFINE n == Len(bytes)
             arrival == Damaged(bytes, d)
  <1>1. \A j \in 1..n : /\ arrival[j] = SymDiff(bytes[j], d[j])
                        /\ bytes[j] \in Byte /\ d[j] \in Byte
    BY DEF Damaged
  <1>2. arrival \in Seq(Byte) /\ Len(arrival) = n
    <2>1. \A b, c \in Byte : SymDiff(b, c) \in Byte
      BY DEF SymDiff, Byte
    <2>2. arrival \in [1..n -> Byte] /\ n \in Nat
      BY <1>1, <2>1 DEF Damaged
    <2> HIDE DEF arrival
    <2> QED
      BY <2>2
  <1> HIDE DEF arrival
  <1>3. /\ AllTerms(bytes) \in SUBSET Int /\ AllTerms(arrival) \in SUBSET Int
        /\ AllTerms(d) \in SUBSET Int
    BY <1>2, AllTermsMember
  <1>4. ASSUME NEW e \in Int
        PROVE  e \in Difference(bytes, arrival) <=> e \in AllTerms(d)
    <2> DEFINE at(j) == e - 8 * (n - j)
    <2>1. /\ e \in AllTerms(bytes) <=> \E j \in 1..n : at(j) \in bytes[j]
          /\ e \in AllTerms(arrival) <=> \E j \in 1..n : at(j) \in arrival[j]
          /\ e \in AllTerms(d) <=> \E j \in 1..n : at(j) \in d[j]
      BY <1>2, AllTermsMember
    <2>2. \A j, k \in 1..n : at(j) \in Bit /\ at(k) \in Bit => j = k
      <3>1. n \in Nat
        OBVIOUS
      <3> QED
        BY <3>1, OneByteEach
    <2> HIDE DEF at
    <2>3. \A j \in 1..n :
              /\ at(j) \in bytes[j] => at(j) \in Bit
              /\ at(j) \in d[j] => at(j) \in Bit
              /\ at(j) \in arrival[j] <=> ~(at(j) \in bytes[j] <=> at(j) \in d[j])
      <3> TAKE j \in 1..n
      <3>1. bytes[j] \subseteq Bit /\ d[j] \subseteq Bit
        BY <1>1 DEF Byte
      <3> QED
        BY <1>1, <3>1, SumMember
    <2>4. e \in Difference(bytes, arrival) <=>
              ~(e \in AllTerms(bytes) <=> e \in AllTerms(arrival))
      BY SumMember DEF Difference
    <2>5. CASE \E j \in 1..n : at(j) \in Bit
      <3>1. PICK j \in 1..n : at(j) \in Bit
        BY <2>5
      <3>2. /\ e \in AllTerms(bytes) <=> at(j) \in bytes[j]
            /\ e \in AllTerms(arrival) <=> at(j) \in arrival[j]
            /\ e \in AllTerms(d) <=> at(j) \in d[j]
        BY <2>1, <2>2, <2>3, <3>1
      <3> QED
        BY <2>3, <2>4, <3>2
    <2>6. CASE ~ \E j \in 1..n : at(j) \in Bit
      BY <2>1, <2>3, <2>4, <2>6
    <2> QED
      BY <2>5, <2>6
  <1>5. Difference(bytes, arrival) \in SUBSET Int
    BY <1>3, SumType DEF Difference
  <1> QED
    BY <1>3, <1>4, <1>5 DEF arrival

\* A damage of no bits is none.
LEMMA NoTermsNoDamage ==
    ASSUME NEW bytes \in Seq(Byte), NEW d \in Seq(Byte), Len(d) = Len(bytes),
           AllTerms(d) = {}
    PROVE  Damaged(bytes, d) = bytes
  <1>1. ASSUME NEW j \in 1..Len(bytes)
        PROVE  d[j] = {}
    <2>1. ASSUME NEW k \in d[j]
          PROVE  FALSE
      <3>1. k \in Int
        BY ByteType
      <3> DEFINE e == k + 8 * (Len(d) - j)
      <3>2. e \in Int /\ e - 8 * (Len(d) - j) = k
        BY <3>1
      <3>3. e \in AllTerms(d)
        BY <3>2, AllTermsMember
      <3> QED
        BY <3>3
    <2> QED
      BY <2>1
  <1>2. \A b : SymDiff(b, {}) = b
    BY DEF SymDiff
  <1>3. /\ DOMAIN bytes = 1..Len(bytes)
        /\ \A j \in 1..Len(bytes) : SymDiff(bytes[j], d[j]) = bytes[j]
    <2>1. DOMAIN bytes = 1..Len(bytes)
      OBVIOUS
    <2>2. ASSUME NEW j \in 1..Len(bytes)
          PROVE  SymDiff(bytes[j], d[j]) = bytes[j]
      BY <1>1, <1>2
    <2> QED
      BY <2>1, <2>2
  <1>4. Damaged(bytes, d) = [j \in 1..Len(bytes) |-> bytes[j]]
    BY <1>3 DEF Damaged
  <1> QED
    BY <1>4

\* A buffer of zeros is not accepted: its polynomial is 8 terms in a row.
LEMMA ZerosRefused ==
    ASSUME Inv, Finished, \A j \in 1..Len(received) : received[j] = {}
    PROVE  crc # Last(received)
  <1> DEFINE n == Len(received) - 1
  <1>1. /\ received \in Seq(Byte) /\ Len(received) \in Nat /\ n \in Nat /\ i = n
        /\ quotient \in SUBSET (0..(8 * n - 1)) /\ crc \in Byte
        /\ Polynomial(received, n) = SymDiff(Product(quotient), crc)
    BY DEF Inv, Finished, RegisterIsRemainder
  <1>2. Last(received) = {}
    BY <1>1 DEF Last
  <1>3. SUFFICES ASSUME crc = {} PROVE FALSE
    BY <1>2
  <1>4. Terms(received, n) = {}
    <2>1. \A j \in 1..n : Times(received[j], 8 * (n - j)) = {}
      BY <1>1 DEF Times
    <2> QED
      BY <2>1 DEF Terms
  <1>5. Polynomial(received, n) = Times(Bit, 8 * n)
    <2>1. Times({}, 8) = {}
      BY DEF Times
    <2>2. \A P : SymDiff(P, {}) = P
      BY DEF SymDiff
    <2> QED
      BY <1>4, <2>1, <2>2 DEF Polynomial
  <1>6. Product(quotient) = Times(Bit, 8 * n)
    <2>1. SymDiff(Product(quotient), {}) = Product(quotient)
      BY DEF SymDiff
    <2> QED
      BY <1>1, <1>3, <1>5, <2>1
  <1>7. Times(Bit, 8 * n) \subseteq (8 * n)..(8 * n + 7) /\ 8 * n \in Times(Bit, 8 * n)
    BY <1>1 DEF Times, Bit
  <1>8. quotient = {}
    <2>1. 8 * n \in Nat /\ quotient \in SUBSET (0..(8 * n))
      BY <1>1
    <2> QED
      BY <1>6, <1>7, <2>1, MultiplesAreWide
  <1> QED
    BY <1>6, <1>7, <1>8, ProductOfNothing

-----------------------------------------------------------------------------
\* A damage that the CRC can tell.
Detectable(d) == IsMultiple(AllTerms(d)) => AllTerms(d) = {}

LEMMA InvVerdict ==
    ASSUME \A d \in Damage : Detectable(d), Inv
    PROVE  VerdictIsIntact
  <1> SUFFICES ASSUME Finished
               PROVE  crc = Last(received) <=> received = frame
    BY DEF VerdictIsIntact, Finished
  <1>1. /\ frame \in Seq(Byte) /\ received \in Arrivals(frame)
        /\ \E p \in Payload : Len(frame) = Len(p) + 1
        /\ crc = Last(received) <=> IsMultiple(Difference(frame, received))
    BY InvAcceptsMultiplesOnly DEF Inv, Finished, AcceptsMultiplesOnly
  <1>2. IsMultiple({})
    <2>1. {} \in SUBSET (0..0) /\ 0 \in Nat
      OBVIOUS
    <2> QED
      BY <2>1, ProductOfNothing DEF IsMultiple
  <1>3. received = frame => crc = Last(received)
    <2>1. received = frame => Difference(frame, received) = {}
      BY DEF Difference, SymDiff
    <2> QED
      BY <1>1, <1>2, <2>1
  <1>4. CASE \E d \in DamageTo(frame) : received = Damaged(frame, d)
    <2>1. PICK d \in DamageTo(frame) : received = Damaged(frame, d)
      BY <1>4
    <2>2. d \in Seq(Byte) /\ Len(d) = Len(frame)
      BY <1>1, DamageAssumption DEF DamageTo
    <2>3. Difference(frame, received) = AllTerms(d)
      BY <1>1, <2>1, <2>2, DifferenceIsDamage
    <2>4. AllTerms(d) = {} => received = frame
      BY <1>1, <2>1, <2>2, NoTermsNoDamage
    <2> QED
      BY <1>1, <1>3, <2>3, <2>4 DEF Detectable, DamageTo
  <1>5. CASE received \in Unread(frame)
    <2>1. \A j \in 1..Len(received) : received[j] = {}
      <3>1. received = [k \in 1..Len(frame) |-> {}]
        BY <1>1, <1>5 DEF Unread
      <3>2. Len(received) = Len(frame)
        BY DEF Inv, Finished
      <3> QED
        BY <3>1, <3>2
    <2> QED
      BY <1>3, <2>1, ZerosRefused
  <1> QED
    BY <1>1, <1>3, <1>4, <1>5 DEF Arrivals

(***************************************************************************)
(* If no damage of Damage is a multiple of the polynomial of the CRC, a    *)
(* receiver takes a frame for intact exactly when it is, and never a       *)
(* buffer that nothing was read into.                                      *)
(***************************************************************************)
THEOREM VerdictSound ==
    ASSUME \A d \in Damage : Detectable(d)
    PROVE  Spec => []VerdictIsIntact
  <1>1. Inv => VerdictIsIntact
    BY InvVerdict
  <1> QED
    BY Invariance, <1>1, PTL

-----------------------------------------------------------------------------
(***************************************************************************)
(* The damages an 8-bit CRC is chosen for.                                 *)
(***************************************************************************)

\* All the bits that change are among 8 in a row, across bytes or not.
Burst(d) == \E a \in Nat : AllTerms(d) \subseteq a..(a + 7)

\* An odd number of bits changes.
Odd(d) == \E k \in Nat : Cardinality(AllTerms(d)) = 2 * k + 1

LEMMA BurstsDetectable ==
    ASSUME NEW d, Burst(d)
    PROVE  Detectable(d)
  <1> SUFFICES ASSUME IsMultiple(AllTerms(d)) PROVE AllTerms(d) = {}
    BY DEF Detectable
  <1>1. PICK a \in Nat : AllTerms(d) \subseteq a..(a + 7)
    BY DEF Burst
  <1>2. PICK m \in Nat : \E q \in SUBSET (0..m) : AllTerms(d) = Product(q)
    BY DEF IsMultiple
  <1>3. PICK q \in SUBSET (0..m) : AllTerms(d) = Product(q)
    BY <1>2
  <1>4. q = {}
    BY <1>1, <1>3, MultiplesAreWide
  <1> QED
    BY <1>3, <1>4, ProductOfNothing

\* Sizes of sums and shifts.
LEMMA SumSize ==
    ASSUME NEW P, NEW Q, IsFiniteSet(P), IsFiniteSet(Q)
    PROVE  /\ IsFiniteSet(SymDiff(P, Q))
           /\ \E k \in Nat : Cardinality(SymDiff(P, Q)) + 2 * k
                                 = Cardinality(P) + Cardinality(Q)
  <1> DEFINE A == P \ Q
             B == Q \ P
  <1>1. /\ IsFiniteSet(A) /\ Cardinality(A) = Cardinality(P) - Cardinality(P \cap Q)
        /\ IsFiniteSet(B) /\ Cardinality(B) = Cardinality(Q) - Cardinality(Q \cap P)
    BY FS_Difference
  <1>2. A \cap B = {} /\ Q \cap P = P \cap Q /\ SymDiff(P, Q) = A \cup B
    BY DEF SymDiff
  <1> HIDE DEF A, B
  <1>3. /\ IsFiniteSet(A \cup B)
        /\ Cardinality(A \cup B) = Cardinality(A) + Cardinality(B) - Cardinality(A \cap B)
    BY <1>1, FS_Union
  <1>4. Cardinality(A \cap B) = 0
    BY <1>2, FS_EmptySet
  <1>5. IsFiniteSet(P \cap Q)
    BY FS_Intersection
  <1>6. /\ Cardinality(P \cap Q) \in Nat /\ Cardinality(P) \in Nat
        /\ Cardinality(Q) \in Nat
    BY <1>5, FS_CardinalityType
  <1>7. Cardinality(SymDiff(P, Q)) + 2 * Cardinality(P \cap Q)
            = Cardinality(P) + Cardinality(Q)
    <2>1. Cardinality(Q \cap P) = Cardinality(P \cap Q)
      BY <1>2
    <2>2. Cardinality(SymDiff(P, Q)) =
              (Cardinality(P) - Cardinality(P \cap Q))
                  + (Cardinality(Q) - Cardinality(P \cap Q)) - 0
      BY <1>1, <1>2, <1>3, <1>4, <2>1
    <2>3. \A p, q, b \in Nat : ((p - b) + (q - b) - 0) + 2 * b = p + q
      OBVIOUS
    <2> QED
      BY <1>6, <2>2, <2>3
  <1> QED
    BY <1>2, <1>3, <1>6, <1>7

LEMMA TimesSize ==
    ASSUME NEW P \in SUBSET Int, NEW k \in Int, IsFiniteSet(P)
    PROVE  IsFiniteSet(Times(P, k)) /\ Cardinality(Times(P, k)) = Cardinality(P)
  <1> DEFINE f == [e \in P |-> e + k]
  <1>1. f \in Bijection(P, Times(P, k))
    BY DEF Bijection, Injection, Surjection, IsInjective, Times
  <1>2. ExistsBijection(P, Times(P, k))
    BY <1>1 DEF ExistsBijection
  <1> QED
    BY <1>2, FS_Bijection

\* A multiple of the polynomial of the CRC, which has 4 terms, has an even
\* number of them.
LEMMA MultiplesAreEven ==
    ASSUME NEW m \in Nat, NEW q \in SUBSET (0..m)
    PROVE  \E k \in Nat : Cardinality(Product(q)) = 2 * k
  <1> DEFINE A == SymDiff(Times(q, 8), Times(q, 5))
             B == SymDiff(Times(q, 4), q)
             c == Cardinality(q)
  <1>1. IsFiniteSet(q) /\ q \in SUBSET Int
    <2>1. 0 \in Int /\ m \in Int
      OBVIOUS
    <2>2. IsFiniteSet(0..m)
      BY <2>1, FS_Interval
    <2>3. IsFiniteSet(q)
      BY <2>2, FS_Subset
    <2> QED
      BY <2>3
  <1>2. \A k \in {8, 5, 4} : IsFiniteSet(Times(q, k)) /\ Cardinality(Times(q, k)) = c
    BY <1>1, TimesSize
  <1>3. PICK x \in Nat : IsFiniteSet(A) /\ Cardinality(A) + 2 * x = c + c
    BY <1>2, SumSize
  <1>4. PICK y \in Nat : IsFiniteSet(B) /\ Cardinality(B) + 2 * y = c + c
    BY <1>1, <1>2, SumSize
  <1>5. Product(q) = SymDiff(A, B)
    BY DEF Product
  <1> HIDE DEF A, B, c
  <1>6. PICK z \in Nat : /\ IsFiniteSet(Product(q))
                         /\ Cardinality(Product(q)) + 2 * z = Cardinality(A) + Cardinality(B)
    BY <1>3, <1>4, <1>5, SumSize
  <1>7. /\ c \in Nat /\ Cardinality(A) \in Nat /\ Cardinality(B) \in Nat
        /\ Cardinality(Product(q)) \in Nat
    BY <1>1, <1>3, <1>4, <1>6, FS_CardinalityType DEF c
  <1>8. \A a, b, p \in Nat :
            a + 2 * x = c + c /\ b + 2 * y = c + c /\ p + 2 * z = a + b
                => p = 2 * (2 * c - x - y - z) /\ 2 * c - x - y - z \in Nat
    BY <1>7
  <1>9. Cardinality(Product(q)) = 2 * (2 * c - x - y - z) /\ 2 * c - x - y - z \in Nat
    BY <1>3, <1>4, <1>6, <1>7, <1>8
  <1> QED
    BY <1>9

LEMMA OddsDetectable ==
    ASSUME NEW d, Odd(d)
    PROVE  Detectable(d)
  <1> SUFFICES ASSUME IsMultiple(AllTerms(d)) PROVE FALSE
    BY DEF Detectable
  <1>1. PICK m \in Nat : \E q \in SUBSET (0..m) : AllTerms(d) = Product(q)
    BY DEF IsMultiple
  <1>2. PICK q \in SUBSET (0..m) : AllTerms(d) = Product(q)
    BY <1>1
  <1>3. PICK k \in Nat : Cardinality(AllTerms(d)) = 2 * k
    BY <1>2, MultiplesAreEven
  <1>4. PICK l \in Nat : Cardinality(AllTerms(d)) = 2 * l + 1
    BY DEF Odd
  <1> QED
    BY <1>3, <1>4

-----------------------------------------------------------------------------
(***************************************************************************)
(* Two bits of a command frame.  If the lowest two terms of a product are  *)
(* more than k apart, the lowest k terms of the quotient can only be those *)
(* of 1 / (x^8 + x^5 + x^4 + 1), no 8 of which in a row are 0.             *)
(***************************************************************************)
LEMMA LowTerms ==
    ASSUME NEW q \in SUBSET Nat, NEW a \in q, \A e \in q : a <= e,
           NEW k \in 1..23, \A e \in Product(q) : e = a \/ a + k <= e
    PROVE  \A j \in {0, 4, 10, 16} : j < k => a + j \in q
  <1> DEFINE has(j) == a + j \in q
  <1>1. a \in Nat /\ has(0) /\ \A j \in Int : j < 0 => ~has(j)
    OBVIOUS
  <1>2. \A j \in 1..22 : j < k =>
            (has(j) <=> ~(~(has(j - 8) <=> has(j - 5)) <=> has(j - 4)))
    <2> TAKE j \in 1..22
    <2> HAVE j < k
    <2> DEFINE e == a + j
    <2>1. e \in Int /\ e \notin Product(q)
      BY <1>1
    <2>2. e - 8 = a + (j - 8) /\ e - 5 = a + (j - 5) /\ e - 4 = a + (j - 4)
      BY <1>1
    <2>3. ~(~(has(j - 8) <=> has(j - 5)) <=> ~(has(j - 4) <=> has(j))) <=> e \in Product(q)
      <3> HIDE DEF e
      <3>1. e \in Product(q) <=>
                ~(~(e - 8 \in q <=> e - 5 \in q) <=> ~(e - 4 \in q <=> e \in q))
        BY <2>1, ProductMember
      <3> QED
        BY <2>2, <3>1 DEF e
    <2> HIDE DEF has, e
    <2> QED
      BY <2>1, <2>3
  <1> HIDE DEF has
  <1>3. /\ 1 < k => ~has(1)
        /\ 2 < k => ~has(2)
        /\ 3 < k => ~has(3)
        /\ 4 < k => has(4)
    BY <1>1, <1>2
  <1>4. /\ 5 < k => has(5)
        /\ 6 < k => ~has(6)
        /\ 7 < k => ~has(7)
        /\ 8 < k => ~has(8)
    BY <1>1, <1>2, <1>3
  <1>5. /\ 9 < k => ~has(9)
        /\ 10 < k => has(10)
        /\ 11 < k => ~has(11)
        /\ 12 < k => has(12)
    BY <1>1, <1>2, <1>3, <1>4
  <1>6. 16 < k => has(16)
    BY <1>2, <1>4, <1>5
  <1> QED
    BY <1>1, <1>3, <1>5, <1>6 DEF has

LEMMA TwoTermsAreNoMultiple ==
    ASSUME NEW a \in Nat, NEW k \in 1..23
    PROVE  ~IsMultiple({a, a + k})
  <1> SUFFICES ASSUME IsMultiple({a, a + k}) PROVE FALSE
    OBVIOUS
  <1>1. PICK m \in Nat : \E q \in SUBSET (0..m) : {a, a + k} = Product(q)
    BY DEF IsMultiple
  <1>2. PICK q \in SUBSET (0..m) : {a, a + k} = Product(q)
    BY <1>1
  <1>3. q \in SUBSET Nat /\ q # {}
    BY <1>2, ProductOfNothing
  <1>4. PICK low \in q : \A e \in q : low <= e
    BY <1>3, Least
  <1>5. low = a
    <2>1. low - 8 \notin q /\ low - 5 \notin q /\ low - 4 \notin q /\ low \in Int
      BY <1>3, <1>4
    <2>2. low \in Product(q)
      BY <1>3, <2>1, ProductMember
    <2>3. CASE low = a + k
      <3>1. a \in Int /\ a - 8 \notin q /\ a - 5 \notin q /\ a - 4 \notin q /\ a \notin q
        BY <1>3, <1>4, <2>3
      <3>2. a \notin Product(q)
        BY <1>3, <3>1, ProductMember
      <3> QED
        BY <1>2, <3>2
    <2> QED
      BY <1>2, <2>2, <2>3
  <1>6. \A j \in {0, 4, 10, 16} : j < k => a + j \in q
    <2>1. \A e \in Product(q) : e = a \/ a + k <= e
      BY <1>2
    <2> QED
      BY <1>3, <1>4, <1>5, <2>1, LowTerms
  <1>7. PICK high \in q : \A e \in q : e <= high
    BY <1>3, Greatest
  <1>8. high + 8 \in Product(q)
    <2>1. /\ (high + 8) - 8 \in q /\ (high + 8) - 5 \notin q
          /\ (high + 8) - 4 \notin q /\ high + 8 \notin q /\ high + 8 \in Int
      BY <1>3, <1>7
    <2> QED
      BY <1>3, <2>1, ProductMember
  <1>9. high + 8 <= a + k /\ high \in Nat
    BY <1>2, <1>3, <1>8
  <1>10. PICK j \in {0, 4, 10, 16} : j < k /\ k <= j + 7
    OBVIOUS
  <1> QED
    BY <1>6, <1>7, <1>9, <1>10

\* Two bits change.
Pair(d) == Cardinality(AllTerms(d)) = 2

LEMMA PairsDetectable ==
    ASSUME NEW d \in Seq(Byte), Len(d) = 3, Pair(d)
    PROVE  Detectable(d)
  <1> DEFINE T == AllTerms(d)
  <1>1. T \subseteq 0..23
    <2>1. T \in SUBSET Nat
      BY AllTermsMember
    <2>2. ASSUME NEW e \in T
          PROVE  e <= 23
      <3>1. e \in Int
        BY <2>1
      <3>2. PICK j \in 1..3 : e - 8 * (3 - j) \in d[j]
        BY <3>1, AllTermsMember
      <3>3. d[j] \subseteq Bit
        BY DEF Byte
      <3> QED
        BY <3>1, <3>2, <3>3 DEF Bit
    <2> QED
      BY <2>1, <2>2
  <1>2. PICK x \in T : TRUE
    BY FS_EmptySet DEF Pair
  <1>3. IsFiniteSet(T) /\ IsFiniteSet(T \ {x}) /\ Cardinality(T \ {x}) = 1
    <2>1. IsFiniteSet(0..23)
      <3>1. 0 \in Int /\ 23 \in Int
        OBVIOUS
      <3> QED
        BY <3>1, FS_Interval
    <2>2. IsFiniteSet(T)
      BY <1>1, <2>1, FS_Subset
    <2> HIDE DEF T
    <2> QED
      BY <1>2, <2>2, FS_RemoveElement DEF Pair, T
  <1>4. PICK y : T \ {x} = {y}
    <2> HIDE DEF T
    <2> QED
      BY <1>3, FS_Singleton
  <1>5. \E a \in Nat : \E k \in 1..23 : T = {a, a + k}
    <2> HIDE DEF T
    <2>1. x \in 0..23 /\ y \in 0..23 /\ x # y /\ T = {x, y}
      BY <1>1, <1>2, <1>4
    <2>2. ASSUME NEW a \in 0..23, NEW b \in 0..23, a < b, T = {a, b}
          PROVE  \E c \in Nat : \E k \in 1..23 : T = {c, c + k}
      <3>1. b = a + (b - a) /\ b - a \in 1..23 /\ a \in Nat
        BY <2>2
      <3> QED
        BY <2>2, <3>1
    <2>3. x < y \/ y < x
      BY <2>1
    <2>4. T = {y, x}
      BY <2>1
    <2> QED
      BY <2>1, <2>2, <2>3, <2>4
  <1> QED
    BY <1>5, TwoTermsAreNoMultiple DEF Detectable

(***************************************************************************)
(* Command frames, of 3 bytes, and replies: whatever is sent, a receiver   *)
(* takes it for intact exactly when it is, if all the bus does is to change*)
(* an odd number of bits, bits within 8 in a row, or two bits of a command *)
(* frame, or to deliver nothing.                                           *)
(***************************************************************************)
THEOREM DamagesDetected ==
    ASSUME \A d \in Damage : Burst(d) \/ Odd(d) \/ (Pair(d) /\ Len(d) = 3)
    PROVE  Spec => []VerdictIsIntact
  <1>1. \A d \in Damage : Detectable(d)
    BY BurstsDetectable, OddsDetectable, PairsDetectable, DamageAssumption
  <1> QED
    BY <1>1, VerdictSound
=============================================================================
