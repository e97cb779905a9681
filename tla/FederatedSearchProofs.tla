------------------------ MODULE FederatedSearchProofs ------------------------
(***************************************************************************)
(* Theorems about FederatedSearch, for any number of providers, whatever   *)
(* their backends answer, and for any page and weight.                     *)
(***************************************************************************)
EXTENDS FederatedSearch, FiniteSetTheorems, FunctionTheorems, TLAPS

(***************************************************************************)
(* A finite set that is strictly ordered in full can be listed in order:   *)
(* counting who is before whom numbers it.                                 *)
(***************************************************************************)
LEMMA InOrder ==
    ASSUME NEW G, IsFiniteSet(G), NEW R,
           \A a, b \in G : ~(<<a, b>> \in R /\ <<b, a>> \in R),
           \A a, b \in G : a # b => <<a, b>> \in R \/ <<b, a>> \in R,
           \A a, b, c \in G : <<a, b>> \in R /\ <<b, c>> \in R => <<a, c>> \in R
    PROVE  \E s \in [1..Cardinality(G) -> G] :
               /\ \A x \in G : \E i \in 1..Cardinality(G) : s[i] = x
               /\ \A i, j \in 1..Cardinality(G) : i < j => <<s[i], s[j]>> \in R
<1> DEFINE n == Cardinality(G)
           upTo(x) == {y \in G : y = x \/ <<y, x>> \in R}
           rank == [x \in G |-> Cardinality(upTo(x))]
<1>1. n \in Nat
  BY FS_CardinalityType
<1>2. ASSUME NEW x \in G
      PROVE  IsFiniteSet(upTo(x)) /\ Cardinality(upTo(x)) \in 1..n
  <2>1. upTo(x) \subseteq G /\ x \in upTo(x)
    OBVIOUS
  <2> HIDE DEF upTo
  <2>2. IsFiniteSet(upTo(x)) /\ Cardinality(upTo(x)) <= n
    BY <2>1, FS_Subset
  <2>3. Cardinality(upTo(x)) \in Nat /\ Cardinality(upTo(x)) # 0
    BY <2>1, <2>2, FS_CardinalityType, FS_EmptySet
  <2> QED BY <1>1, <2>2, <2>3
<1>3. ASSUME NEW x \in G, NEW y \in G, x # y, Cardinality(upTo(x)) = Cardinality(upTo(y)), <<x, y>> \in R
      PROVE  FALSE
  <2>1. upTo(x) \subseteq upTo(y) /\ y \in upTo(y) /\ y \notin upTo(x)
    BY <1>3
  <2> HIDE DEF upTo
  <2> QED BY <1>2, <1>3, <2>1, FS_Subset
<1>4. \A x, y \in G : Cardinality(upTo(x)) = Cardinality(upTo(y)) => x = y
  <2> SUFFICES ASSUME NEW x \in G, NEW y \in G, Cardinality(upTo(x)) = Cardinality(upTo(y)), x # y
               PROVE  FALSE
    OBVIOUS
  <2>1. <<x, y>> \in R \/ <<y, x>> \in R
    OBVIOUS
  <2> HIDE DEF upTo
  <2> QED BY <1>3, <2>1
<1> HIDE DEF upTo
<1>5. rank \in Injection(G, 1..n)
  BY <1>2, <1>4, Fun_IsInj
<1>6. IsFiniteSet(1..n) /\ Cardinality(1..n) = n
  BY <1>1, FS_Interval
<1>7. rank \in Surjection(G, 1..n)
  BY <1>5, <1>6, FS_Injection
<1> DEFINE s == [i \in 1..n |-> CHOOSE x \in G : rank[x] = i]
<1>8. /\ s \in [1..n -> G]
      /\ \A i \in 1..n : s[i] \in G /\ Cardinality(upTo(s[i])) = i
  <2> SUFFICES ASSUME NEW i \in 1..n
               PROVE  s[i] \in G /\ Cardinality(upTo(s[i])) = i
    OBVIOUS
  <2>1. \E x \in G : rank[x] = i
    <3> HIDE DEF n, rank
    <3> QED BY <1>7 DEF Surjection
  <2> QED BY <2>1
<1>9. \A x \in G : Cardinality(upTo(x)) \in 1..n /\ s[Cardinality(upTo(x))] = x
  BY <1>2, <1>4, <1>8
<1>10. ASSUME NEW i \in 1..n, NEW j \in 1..n, i < j
       PROVE  <<s[i], s[j]>> \in R
  <2>1. s[i] \in G /\ s[j] \in G /\ s[i] # s[j]
    <3>1. i # j
      BY <1>10
    <3> HIDE DEF s
    <3> QED BY <1>8, <3>1
  <2>2. ASSUME <<s[j], s[i]>> \in R
        PROVE  FALSE
    <3> DEFINE x == s[i]
               y == s[j]
    <3>1. x \in G /\ y \in G /\ x # y /\ <<y, x>> \in R
      BY <2>1, <2>2
    <3> HIDE DEF x, y
    <3>2. upTo(y) \subseteq upTo(x)
      BY <3>1 DEF upTo
    <3>3. Cardinality(upTo(y)) <= Cardinality(upTo(x))
      BY <1>2, <3>1, <3>2, FS_Subset
    <3>4. Cardinality(upTo(y)) = j /\ Cardinality(upTo(x)) = i
      BY <1>8 DEF x, y
    <3> QED BY <1>1, <1>10, <3>3, <3>4
  <2> HIDE DEF s
  <2> QED BY <2>1, <2>2
<1> HIDE DEF s
<1>11. \A x \in G : \E i \in 1..n : s[i] = x
  BY <1>9
<1> QED BY <1>8, <1>10, <1>11

\* So it has a first element.
LEMMA FirstOfMany ==
    ASSUME NEW G, IsFiniteSet(G), G # {}, NEW R,
           \A a, b \in G : ~(<<a, b>> \in R /\ <<b, a>> \in R),
           \A a, b \in G : a # b => <<a, b>> \in R \/ <<b, a>> \in R,
           \A a, b, c \in G : <<a, b>> \in R /\ <<b, c>> \in R => <<a, c>> \in R
    PROVE  \E k \in G : \A b \in G : b # k => <<k, b>> \in R
<1>1. PICK s \in [1..Cardinality(G) -> G] :
          /\ \A x \in G : \E i \in 1..Cardinality(G) : s[i] = x
          /\ \A i, j \in 1..Cardinality(G) : i < j => <<s[i], s[j]>> \in R
  BY InOrder
<1>2. Cardinality(G) \in Nat /\ Cardinality(G) # 0
  BY FS_CardinalityType, FS_EmptySet
<1>3. 1 \in 1..Cardinality(G) /\ s[1] \in G
  BY <1>2
<1>4. ASSUME NEW b \in G, b # s[1]
      PROVE  <<s[1], b>> \in R
  <2>1. PICK i \in 1..Cardinality(G) : s[i] = b
    BY <1>1
  <2>2. i # 1
    BY <1>4, <2>1
  <2>3. 1 < i
    BY <1>2, <2>2
  <2> QED BY <1>1, <1>3, <2>1, <2>3
<1> QED BY <1>3, <1>4

-----------------------------------------------------------------------------
(***************************************************************************)
(* Scores are compared as fractions, by cross-multiplication.              *)
(***************************************************************************)
LEMMA Cross ==
    ASSUME NEW a \in Nat, NEW p \in Nat \ {0}, NEW b \in Nat, NEW q \in Nat \ {0},
           NEW c \in Nat, NEW r \in Nat \ {0}
    PROVE  /\ a * q > b * p /\ b * r >= c * q => a * r > c * p
           /\ a * q >= b * p /\ b * r > c * q => a * r > c * p
           /\ a * q >= b * p /\ b * r >= c * q => a * r >= c * p
<1>1. a * r \in Nat /\ c * p \in Nat /\ a * q \in Nat /\ b * p \in Nat /\ b * r \in Nat /\ c * q \in Nat
  OBVIOUS
<1>2. \A x, y \in Nat : /\ x > y => x * r > y * r /\ x * p > y * p
                        /\ x >= y => x * r >= y * r /\ x * p >= y * p
  OBVIOUS
<1>3. \A x, y \in Nat : /\ x * q > y * q => x > y
                        /\ x * q >= y * q => x >= y
  OBVIOUS
<1>4. /\ (a * q) * r = (a * r) * q /\ (b * p) * r = (b * r) * p /\ (c * q) * p = (c * p) * q
  OBVIOUS
<1>5. (a * r) * q \in Nat /\ (b * r) * p \in Nat /\ (c * p) * q \in Nat
  OBVIOUS
<1> QED BY <1>1, <1>2, <1>3, <1>4, <1>5

\* Results whose scores are such fractions.
Scored(x) == x.score[1] \in Nat /\ x.score[2] \in Nat \ {0}

AllScored(all) == \A x \in all : Scored(x)

LEMMA HigherRanks ==
    ASSUME NEW all, AllScored(all)
    PROVE  /\ \A x, y \in all : ~(Higher(x, y) /\ Higher(y, x))
           /\ \A x, y, z \in all :
                 /\ Higher(x, y) /\ ~Higher(z, y) => Higher(x, z)
                 /\ ~Higher(y, x) /\ Higher(y, z) => Higher(x, z)
                 /\ ~Higher(y, x) /\ ~Higher(z, y) => ~Higher(z, x)
<1>1. \A x, y \in all : ~(Higher(x, y) /\ Higher(y, x))
  <2> SUFFICES ASSUME NEW x \in all, NEW y \in all PROVE ~(Higher(x, y) /\ Higher(y, x))
    OBVIOUS
  <2>1. x.score[1] * y.score[2] \in Nat /\ y.score[1] * x.score[2] \in Nat
    BY DEF AllScored, Scored
  <2> QED BY <2>1 DEF Higher
<1>2. \A x, y, z \in all :
          /\ Higher(x, y) /\ ~Higher(z, y) => Higher(x, z)
          /\ ~Higher(y, x) /\ Higher(y, z) => Higher(x, z)
          /\ ~Higher(y, x) /\ ~Higher(z, y) => ~Higher(z, x)
  <2> SUFFICES ASSUME NEW x \in all, NEW y \in all, NEW z \in all
               PROVE  /\ Higher(x, y) /\ ~Higher(z, y) => Higher(x, z)
                      /\ ~Higher(y, x) /\ Higher(y, z) => Higher(x, z)
                      /\ ~Higher(y, x) /\ ~Higher(z, y) => ~Higher(z, x)
    OBVIOUS
  <2> DEFINE a == x.score[1]
             p == x.score[2]
             b == y.score[1]
             q == y.score[2]
             c == z.score[1]
             r == z.score[2]
  <2>1. /\ a \in Nat /\ b \in Nat /\ c \in Nat
        /\ p \in Nat \ {0} /\ q \in Nat \ {0} /\ r \in Nat \ {0}
    BY DEF AllScored, Scored
  <2>2. /\ Higher(x, y) <=> a * q > b * p
        /\ Higher(y, x) <=> b * p > a * q
        /\ Higher(y, z) <=> b * r > c * q
        /\ Higher(z, y) <=> c * q > b * r
        /\ Higher(x, z) <=> a * r > c * p
        /\ Higher(z, x) <=> c * p > a * r
    BY DEF Higher
  <2> HIDE DEF a, b, c, p, q, r
  <2>3. /\ a * q \in Nat /\ b * p \in Nat /\ b * r \in Nat /\ c * q \in Nat /\ a * r \in Nat /\ c * p \in Nat
    BY <2>1
  <2>4. /\ a * q > b * p /\ b * r >= c * q => a * r > c * p
        /\ a * q >= b * p /\ b * r > c * q => a * r > c * p
        /\ a * q >= b * p /\ b * r >= c * q => a * r >= c * p
    BY <2>1, Cross
  <2> QED BY <2>2, <2>3, <2>4
<1> QED BY <1>1, <1>2

(***************************************************************************)
(* sort.Slice always has an order to leave: whatever the scores, a finite  *)
(* set of results has a ranking.  (Equals come in the order of an          *)
(* enumeration, any will do.)                                              *)
(***************************************************************************)
THEOREM RankingExists ==
    ASSUME NEW results, IsFiniteSet(results), AllScored(results)
    PROVE  Rankings(results) # {}
<1> DEFINE n == Cardinality(results)
<1>1. n \in Nat
  BY FS_CardinalityType
<1>2. PICK e \in Bijection(1..n, results) : TRUE
  BY FS_CardinalityType, Fun_ExistsBij
<1>3. /\ e \in [1..n -> results]
      /\ \A i, j \in 1..n : e[i] = e[j] => i = j
      /\ \A x \in results : \E i \in 1..n : e[i] = x
  <2>1. /\ e \in [1..n -> results] /\ \A i, j \in 1..n : e[i] = e[j] => i = j
        /\ \A x \in results : \E i \in 1..n : e[i] = x
    <3> DEFINE D == 1..n
    <3> HIDE DEF D
    <3>1. e \in Bijection(D, results)
      BY <1>2 DEF D
    <3>2. /\ e \in [D -> results] /\ \A i, j \in D : e[i] = e[j] => i = j
          /\ \A x \in results : \E i \in D : e[i] = x
      BY <3>1, Fun_BijectionProperties
    <3> QED BY <3>2 DEF D
  <2> QED BY <2>1
<1> DEFINE earlier(x, y) == \E i, j \in 1..n : i < j /\ e[i] = x /\ e[j] = y
           R == {xy \in results \X results :
                    \/ Higher(xy[1], xy[2])
                    \/ ~Higher(xy[2], xy[1]) /\ earlier(xy[1], xy[2])}
<1>4. /\ \A x, y \in results : x # y => earlier(x, y) \/ earlier(y, x)
      /\ \A x, y \in results : ~(earlier(x, y) /\ earlier(y, x))
      /\ \A x, y, z \in results : earlier(x, y) /\ earlier(y, z) => earlier(x, z)
  <2> HIDE DEF n
  <2>1. \A x, y \in results : x # y => earlier(x, y) \/ earlier(y, x)
    <3> SUFFICES ASSUME NEW x \in results, NEW y \in results, x # y
                 PROVE  earlier(x, y) \/ earlier(y, x)
      OBVIOUS
    <3>1. PICK i \in 1..n, j \in 1..n : e[i] = x /\ e[j] = y
      BY <1>3
    <3>2. i < j \/ j < i
      BY <1>1, <3>1
    <3> QED BY <3>1, <3>2
  <2>2. \A x, y \in results : ~(earlier(x, y) /\ earlier(y, x))
    BY <1>1, <1>3
  <2>3. \A x, y, z \in results : earlier(x, y) /\ earlier(y, z) => earlier(x, z)
    BY <1>1, <1>3
  <2> QED BY <2>1, <2>2, <2>3
<1>5. \A x, y \in results : <<x, y>> \in R <=> \/ Higher(x, y)
                                               \/ ~Higher(y, x) /\ earlier(x, y)
  OBVIOUS
<1> HIDE DEF R, earlier
<1>6. /\ \A x, y \in results : ~(<<x, y>> \in R /\ <<y, x>> \in R)
      /\ \A x, y \in results : x # y => <<x, y>> \in R \/ <<y, x>> \in R
      /\ \A x, y, z \in results : <<x, y>> \in R /\ <<y, z>> \in R => <<x, z>> \in R
  <2>1. /\ \A x, y \in results : ~(Higher(x, y) /\ Higher(y, x))
        /\ \A x, y, z \in results :
              /\ Higher(x, y) /\ ~Higher(z, y) => Higher(x, z)
              /\ ~Higher(y, x) /\ Higher(y, z) => Higher(x, z)
              /\ ~Higher(y, x) /\ ~Higher(z, y) => ~Higher(z, x)
    BY HigherRanks
  <2>2. \A x, y \in results : ~(<<x, y>> \in R /\ <<y, x>> \in R)
    BY <1>4, <1>5, <2>1
  <2>3. \A x, y \in results : x # y => <<x, y>> \in R \/ <<y, x>> \in R
    BY <1>4, <1>5
  <2>4. ASSUME NEW x \in results, NEW y \in results, NEW z \in results,
               <<x, y>> \in R, <<y, z>> \in R
        PROVE  <<x, z>> \in R
    <3>1. CASE Higher(x, y) \/ Higher(y, z)
      BY <1>5, <2>1, <2>4, <3>1
    <3>2. CASE ~Higher(x, y) /\ ~Higher(y, z)
      BY <1>4, <1>5, <2>1, <2>4, <3>2
    <3> QED BY <3>1, <3>2
  <2> QED BY <2>2, <2>3, <2>4
<1>7. PICK s \in [1..n -> results] :
          /\ \A x \in results : \E i \in 1..n : s[i] = x
          /\ \A i, j \in 1..n : i < j => <<s[i], s[j]>> \in R
  BY <1>6, InOrder
<1>8. \A i, j \in 1..n : i < j => ~Higher(s[j], s[i])
  <2> SUFFICES ASSUME NEW i \in 1..n, NEW j \in 1..n, i < j
               PROVE  ~Higher(s[j], s[i])
    OBVIOUS
  <2>1. <<s[i], s[j]>> \in R /\ s[i] \in results /\ s[j] \in results
    BY <1>7
  <2> QED BY <1>5, <2>1, HigherRanks
<1>9. \A i, j \in 1..n : i # j => s[i] # s[j]
  <2> SUFFICES ASSUME NEW i \in 1..n, NEW j \in 1..n, i < j
               PROVE  s[i] # s[j]
    BY <1>1
  <2>1. <<s[i], s[j]>> \in R /\ s[i] \in results /\ s[j] \in results
    BY <1>7
  <2> QED BY <1>6, <2>1
<1>10. s \in SetToSeqs(results) /\ DOMAIN s = 1..n
  BY <1>7, <1>9 DEF SetToSeqs
<1> HIDE DEF n
<1>11. s \in Rankings(results)
  BY <1>8, <1>10 DEF Rankings
<1> QED BY <1>11

\* The results a provider can report: from it, with fractions for scores.
LEMMA ResultsOf ==
    ASSUME NEW p \in Provider, NEW o \in Outcomes(p)
    PROVE  /\ o # NoOutcome /\ IsFiniteSet(o.results)
           /\ \A x \in o.results :
                 x.from = p /\ x.score[1] \in Nat /\ x.score[2] \in Nat \ {0}
           /\ \A x, y \in o.results : x # y => Higher(x, y) \/ Higher(y, x)
<1>1. CASE \E status \in {"timeout", "error"} : o = Silent(status)
  <2>1. o.results = {} /\ o.status # "none"
    BY <1>1 DEF Silent
  <2> QED BY <2>1, FS_EmptySet DEF NoOutcome, Silent
<1>2. CASE \E items \in Items : o = Found(p, items)
  <2>1. PICK items \in Items : o = Found(p, items)
    BY <1>2
  <2> DEFINE total == Lesser(Len(items), Limit(p))
             w == Weighted(p)
             result(i) == [from |-> p, at |-> i, route |-> Route[p], id |-> items[i],
                           score |-> <<w * (2 * total - (i - 1)), 2 * total>>]
  <2>2. Len(items) \in Nat /\ Limit(p) \in Nat \ {0} /\ w \in Nat \ {0}
    BY RankingAssumption DEF Limit, Weighted
  <2>3. total \in Nat
    BY <2>2 DEF Lesser
  <2>4. o.results = {result(i) : i \in 1..total} /\ o.status = "ok"
    BY <2>1 DEF Found, Mapped
  <2> HIDE DEF total, w
  <2>5. IsFiniteSet(1..total)
    BY <2>3, FS_Interval
  <2>6. IsFiniteSet({result(i) : i \in 1..total})
    <3> DEFINE f == [i \in 1..total |-> result(i)]
    <3>1. f \in Surjection(1..total, {result(i) : i \in 1..total})
      BY DEF Surjection
    <3> QED BY <2>5, <3>1, FS_Surjection
  <2>7. ASSUME NEW i \in 1..total
        PROVE  /\ result(i).from = p
               /\ result(i).score[1] = w * (2 * total - (i - 1)) /\ result(i).score[2] = 2 * total
               /\ w * (2 * total - (i - 1)) \in Nat /\ 2 * total \in Nat \ {0}
    BY <2>2, <2>3
  <2>8. ASSUME NEW i \in 1..total, NEW j \in 1..total, i < j
        PROVE  Higher(result(i), result(j))
    <3> DEFINE a == 2 * total - (i - 1)
               b == 2 * total - (j - 1)
    <3>1. a \in Nat /\ b \in Nat /\ a > b /\ 2 * total \in Nat \ {0}
      BY <2>3, <2>8
    <3> HIDE DEF a, b
    <3>2. w * a > w * b /\ w * a \in Nat /\ w * b \in Nat
      BY <2>2, <3>1
    <3>3. (w * a) * (2 * total) > (w * b) * (2 * total)
      BY <3>1, <3>2
    <3>4. result(i).score[1] = w * a /\ result(j).score[1] = w * b
      BY <2>7 DEF a, b
    <3>5. result(i).score[2] = 2 * total /\ result(j).score[2] = 2 * total
      BY <2>7
    <3> HIDE DEF result
    <3> QED BY <3>3, <3>4, <3>5 DEF Higher
  <2>9. ASSUME NEW x \in o.results, NEW y \in o.results, x # y
        PROVE  Higher(x, y) \/ Higher(y, x)
    <3>1. PICK i \in 1..total : x = result(i)
      BY <2>4
    <3>2. PICK j \in 1..total : y = result(j)
      BY <2>4
    <3>3. i < j \/ j < i
      BY <2>9, <3>1, <3>2
    <3> QED BY <2>8, <3>1, <3>2, <3>3
  <2>10. o # NoOutcome
    BY <2>4 DEF NoOutcome, Silent
  <2>11. \A x \in o.results : x.from = p /\ x.score[1] \in Nat /\ x.score[2] \in Nat \ {0}
    <3> SUFFICES ASSUME NEW x \in o.results
                 PROVE  x.from = p /\ x.score[1] \in Nat /\ x.score[2] \in Nat \ {0}
      OBVIOUS
    <3>1. PICK i \in 1..total : x = result(i)
      BY <2>4
    <3> HIDE DEF result
    <3> QED BY <2>7, <3>1
  <2> QED BY <2>4, <2>6, <2>9, <2>10, <2>11
<1> QED BY <1>1, <1>2 DEF Outcomes

-----------------------------------------------------------------------------
(***************************************************************************)
(* Arrivals: no provider is collected twice, so that they come in an order *)
(* of their own.                                                           *)
(***************************************************************************)
Once(s) == \A i, j \in DOMAIN s : s[i] = s[j] => i = j

LEMMA BeforeOrders ==
    ASSUME collected \in Seq(Provider), Once(collected)
    PROVE  /\ \A p, q \in ToSet(collected) : p # q => Before(p, q) \/ Before(q, p)
           /\ \A p, q : ~(Before(p, q) /\ Before(q, p))
           /\ \A p, q, r : Before(p, q) /\ Before(q, r) => Before(p, r)
<1>1. DOMAIN collected = 1..Len(collected) /\ Len(collected) \in Nat
  OBVIOUS
<1>2. \A p, q \in ToSet(collected) : p # q => Before(p, q) \/ Before(q, p)
  <2> SUFFICES ASSUME NEW i \in DOMAIN collected, NEW j \in DOMAIN collected,
                      collected[i] # collected[j]
               PROVE  Before(collected[i], collected[j]) \/ Before(collected[j], collected[i])
    BY DEF ToSet
  <2>1. i < j \/ j < i
    BY <1>1
  <2> QED BY <2>1 DEF Before
<1>3. \A p, q : ~(Before(p, q) /\ Before(q, p))
  BY <1>1 DEF Before, Once
<1>4. \A p, q, r : Before(p, q) /\ Before(q, r) => Before(p, r)
  BY <1>1 DEF Before, Once
<1> QED BY <1>2, <1>3, <1>4

(***************************************************************************)
(* deduplicate keeps exactly one result for every key, and none does       *)
(* better: among those of a key it puts the higher score first, and of     *)
(* equals the earlier arrival, which orders them in full.                  *)
(***************************************************************************)
THEOREM DeduplicatedIsBest ==
    ASSUME collected \in Seq(Provider), Once(collected),
           \A p \in ToSet(collected) : reply[p] \in Outcomes(p)
    PROVE  LET all == Merged(reply, ToSet(collected))
           IN  /\ BestOf(Deduplicated(all), all)
               /\ IsFiniteSet(Deduplicated(all)) /\ AllScored(Deduplicated(all))
<1> DEFINE P == ToSet(collected)
           all == Merged(reply, P)
           kept == Deduplicated(all)
<1>1. P \subseteq Provider /\ IsFiniteSet(P)
  <2>1. P \subseteq Provider
    BY DEF ToSet
  <2> QED BY <2>1, RankingAssumption, FS_Subset
<1>2. \A p \in P : /\ IsFiniteSet(reply[p].results)
                   /\ \A x \in reply[p].results :
                         x.from = p /\ x.score[1] \in Nat /\ x.score[2] \in Nat \ {0}
                   /\ \A x, y \in reply[p].results : x # y => Higher(x, y) \/ Higher(y, x)
  BY <1>1, ResultsOf
<1> HIDE DEF P
<1>3. IsFiniteSet(all)
  <2> DEFINE lists == {reply[p].results : p \in P}
             f == [p \in P |-> reply[p].results]
  <2>1. f \in Surjection(P, lists)
    BY DEF Surjection
  <2>2. IsFiniteSet(lists)
    BY <1>1, <2>1, FS_Surjection
  <2>3. \A l \in lists : IsFiniteSet(l)
    BY <1>2
  <2> HIDE DEF lists
  <2>4. IsFiniteSet(UNION lists)
    BY <2>2, <2>3, FS_UNION
  <2> QED BY <2>4 DEF Merged, lists
<1>4. \A x \in all : x.from \in P /\ x \in reply[x.from].results
                     /\ x.score[1] \in Nat /\ x.score[2] \in Nat \ {0}
  BY <1>2 DEF Merged
<1> HIDE DEF all
<1>5. AllScored(all)
  BY <1>4 DEF AllScored, Scored
<1>6. /\ \A p, q \in P : p # q => Before(p, q) \/ Before(q, p)
      /\ \A p, q : ~(Before(p, q) /\ Before(q, p))
      /\ \A p, q, r : Before(p, q) /\ Before(q, r) => Before(p, r)
  BY BeforeOrders DEF P
<1>7. \A x, y \in all : ~(Higher(x, y) /\ Higher(y, x))
  BY <1>5, HigherRanks
<1>8. \A x, y, z \in all :
          /\ Higher(x, y) /\ ~Higher(z, y) => Higher(x, z)
          /\ ~Higher(y, x) /\ Higher(y, z) => Higher(x, z)
          /\ ~Higher(y, x) /\ ~Higher(z, y) => ~Higher(z, x)
  BY <1>5, HigherRanks
<1> DEFINE R == {xy \in all \X all : \/ Higher(xy[1], xy[2])
                                     \/ ~Higher(xy[2], xy[1]) /\ Before(xy[1].from, xy[2].from)}
<1>9. \A x, y \in all : <<x, y>> \in R <=> \/ Higher(x, y)
                                           \/ ~Higher(y, x) /\ Before(x.from, y.from)
  OBVIOUS
<1> HIDE DEF R
<1>10. \A x, y \in all : ~(<<x, y>> \in R /\ <<y, x>> \in R)
  BY <1>6, <1>7, <1>9
<1>11. \A x, y \in all : x # y => <<x, y>> \in R \/ <<y, x>> \in R
  <2> SUFFICES ASSUME NEW x \in all, NEW y \in all, x # y
               PROVE  <<x, y>> \in R \/ <<y, x>> \in R
    OBVIOUS
  <2>1. CASE x.from = y.from
    BY <1>2, <1>4, <1>9, <2>1
  <2>2. CASE x.from # y.from
    <3>1. Before(x.from, y.from) \/ Before(y.from, x.from)
      BY <1>4, <1>6, <2>2
    <3> QED BY <1>9, <3>1
  <2> QED BY <2>1, <2>2
<1>12. \A x, y, z \in all : <<x, y>> \in R /\ <<y, z>> \in R => <<x, z>> \in R
  <2> SUFFICES ASSUME NEW x \in all, NEW y \in all, NEW z \in all, <<x, y>> \in R, <<y, z>> \in R
               PROVE  <<x, z>> \in R
    OBVIOUS
  <2>1. CASE Higher(x, y) \/ Higher(y, z)
    BY <1>7, <1>8, <1>9, <2>1
  <2>2. CASE ~Higher(x, y) /\ ~Higher(y, z)
    BY <1>6, <1>8, <1>9, <2>2
  <2> QED BY <2>1, <2>2
<1>13. \A x \in all : x \in kept <=> \A y \in all : Same(x, y) /\ x # y => <<x, y>> \in R
  <2> SUFFICES ASSUME NEW x \in all
               PROVE  x \in kept <=> \A y \in all : Same(x, y) /\ x # y => <<x, y>> \in R
    OBVIOUS
  <2>1. x \in kept <=> \A y \in all : Same(x, y) =>
                          /\ ~Higher(y, x)
                          /\ ~Higher(x, y) /\ x # y => Before(x.from, y.from)
    BY DEF Deduplicated
  <2> HIDE DEF kept
  <2> QED BY <1>7, <1>9, <2>1
<1>14. kept \subseteq all /\ IsFiniteSet(kept)
  <2>1. kept \subseteq all
    BY DEF Deduplicated
  <2> QED BY <1>3, <2>1, FS_Subset
<1> HIDE DEF kept
<1>15. ASSUME NEW a \in all
       PROVE  \E k \in kept : Same(a, k)
  <2> DEFINE G == {y \in all : Same(a, y)}
  <2>1. IsFiniteSet(G) /\ a \in G /\ G \subseteq all
    BY <1>3, FS_Subset DEF Same
  <2> HIDE DEF G
  <2>2. \E k \in G : \A b \in G : b # k => <<k, b>> \in R
    <3>1. /\ \A x, y \in G : ~(<<x, y>> \in R /\ <<y, x>> \in R)
          /\ \A x, y \in G : x # y => <<x, y>> \in R \/ <<y, x>> \in R
          /\ \A x, y, z \in G : <<x, y>> \in R /\ <<y, z>> \in R => <<x, z>> \in R
      BY <1>10, <1>11, <1>12, <2>1
    <3>2. IsFiniteSet(G) /\ G # {}
      BY <2>1
    <3> HIDE DEF all
    <3> QED BY ONLY <3>1, <3>2, FirstOfMany
  <2>3. PICK k \in G : \A b \in G : b # k => <<k, b>> \in R
    BY ONLY <2>2, Zenon
  <2>4. \A y \in all : Same(k, y) => y \in G
    BY <2>3 DEF G, Same
  <2>5. k \in kept
    BY <1>13, <2>1, <2>3, <2>4
  <2> QED BY <2>3, <2>5 DEF G
<1>16. \A k \in kept : \A a \in all : Same(a, k) => ~Higher(a, k)
  BY <1>7, <1>9, <1>13, <1>14 DEF Same
<1>17. \A k, l \in kept : Same(k, l) => k = l
  BY <1>10, <1>13, <1>14 DEF Same
<1>18. BestOf(kept, all)
  BY <1>14, <1>15, <1>16, <1>17 DEF BestOf
<1>19. AllScored(kept)
  BY <1>5, <1>14 DEF AllScored, Scored
<1> QED BY <1>14, <1>18, <1>19 DEF kept, all, P

-----------------------------------------------------------------------------
(***************************************************************************)
(* The inductive invariant.                                                *)
(***************************************************************************)
Types ==
    /\ request \in Request \cup {NoRequest}
    /\ goroutine \in [Provider -> {"none", "invoking", "sending", "sent", "done"}]
    /\ ctxErr \in [Provider -> {"none", "deadline", "cancelled"}]
    /\ DOMAIN reply = Provider /\ reply = [p \in Provider |-> reply[p]]
    /\ ch \in Seq(Provider) /\ collected \in Seq(Provider)
    /\ closed \in BOOLEAN
    /\ answer.code \in {"none", "OK", "BAD_REQUEST", "INTERNAL_ERROR"}
    /\ answer.code = "none" => answer = NoAnswer

Over == {"sending", "sent", "done"}

\* A goroutine has an outcome from when its invocation is over.
RepliesInv ==
    \A p \in Provider : IF goroutine[p] \in Over THEN reply[p] \in Outcomes(p) ELSE reply[p] = NoOutcome

\* Nothing runs but the goroutines of a search that is under way, and
\* the channel is closed after the last of them.
GoroutinesInv ==
    /\ Running => \A p \in Provider : goroutine[p] # "none" <=> p \in Eligible(request)
    /\ ~Running => \A p \in Provider : goroutine[p] \in {"none", "done"}
    /\ request = NoRequest =>
          /\ answer = NoAnswer /\ ~closed /\ ch = << >> /\ collected = << >>
          /\ \A p \in Provider : goroutine[p] = "none"
    /\ Running /\ closed => \A p \in Eligible(request) : goroutine[p] = "done"

\* What was sent is in the channel or collected, once.
ArrivalsInv ==
    /\ Once(ch) /\ Once(collected)
    /\ ToSet(ch) \cap ToSet(collected) = {}
    /\ ToSet(ch) \cup ToSet(collected) = {p \in Provider : goroutine[p] \in {"sent", "done"}}

Inv == Types /\ RepliesInv /\ GoroutinesInv /\ ArrivalsInv

LEMMA InitTypes == Init => Types
<1> SUFFICES ASSUME Init PROVE Types
  OBVIOUS
<1>1. request \in Request \cup {NoRequest} /\ closed \in BOOLEAN
  BY DEF Init
<1>2. /\ goroutine \in [Provider -> {"none", "invoking", "sending", "sent", "done"}]
      /\ ctxErr \in [Provider -> {"none", "deadline", "cancelled"}]
  BY DEF Init
<1>3. DOMAIN reply = Provider /\ reply = [p \in Provider |-> reply[p]]
  BY DEF Init, Quiet
<1>4. ch \in Seq(Provider) /\ collected \in Seq(Provider)
  BY DEF Init
<1>5. answer = NoAnswer /\ answer.code = "none"
  BY DEF Init, NoAnswer, Refusal
<1> QED BY <1>1, <1>2, <1>3, <1>4, <1>5 DEF Types

LEMMA InitInv == Init => Inv
<1> SUFFICES ASSUME Init PROVE Inv
  OBVIOUS
<1>1. Types
  BY InitTypes
<1>2. RepliesInv
  BY DEF Init, RepliesInv, Quiet, Over
<1>3. GoroutinesInv
  BY DEF Init, GoroutinesInv, Running
<1>4. ArrivalsInv
  BY DEF Init, ArrivalsInv, Once, ToSet
<1> QED BY <1>1, <1>2, <1>3, <1>4 DEF Inv

\* Ask starts from a search that is over: nothing is left of it.
LEMMA AskInv ==
    ASSUME Inv, Ask
    PROVE  Inv'
<1>1. /\ request = NoRequest /\ request' \in Request /\ request' # NoRequest
      /\ answer = NoAnswer /\ ~closed /\ ch = << >> /\ collected = << >>
      /\ \A p \in Provider : goroutine[p] = "none"
      /\ UNCHANGED <<ctxErr, reply, ch, collected>>
  BY RequestAssumption DEF Ask, Inv, GoroutinesInv
<1>2. CASE request'.long
  <2>1. /\ goroutine' = [p \in Provider |-> IF p \in Eligible(request') THEN "invoking" ELSE "none"]
        /\ closed' = (Eligible(request') = {}) /\ answer' = NoAnswer
    BY <1>2 DEF Ask
  <2>2. Types'
    BY <1>1, <2>1 DEF Inv, Types
  <2>3. RepliesInv'
    BY <1>1, <2>1 DEF Inv, RepliesInv, Over
  <2>4. GoroutinesInv'
    BY <1>1, <2>1 DEF GoroutinesInv, Running
  <2>5. ArrivalsInv'
    BY <1>1, <2>1 DEF ArrivalsInv, Once, ToSet
  <2> QED BY <2>2, <2>3, <2>4, <2>5 DEF Inv
<1>3. CASE ~request'.long
  <2>1. answer' = Refusal("BAD_REQUEST") /\ UNCHANGED <<goroutine, closed>>
    BY <1>3 DEF Ask
  <2>2. answer' # NoAnswer /\ answer'.code = "BAD_REQUEST"
    BY <2>1 DEF NoAnswer, Refusal
  <2>3. Types'
    BY <1>1, <2>1, <2>2 DEF Inv, Types
  <2>4. RepliesInv'
    BY <1>1, <2>1 DEF Inv, RepliesInv
  <2>5. GoroutinesInv'
    BY <1>1, <2>1, <2>2 DEF GoroutinesInv, Running
  <2>6. ArrivalsInv'
    BY <1>1, <2>1 DEF Inv, ArrivalsInv, Once, ToSet
  <2> QED BY <2>3, <2>4, <2>5, <2>6 DEF Inv
<1> QED BY <1>2, <1>3

\* The contexts matter to nothing but the kind of an error.
LEMMA ContextsInv ==
    ASSUME Inv, ctxErr' \in [Provider -> {"none", "deadline", "cancelled"}],
           UNCHANGED <<request, goroutine, reply, ch, closed, collected, answer>>
    PROVE  Inv'
<1>1. Types'
  BY DEF Inv, Types
<1>2. RepliesInv'
  BY DEF Inv, RepliesInv
<1>3. GoroutinesInv'
  BY DEF Inv, GoroutinesInv, Running
<1>4. ArrivalsInv'
  BY DEF Inv, ArrivalsInv
<1> QED BY <1>1, <1>2, <1>3, <1>4 DEF Inv

\* A goroutine that is not over is one of a search that is.
LEMMA RunningGoroutine ==
    ASSUME Inv, NEW p \in Provider, goroutine[p] \in {"invoking", "sending", "sent"}
    PROVE  Running /\ p \in Eligible(request) /\ ~closed
<1>1. Running
  BY DEF Inv, GoroutinesInv
<1> QED BY <1>1 DEF Inv, GoroutinesInv

LEMMA OutcomeInv ==
    ASSUME Inv, NEW p \in Provider, NEW o \in Outcomes(p), Outcome(p, o)
    PROVE  Inv'
<1>1. /\ goroutine[p] = "invoking" /\ Running /\ ~closed
      /\ goroutine' = [goroutine EXCEPT ![p] = "sending"] /\ reply' = [reply EXCEPT ![p] = o]
      /\ UNCHANGED <<request, ctxErr, ch, closed, collected, answer>>
  BY RunningGoroutine DEF Outcome
<1>2. Types'
  BY <1>1 DEF Inv, Types
<1>3. RepliesInv'
  BY <1>1 DEF Inv, Types, RepliesInv, Over
<1>4. GoroutinesInv'
  BY <1>1 DEF Inv, Types, GoroutinesInv, Running
<1>5. ArrivalsInv'
  BY <1>1 DEF Inv, Types, ArrivalsInv
<1> QED BY <1>2, <1>3, <1>4, <1>5 DEF Inv

LEMMA SendInv ==
    ASSUME Inv, NEW p \in Provider, Send(p)
    PROVE  Inv'
<1>1. /\ goroutine[p] = "sending" /\ Running /\ ~closed
      /\ goroutine' = [goroutine EXCEPT ![p] = "sent"] /\ ch' = Append(ch, p)
      /\ UNCHANGED <<request, ctxErr, reply, closed, collected, answer>>
  BY RunningGoroutine DEF Send
<1>2. Types'
  BY <1>1 DEF Inv, Types
<1>3. RepliesInv'
  BY <1>1 DEF Inv, Types, RepliesInv, Over
<1>4. GoroutinesInv'
  BY <1>1 DEF Inv, Types, GoroutinesInv, Running
<1>5. ArrivalsInv'
  <2>1. p \notin ToSet(ch) /\ p \notin ToSet(collected)
    BY <1>1 DEF Inv, ArrivalsInv
  <2>2. /\ DOMAIN ch' = 1..(Len(ch) + 1) /\ ch'[Len(ch) + 1] = p /\ Len(ch) \in Nat
        /\ DOMAIN ch = 1..Len(ch) /\ \A i \in 1..Len(ch) : ch'[i] = ch[i]
    BY <1>1 DEF Inv, Types
  <2>3. ToSet(ch') = ToSet(ch) \cup {p}
    BY <2>2 DEF ToSet
  <2>4. Once(ch')
    BY <2>1, <2>2 DEF Inv, ArrivalsInv, Once, ToSet
  <2>5. {q \in Provider : goroutine'[q] \in {"sent", "done"}} =
            {q \in Provider : goroutine[q] \in {"sent", "done"}} \cup {p}
    BY <1>1 DEF Inv, Types
  <2> QED BY <1>1, <2>1, <2>3, <2>4, <2>5 DEF Inv, ArrivalsInv
<1> QED BY <1>2, <1>3, <1>4, <1>5 DEF Inv

LEMMA DoneInv ==
    ASSUME Inv, NEW p \in Provider, Done(p)
    PROVE  Inv'
<1>1. /\ goroutine[p] = "sent" /\ Running /\ ~closed
      /\ goroutine' = [goroutine EXCEPT ![p] = "done"]
      /\ UNCHANGED <<request, ctxErr, reply, ch, closed, collected, answer>>
  BY RunningGoroutine DEF Done
<1>2. Types'
  BY <1>1 DEF Inv, Types
<1>3. RepliesInv'
  BY <1>1 DEF Inv, Types, RepliesInv, Over
<1>4. GoroutinesInv'
  BY <1>1 DEF Inv, Types, GoroutinesInv, Running
<1>5. ArrivalsInv'
  BY <1>1 DEF Inv, Types, ArrivalsInv
<1> QED BY <1>2, <1>3, <1>4, <1>5 DEF Inv

LEMMA CloseChannelInv ==
    ASSUME Inv, CloseChannel
    PROVE  Inv'
<1>1. Types' /\ RepliesInv' /\ ArrivalsInv'
  BY DEF Inv, CloseChannel, Types, RepliesInv, ArrivalsInv
<1>2. GoroutinesInv'
  BY DEF Inv, CloseChannel, GoroutinesInv, Running
<1> QED BY <1>1, <1>2 DEF Inv

LEMMA ReceiveInv ==
    ASSUME Inv, Receive
    PROVE  Inv'
<1>1. /\ Running /\ ch # << >> /\ ch' = Tail(ch) /\ collected' = Append(collected, Head(ch))
      /\ UNCHANGED <<request, goroutine, ctxErr, reply, closed, answer>>
      /\ ch \in Seq(Provider) /\ collected \in Seq(Provider)
  BY DEF Inv, Types, Receive
<1>2. /\ Len(ch) \in Nat /\ Len(ch) >= 1 /\ DOMAIN ch = 1..Len(ch)
      /\ DOMAIN ch' = 1..(Len(ch) - 1) /\ \A i \in 1..(Len(ch) - 1) : ch'[i] = ch[i + 1]
      /\ Head(ch) = ch[1] /\ Head(ch) \in Provider
      /\ ch' \in Seq(Provider)
  BY <1>1
<1>3. /\ Len(collected) \in Nat /\ DOMAIN collected = 1..Len(collected)
      /\ DOMAIN collected' = 1..(Len(collected) + 1) /\ collected'[Len(collected) + 1] = ch[1]
      /\ \A i \in 1..Len(collected) : collected'[i] = collected[i]
      /\ collected' \in Seq(Provider)
  BY <1>1, <1>2
<1>4. Types'
  BY <1>1, <1>2, <1>3 DEF Inv, Types
<1>5. RepliesInv'
  BY <1>1 DEF Inv, RepliesInv
<1>6. GoroutinesInv'
  BY <1>1 DEF Inv, GoroutinesInv, Running
<1>7. ArrivalsInv'
  <2>1. 1 \in DOMAIN ch /\ ch[1] \in ToSet(ch) /\ ch[1] \notin ToSet(collected)
    <3>1. 1 \in DOMAIN ch
      BY <1>2
    <3>2. ch[1] \in ToSet(ch)
      BY <3>1 DEF ToSet
    <3> QED BY <3>1, <3>2 DEF Inv, ArrivalsInv
  <2>2. ToSet(collected') = ToSet(collected) \cup {ch[1]}
    BY <1>3 DEF ToSet
  <2>3. Once(collected')
    BY <1>3, <2>1 DEF Inv, ArrivalsInv, Once, ToSet
  <2>4. Once(ch')
    <3>1. ASSUME NEW i \in DOMAIN ch', NEW j \in DOMAIN ch', i # j PROVE ch'[i] # ch'[j]
      <4>1. /\ i + 1 \in DOMAIN ch /\ j + 1 \in DOMAIN ch /\ i + 1 # j + 1
            /\ ch'[i] = ch[i + 1] /\ ch'[j] = ch[j + 1]
        BY <1>2, <3>1
      <4> QED BY <4>1 DEF Inv, ArrivalsInv, Once
    <3> QED BY <3>1 DEF Once
  <2>5. ToSet(ch) = ToSet(ch') \cup {ch[1]}
    <3>1. \A i \in DOMAIN ch : i = 1 \/ (i - 1 \in DOMAIN ch' /\ ch[i] = ch'[i - 1])
      BY <1>2
    <3>2. \A i \in DOMAIN ch' : i + 1 \in DOMAIN ch /\ ch'[i] = ch[i + 1]
      BY <1>2
    <3>3. 1 \in DOMAIN ch
      BY <1>2
    <3> QED BY <3>1, <3>2, <3>3 DEF ToSet
  <2>6. ch[1] \notin ToSet(ch')
    <3>1. ASSUME NEW i \in DOMAIN ch' PROVE ch'[i] # ch[1]
      <4>1. i + 1 \in DOMAIN ch /\ i + 1 # 1 /\ ch'[i] = ch[i + 1]
        BY <1>2
      <4> QED BY <4>1, <2>1 DEF Inv, ArrivalsInv, Once
    <3> QED BY <3>1 DEF ToSet
  <2> QED BY <1>1, <2>1, <2>2, <2>3, <2>4, <2>5, <2>6 DEF Inv, ArrivalsInv
<1> QED BY <1>4, <1>5, <1>6, <1>7 DEF Inv

LEMMA RespondInv ==
    ASSUME Inv, Respond
    PROVE  Inv'
<1>1. /\ Running /\ closed /\ UNCHANGED <<request, goroutine, ctxErr, reply, ch, closed, collected>>
      /\ answer'.code \in {"OK", "INTERNAL_ERROR"}
  BY DEF Respond, Refusal, Answered
<1>2. answer' # NoAnswer
  BY <1>1 DEF NoAnswer, Refusal
<1>3. Types'
  BY <1>1 DEF Inv, Types
<1>4. RepliesInv' /\ ArrivalsInv'
  BY <1>1 DEF Inv, RepliesInv, ArrivalsInv
<1>5. GoroutinesInv'
  BY <1>1, <1>2 DEF Inv, GoroutinesInv, Running
<1> QED BY <1>3, <1>4, <1>5 DEF Inv

LEMMA FinishInv ==
    ASSUME Finish
    PROVE  Inv'
<1>1. Init'
  BY DEF Finish, Init
<1> QED BY <1>1, InitInv, PTL

LEMMA InvocationOutcome ==
    ASSUME NEW p \in Provider, Invocation(p)
    PROVE  \E o \in Outcomes(p) : Outcome(p, o)
<1>1. CASE Answers(p)
  BY <1>1 DEF Answers, Outcomes
<1>2. CASE Refuses(p)
  BY <1>2 DEF Refuses, Outcomes
<1>3. CASE Fails(p)
  BY <1>3 DEF Fails, Outcomes
<1> QED BY <1>1, <1>2, <1>3 DEF Invocation

LEMMA NextInv ==
    ASSUME Inv, [Next]_vars
    PROVE  Inv'
<1>1. ASSUME NEW p \in Provider, ProviderTimeout(p) PROVE Inv'
  <2>1. ctxErr' \in [Provider -> {"none", "deadline", "cancelled"}]
    BY <1>1 DEF ProviderTimeout, Inv, Types
  <2> QED BY <1>1, <2>1, ContextsInv DEF ProviderTimeout
<1>2. ASSUME NEW e \in {"deadline", "cancelled"}, CallerGone(e) PROVE Inv'
  <2>1. ctxErr' \in [Provider -> {"none", "deadline", "cancelled"}]
    BY <1>2 DEF CallerGone, Inv, Types
  <2> QED BY <1>2, <2>1, ContextsInv DEF CallerGone
<1>3. ASSUME NEW p \in Provider, Provide(p) PROVE Inv'
  BY <1>3, InvocationOutcome, OutcomeInv, SendInv, DoneInv DEF Provide
<1>4. CASE UNCHANGED vars
  <2>1. ctxErr' \in [Provider -> {"none", "deadline", "cancelled"}]
    BY <1>4 DEF vars, Inv, Types
  <2> QED BY <1>4, <2>1, ContextsInv DEF vars
<1> QED BY <1>1, <1>2, <1>3, <1>4, AskInv, CloseChannelInv, ReceiveInv, RespondInv, FinishInv DEF Next

\* The inductive invariant holds in every state.
THEOREM InvariantHolds == Spec => []Inv
  BY InitInv, NextInv, PTL DEF Spec


\* Every variable has its type in every state.
THEOREM TypeCorrect == Spec => []TypeOK
<1>1. Inv => TypeOK
  <2> SUFFICES ASSUME Inv PROVE TypeOK
    OBVIOUS
  <2>1. \A p \in Provider : reply[p] \in Outcomes(p) \cup {NoOutcome}
    BY DEF Inv, RepliesInv
  <2> QED BY <2>1 DEF Inv, Types, TypeOK
<1> QED BY <1>1, InvariantHolds, PTL

\* A sequence in which nothing comes twice is no longer than what its
\* elements are taken from.
LEMMA OnceIsShort ==
    ASSUME NEW S, IsFiniteSet(S), NEW s \in Seq(S), Once(s)
    PROVE  Len(s) <= Cardinality(S)
<1>1. Len(s) \in Nat /\ DOMAIN s = 1..Len(s) /\ s \in [1..Len(s) -> S]
  OBVIOUS
<1>2. s \in Injection(1..Len(s), S)
  BY <1>1 DEF Once, Injection, IsInjective
<1>3. Cardinality(1..Len(s)) = Len(s)
  BY <1>1, FS_Interval
<1> QED BY <1>2, <1>3, FS_Injection

LEMMA EligibleFinite ==
    ASSUME NEW r
    PROVE  IsFiniteSet(Eligible(r))
<1>1. Eligible(r) \in SUBSET Provider
  BY DEF Eligible
<1> QED BY <1>1, RankingAssumption, FS_Subset

(***************************************************************************)
(* A provider about to send finds the channel open and with room, since    *)
(* only others are in it, and each of them once.                           *)
(***************************************************************************)
THEOREM NoSenderBlocks == Spec => []SendersNeverBlock
<1>1. Inv => SendersNeverBlock
  <2> SUFFICES ASSUME Inv, NEW p \in Provider, goroutine[p] = "sending"
               PROVE  ~closed /\ Len(ch) < Capacity
    BY DEF SendersNeverBlock
  <2>1. Running /\ p \in Eligible(request) /\ ~closed
    BY RunningGoroutine
  <2> DEFINE others == Eligible(request) \ {p}
  <2>2. ToSet(ch) \subseteq others
    <3>1. \A q \in ToSet(ch) : q \in Provider /\ goroutine[q] \in {"sent", "done"}
      BY DEF Inv, ArrivalsInv
    <3>2. \A q \in ToSet(ch) : q \in Eligible(request)
      BY <2>1, <3>1 DEF Inv, GoroutinesInv
    <3> QED BY <3>1, <3>2
  <2>3. ch \in Seq(others)
    <3>1. ch \in Seq(Provider) /\ \A i \in 1..Len(ch) : ch[i] \in others
      BY <2>2 DEF Inv, Types, ToSet
    <3> QED BY <3>1
  <2>4. /\ IsFiniteSet(others) /\ Cardinality(others) = Cardinality(Eligible(request)) - 1
        /\ Cardinality(Eligible(request)) \in Nat
    BY <2>1, EligibleFinite, FS_RemoveElement, FS_CardinalityType
  <2>5. Len(ch) <= Cardinality(others) /\ Len(ch) \in Nat
    BY <2>3, <2>4, OnceIsShort DEF Inv, ArrivalsInv
  <2> QED BY <2>1, <2>4, <2>5 DEF Capacity
<1> QED BY <1>1, InvariantHolds, PTL

-----------------------------------------------------------------------------
\* SearchPromise ranks the way FederatedSearch does.
LEMMA SameRanking ==
    /\ Promise!NoRequest = NoRequest /\ Promise!NoAnswer = NoAnswer /\ Promise!Quiet = Quiet
    /\ Promise!NoOutcome = NoOutcome
    /\ \A p : Promise!Outcomes(p) = Outcomes(p)
    /\ \A r : Promise!Eligible(r) = Eligible(r) /\ (Promise!Panics(r) <=> Panics(r))
    /\ \A code : Promise!Refusal(code) = Refusal(code)
    /\ \A rep, P : Promise!Merged(rep, P) = Merged(rep, P)
    /\ \A S : Promise!Cardinality(S) = Cardinality(S)
    /\ \A kept, all : Promise!BestOf(kept, all) <=> BestOf(kept, all)
    /\ \A results : Promise!Rankings(results) = Rankings(results)
    /\ \A s, r : Promise!PageOf(s, r) = PageOf(s, r)
    /\ \A page, total, rep, P : Promise!Answered(page, total, rep, P) = Answered(page, total, rep, P)
<1>1. /\ Promise!NoRequest = NoRequest /\ Promise!NoAnswer = NoAnswer /\ Promise!Quiet = Quiet
      /\ Promise!NoOutcome = NoOutcome
      /\ \A code : Promise!Refusal(code) = Refusal(code)
  BY DEF Promise!NoRequest, NoRequest, Promise!NoAnswer, NoAnswer, Promise!Quiet, Quiet,
         Promise!NoOutcome, NoOutcome, Promise!Refusal, Refusal, Promise!Silent, Silent
<1>2. \A p : Promise!Outcomes(p) = Outcomes(p)
  BY DEF Promise!Outcomes, Outcomes, Promise!Found, Found, Promise!Silent, Silent,
         Promise!Mapped, Mapped, Promise!Lesser, Lesser, Promise!Limit, Limit,
         Promise!Weighted, Weighted
<1>3. \A r : Promise!Eligible(r) = Eligible(r) /\ (Promise!Panics(r) <=> Panics(r))
  BY DEF Promise!Eligible, Eligible, Promise!Panics, Panics, Promise!Offset, Offset,
         Promise!Wrap, Wrap, Promise!Page, Page, Promise!PageSize, PageSize,
         Promise!Lesser, Lesser
<1>4. \A rep, P : Promise!Merged(rep, P) = Merged(rep, P)
  BY DEF Promise!Merged, Merged
<1>5. \A kept, all : Promise!BestOf(kept, all) <=> BestOf(kept, all)
  BY DEF Promise!BestOf, BestOf, Promise!Same, Same, Promise!Higher, Higher
<1>6. \A S : Promise!Cardinality(S) = Cardinality(S)
  BY DEF Promise!Cardinality, Cardinality
<1>7. \A results : Promise!Rankings(results) = Rankings(results)
  BY <1>6 DEF Promise!Rankings, Rankings, Promise!SetToSeqs, SetToSeqs, Promise!Higher, Higher
<1>8. \A s, r : Promise!PageOf(s, r) = PageOf(s, r)
  BY DEF Promise!PageOf, PageOf, Promise!Offset, Offset,
         Promise!Wrap, Wrap, Promise!Page, Page, Promise!PageSize, PageSize,
         Promise!Lesser, Lesser
<1>9. \A page, total, rep, P : Promise!Answered(page, total, rep, P) = Answered(page, total, rep, P)
  BY DEF Promise!Answered, Answered
<1> QED BY <1>1, <1>2, <1>3, <1>4, <1>5, <1>6, <1>7, <1>8, <1>9

\* No outcome is no outcome at all.
LEMMA OutcomeShows ==
    ASSUME NEW p \in Provider
    PROVE  NoOutcome \notin Outcomes(p)
  BY ResultsOf

\* The caller collects what every provider it asked came to.
LEMMA AllCollected ==
    ASSUME Inv, Running, closed, ch = << >>
    PROVE  /\ ToSet(collected) = Eligible(request)
           /\ \A p \in Eligible(request) : reply[p] \in Outcomes(p)
<1>1. Eligible(request) \subseteq Provider
  BY DEF Eligible
<1>2. \A p \in Eligible(request) : goroutine[p] = "done"
  BY DEF Inv, GoroutinesInv
<1>3. ToSet(collected) = {p \in Provider : goroutine[p] \in {"sent", "done"}}
  BY DEF Inv, ArrivalsInv, ToSet
<1>4. \A p \in Provider : goroutine[p] # "none" <=> p \in Eligible(request)
  BY DEF Inv, GoroutinesInv
<1> QED BY <1>1, <1>2, <1>3, <1>4 DEF Inv, RepliesInv, Over

\* A ranking of a finite set is as long as that.
LEMMA RankingLength ==
    ASSUME NEW kept, IsFiniteSet(kept), NEW s \in Rankings(kept)
    PROVE  Len(s) = Cardinality(kept)
<1>1. Cardinality(kept) \in Nat
  BY FS_CardinalityType
<1>2. s \in [1..Cardinality(kept) -> kept]
  BY DEF Rankings, SetToSeqs
<1> QED BY <1>1, <1>2

LEMMA RespondKept ==
    ASSUME Inv, Respond
    PROVE  Promise!Answer
<1> DEFINE asked == Eligible(request)
           all == Merged(reply, asked)
           kept == Deduplicated(all)
<1>1. Running /\ closed /\ ch = << >>
  BY DEF Respond
<1>2. ToSet(collected) = asked /\ \A p \in asked : p \in Provider /\ reply[p] \in Outcomes(p)
  BY <1>1, AllCollected DEF Eligible
<1>3. /\ request # Promise!NoRequest /\ answer = Promise!NoAnswer
      /\ \A p \in Promise!Eligible(request) : reply[p] # Promise!NoOutcome
      /\ UNCHANGED <<request, reply>>
  BY <1>1, <1>2, OutcomeShows, SameRanking DEF Running, Respond
<1>4. BestOf(kept, all) /\ IsFiniteSet(kept) /\ kept \in SUBSET all
  <2>1. BestOf(kept, all) /\ IsFiniteSet(kept)
    BY <1>2, DeduplicatedIsBest DEF Inv, Types, ArrivalsInv
  <2> QED BY <2>1 DEF BestOf
<1>5. CASE Panics(request)
  <2>1. answer' = Refusal("INTERNAL_ERROR")
    BY <1>5 DEF Respond
  <2>2. Promise!Panics(request) /\ answer' = Promise!Refusal("INTERNAL_ERROR")
    BY <1>5, <2>1, SameRanking
  <2> QED BY <1>3, <2>2 DEF Promise!Answer
<1>6. CASE ~Panics(request)
  <2>1. PICK s \in Rankings(kept) : answer' = Answered(PageOf(s, request), Len(s), reply, asked)
    BY <1>2, <1>6 DEF Respond
  <2>2. answer' = Answered(PageOf(s, request), Cardinality(kept), reply, asked)
    BY <1>4, <2>1, RankingLength
  <2> HIDE DEF kept
  <2>3. /\ ~Promise!Panics(request)
        /\ kept \in SUBSET Promise!Merged(reply, Promise!Eligible(request))
        /\ Promise!BestOf(kept, Promise!Merged(reply, Promise!Eligible(request)))
        /\ s \in Promise!Rankings(kept)
        /\ answer' = Promise!Answered(Promise!PageOf(s, request), Promise!Cardinality(kept), reply,
                                      Promise!Eligible(request))
    BY <1>4, <1>6, <2>1, <2>2, SameRanking
  <2> QED BY <1>3, <2>3 DEF Promise!Answer
<1> QED BY <1>5, <1>6

(***************************************************************************)
(* A search, with its goroutines, timers and channel, is one of            *)
(* SearchPromise: it starts and ends there, each invocation that is over   *)
(* is a Report, and the answer ranks the best of all that was reported.    *)
(***************************************************************************)
THEOREM SearchKeepsPromise == Spec => KeepsPromise
<1>1. Init => Promise!PromiseInit
  BY SameRanking DEF Init, Promise!PromiseInit
<1>2. Inv /\ [Next]_vars => [Promise!PromiseNext]_Promise!promiseVars
  <2> SUFFICES ASSUME Inv, [Next]_vars PROVE [Promise!PromiseNext]_Promise!promiseVars
    OBVIOUS
  <2>1. CASE Ask
    <3>1. /\ request = NoRequest /\ request' \in Request /\ UNCHANGED reply
          /\ answer' = IF request'.long THEN NoAnswer ELSE Refusal("BAD_REQUEST")
      BY <2>1 DEF Ask
    <3>2. Promise!Ask
      BY <3>1, SameRanking DEF Promise!Ask
    <3> QED BY <3>2 DEF Promise!PromiseNext
  <2>2. ASSUME NEW p \in Provider, NEW o \in Outcomes(p), Outcome(p, o)
        PROVE  Promise!PromiseNext
    <3>1. Running /\ p \in Eligible(request) /\ reply[p] = NoOutcome
      BY <2>2, RunningGoroutine DEF Outcome, Inv, RepliesInv, Over
    <3>2. reply' = [reply EXCEPT ![p] = o] /\ UNCHANGED <<request, answer>>
      BY <2>2 DEF Outcome
    <3>3. Promise!Report(p)
      BY <3>1, <3>2, SameRanking DEF Running, Promise!Report
    <3> QED BY <3>3 DEF Promise!PromiseNext
  <2>3. CASE Respond
    BY <2>3, RespondKept DEF Promise!PromiseNext
  <2>4. CASE Finish
    <3>1. Promise!Close
      BY <2>4, SameRanking DEF Finish, Promise!Close
    <3> QED BY <3>1 DEF Promise!PromiseNext
  <2>5. ASSUME UNCHANGED <<request, reply, answer>>
        PROVE  UNCHANGED Promise!promiseVars
    BY <2>5 DEF Promise!promiseVars
  <2>6. CASE CloseChannel \/ Receive \/ UNCHANGED vars
    BY <2>5, <2>6 DEF CloseChannel, Receive, vars
  <2>7. ASSUME NEW p \in Provider, ProviderTimeout(p) \/ Send(p) \/ Done(p)
        PROVE  UNCHANGED Promise!promiseVars
    BY <2>5, <2>7 DEF ProviderTimeout, Send, Done
  <2>8. ASSUME NEW e \in {"deadline", "cancelled"}, CallerGone(e)
        PROVE  UNCHANGED Promise!promiseVars
    BY <2>5, <2>8 DEF CallerGone
  <2>9. ASSUME NEW p \in Provider, Invocation(p)
        PROVE  Promise!PromiseNext
    BY <2>2, <2>9, InvocationOutcome
  <2> QED BY <2>1, <2>3, <2>4, <2>6, <2>7, <2>8, <2>9 DEF Next, Provide
<1> QED BY <1>1, <1>2, InvariantHolds, PTL DEF Spec, KeepsPromise, Promise!PromiseSpec

-----------------------------------------------------------------------------
Key(x) == <<x.route, x.id>>

\* Scores are in order.
LEMMA HigherOrders ==
    ASSUME NEW a, NEW b, NEW c, Scored(a), Scored(b), Scored(c)
    PROVE  /\ ~Higher(a, a)
           /\ Higher(b, a) /\ ~Higher(b, c) => Higher(c, a)
<1>1. AllScored({a, b, c})
  BY DEF AllScored
<1> QED BY <1>1, HigherRanks

(***************************************************************************)
(* Whoever stands at a place of a ranking of the best results has fewer    *)
(* keys above, and at least as many no worse, as the place says.           *)
(***************************************************************************)
LEMMA PlacesAreEarned ==
    ASSUME NEW all, NEW kept, BestOf(kept, all), IsFiniteSet(kept),
           \A x \in all : Scored(x),
           NEW s \in Rankings(kept)
    PROVE  LET keys == {<<x.route, x.id>> : x \in all}
               OfKey(k) == {x \in all : <<x.route, x.id>> = k}
           IN  /\ Cardinality(keys) = Len(s)
               /\ \A m \in 1..Len(s) :
                     /\ Cardinality({k \in keys : \E y \in OfKey(k) : Higher(y, s[m])}) < m
                     /\ m <= Cardinality({k \in keys : \E y \in OfKey(k) : ~Higher(s[m], y)})
<1> DEFINE keys == {<<x.route, x.id>> : x \in all}
           OfKey(k) == {x \in all : <<x.route, x.id>> = k}
           n == Cardinality(kept)
           place == [i \in 1..n |-> Key(s[i])]
<1>1. /\ n \in Nat /\ s \in [1..n -> kept] /\ Len(s) = n
      /\ \A i, j \in 1..n : i # j => s[i] # s[j]
      /\ \A i, j \in 1..n : i < j => ~Higher(s[j], s[i])
  <2>1. n \in Nat
    BY FS_CardinalityType
  <2>2. /\ s \in [1..n -> kept] /\ \A i, j \in 1..n : i # j => s[i] # s[j]
        /\ \A i, j \in DOMAIN s : i < j => ~Higher(s[j], s[i])
    BY DEF Rankings, SetToSeqs
  <2> QED BY <2>1, <2>2
<1>2. s \in Bijection(1..n, kept)
  <2>1. s \in Injection(1..n, kept)
    BY <1>1 DEF Injection, IsInjective
  <2>2. IsFiniteSet(1..n) /\ Cardinality(1..n) = n
    BY <1>1, FS_Interval
  <2>3. s \in Surjection(1..n, kept)
    BY <2>1, <2>2, FS_Injection
  <2> QED BY <2>1, <2>3 DEF Bijection
<1>3. \A x \in kept : \E i \in 1..n : s[i] = x
  BY <1>2 DEF Bijection, Surjection
<1>4. /\ \A i \in 1..n : s[i] \in all /\ place[i] \in keys
      /\ \A i, j \in 1..n : place[i] = place[j] => i = j
      /\ \A x \in all : \E i \in 1..n : place[i] = Key(x) /\ ~Higher(x, s[i])
  <2>1. \A i \in 1..n : s[i] \in all /\ place[i] \in keys
    BY <1>1 DEF BestOf, Key
  <2>2. \A i, j \in 1..n : place[i] = place[j] => i = j
    BY <1>1 DEF BestOf, Same, Key
  <2>3. ASSUME NEW x \in all PROVE \E i \in 1..n : place[i] = Key(x) /\ ~Higher(x, s[i])
    <3>1. PICK k \in kept : Same(x, k) /\ ~Higher(x, k)
      BY DEF BestOf
    <3>2. PICK i \in 1..n : s[i] = k
      BY <1>3
    <3> QED BY <3>1, <3>2 DEF Same, Key
  <2> QED BY <2>1, <2>2, <2>3
<1> HIDE DEF place, n
<1>5. ASSUME NEW m \in 0..n
      PROVE  /\ IsFiniteSet({place[i] : i \in 1..m})
             /\ Cardinality({place[i] : i \in 1..m}) = m
  <2> DEFINE first == [i \in 1..m |-> place[i]]
             T == {place[i] : i \in 1..m}
  <2>1. 1..m \subseteq 1..n /\ m \in Nat
    BY <1>1
  <2>2. first \in Bijection(1..m, T)
    <3>1. first \in Injection(1..m, T)
      BY <1>4, <2>1 DEF Injection, IsInjective
    <3>2. first \in Surjection(1..m, T)
      BY DEF Surjection
    <3> QED BY <3>1, <3>2 DEF Bijection
  <2>3. IsFiniteSet(1..m) /\ Cardinality(1..m) = m
    BY <2>1, FS_Interval
  <2>4. ExistsBijection(1..m, T)
    BY <2>2 DEF ExistsBijection
  <2> QED BY <2>3, <2>4, FS_Bijection
<1>6. keys = {place[i] : i \in 1..n}
  BY <1>4 DEF Key
<1>7. Cardinality(keys) = Len(s) /\ IsFiniteSet(keys)
  <2>1. n \in 0..n
    BY <1>1
  <2> QED BY <1>1, <1>5, <1>6, <2>1
<1>8. ASSUME NEW m \in 1..n
      PROVE  /\ Cardinality({k \in keys : \E y \in OfKey(k) : Higher(y, s[m])}) < m
             /\ m <= Cardinality({k \in keys : \E y \in OfKey(k) : ~Higher(s[m], y)})
  <2> DEFINE better == {k \in keys : \E y \in OfKey(k) : Higher(y, s[m])}
             asGood == {k \in keys : \E y \in OfKey(k) : ~Higher(s[m], y)}
             above == {place[i] : i \in 1..(m - 1)}
             upTo == {place[i] : i \in 1..m}
  <2>1. m - 1 \in 0..n /\ m \in 0..n
    BY <1>1
  <2>2. better \subseteq above
    <3> SUFFICES ASSUME NEW y \in all, Higher(y, s[m])
                 PROVE  \E i \in 1..(m - 1) : place[i] = Key(y)
      BY DEF Key
    <3>1. PICK i \in 1..n : place[i] = Key(y) /\ ~Higher(y, s[i])
      BY <1>4
    <3>2. Scored(y) /\ Scored(s[i]) /\ Scored(s[m])
      BY <1>4
    <3>3. Higher(s[i], s[m]) /\ ~Higher(s[m], s[m])
      BY <3>1, <3>2, HigherOrders
    <3>4. i < m
      BY <1>1, <3>3
    <3>5. i \in 1..(m - 1)
      BY <1>1, <3>4
    <3> QED BY <3>1, <3>5
  <2>3. upTo \subseteq asGood
    <3> SUFFICES ASSUME NEW i \in 1..m PROVE place[i] \in asGood
      OBVIOUS
    <3>1. i \in 1..n /\ (i = m \/ i < m)
      BY <1>1
    <3>2. ~Higher(s[m], s[i])
      <4>1. Scored(s[m])
        BY <1>4
      <4>2. ~Higher(s[m], s[m])
        BY <4>1, HigherOrders
      <4> QED BY <1>1, <3>1, <4>2
    <3>3. s[i] \in OfKey(place[i])
      BY <1>4, <3>1 DEF place, Key
    <3> QED BY <1>4, <3>1, <3>2, <3>3
  <2>4. IsFiniteSet(above) /\ Cardinality(above) = m - 1 /\ Cardinality(upTo) = m
    BY <1>5, <2>1
  <2>5. Cardinality(better) <= m - 1 /\ Cardinality(better) \in Nat
    <3> HIDE DEF better, above
    <3> QED BY <2>2, <2>4, FS_Subset, FS_CardinalityType
  <2>6. m <= Cardinality(asGood)
    <3>1. asGood \subseteq keys
      OBVIOUS
    <3> HIDE DEF asGood, upTo, keys
    <3>2. IsFiniteSet(asGood)
      BY <1>7, <3>1, FS_Subset
    <3> QED BY <2>3, <2>4, <3>2, FS_Subset
  <2> HIDE DEF better, asGood
  <2>7. Cardinality(better) < m /\ m <= Cardinality(asGood)
    BY <1>1, <2>5, <2>6
  <2> QED BY <2>7 DEF better, asGood
<1> QED BY <1>1, <1>7, <1>8

\* Arithmetic on int does not wrap around for a number that is one.
LEMMA WrapInside ==
    ASSUME NEW n \in 0..IntMax
    PROVE  Wrap(n) = n
<1>1. IntMax \in Nat
  BY RankingAssumption
<1> DEFINE w == 2 * (IntMax + 1)
           k == n + IntMax + 1
<1>2. w \in Nat \ {0} /\ k \in 0..(w - 1)
  BY <1>1
<1> HIDE DEF w, k
<1>3. k % w = k
  BY <1>2
<1> QED BY <1>1, <1>3 DEF Wrap, w, k

(***************************************************************************)
(* No request is for a page so far that its offset is beyond an int: what  *)
(* becomes of those the run search_far_page shows.                         *)
(***************************************************************************)
Near == \A r \in Request : (Page(r) - 1) * PageSize(r) <= IntMax

LEMMA OffsetOfNear ==
    ASSUME Near, NEW r \in Request
    PROVE  /\ PageSize(r) \in Nat \ {0}
           /\ PageSize(r) = IF r.pageSize \in 1..MaxPageSize THEN r.pageSize
                            ELSE IF r.pageSize > MaxPageSize THEN MaxPageSize
                            ELSE DefaultPageSize
           /\ Offset(r) \in Nat
           /\ Offset(r) = IF r.page > 1 THEN (r.page - 1) * PageSize(r) ELSE 0
<1>1. r.page \in Int /\ r.pageSize \in Int
  BY RequestAssumption
<1>2. /\ PageSize(r) \in Nat \ {0}
      /\ PageSize(r) = IF r.pageSize \in 1..MaxPageSize THEN r.pageSize
                       ELSE IF r.pageSize > MaxPageSize THEN MaxPageSize
                       ELSE DefaultPageSize
  BY <1>1, RankingAssumption DEF PageSize, Lesser
<1> DEFINE z == PageSize(r)
           k == Page(r) - 1
<1>3. z \in Nat /\ k \in Nat /\ k = (IF r.page > 1 THEN r.page - 1 ELSE 0)
  BY <1>1, <1>2 DEF Page
<1>4. k * z <= IntMax /\ Offset(r) = Wrap(k * z)
  BY DEF Near, Offset
<1> HIDE DEF k, z
<1>5. k * z \in Nat
  BY <1>3
<1>6. k * z \in 0..IntMax
  BY <1>4, <1>5, RankingAssumption
<1>7. Offset(r) = k * z
  BY <1>4, <1>6, WrapInside
<1>8. k * z = IF r.page > 1 THEN (r.page - 1) * z ELSE 0
  BY <1>3
<1> QED BY <1>2, <1>5, <1>7, <1>8 DEF z

\* A page is what stands at the places after those that are skipped.
LEMMA PageIsCut ==
    ASSUME NEW S, NEW s \in Seq(S), NEW o \in Nat, NEW z \in Nat \ {0}
    PROVE  LET page == SubSeq(s, o + 1, Lesser(o + z, Len(s)))
           IN  /\ Len(page) = Cardinality((o + 1)..(o + z) \cap 1..Len(s))
               /\ \A i \in DOMAIN page : o + i \in 1..Len(s) /\ page[i] = s[o + i]
<1> DEFINE n == Len(s)
           last == Lesser(o + z, n)
           page == SubSeq(s, o + 1, last)
<1>1. n \in Nat /\ last \in Nat /\ last <= n
  BY DEF Lesser
<1>2. (o + 1)..(o + z) \cap 1..n = (o + 1)..last
  BY <1>1 DEF Lesser
<1> HIDE DEF last, n
<1>3. Cardinality((o + 1)..last) = IF o + 1 > last THEN 0 ELSE last - (o + 1) + 1
  <2>1. o + 1 \in Int /\ last \in Int
    BY <1>1
  <2> QED BY <2>1, FS_Interval
<1>4. /\ Len(page) = IF o + 1 > last THEN 0 ELSE last - (o + 1) + 1
      /\ DOMAIN page = 1..Len(page)
      /\ \A i \in 1..(last - o) : page[i] = s[o + i]
  BY <1>1 DEF n
<1>5. \A i \in DOMAIN page : o + i \in 1..n /\ page[i] = s[o + i]
  BY <1>1, <1>4
<1> QED BY <1>2, <1>3, <1>4, <1>5 DEF n, last

LEMMA RespondEarned ==
    ASSUME Near, Inv, Respond
    PROVE  PositionsAreEarned'
<1> DEFINE all == Merged(reply, ToSet(collected))
           kept == Deduplicated(all)
           keys == {<<x.route, x.id>> : x \in all}
           OfKey(k) == {x \in all : <<x.route, x.id>> = k}
           size == IF request.pageSize \in 1..MaxPageSize THEN request.pageSize
                   ELSE IF request.pageSize > MaxPageSize THEN MaxPageSize ELSE DefaultPageSize
           skipped == IF request.page > 1 THEN (request.page - 1) * size ELSE 0
<1>1. /\ Running /\ closed /\ ch = << >> /\ UNCHANGED <<request, reply, collected>>
      /\ request \in Request
  BY DEF Respond, Running, Inv, Types
<1> SUFFICES ASSUME answer'.code = "OK"
             PROVE  /\ answer'.total = Cardinality(keys)
                    /\ Len(answer'.results) =
                          Cardinality((skipped + 1)..(skipped + size) \cap 1..answer'.total)
                    /\ \A i \in DOMAIN answer'.results :
                          /\ Cardinality({k \in keys : \E y \in OfKey(k) :
                                             Higher(y, answer'.results[i])}) < skipped + i
                          /\ skipped + i <= Cardinality({k \in keys : \E y \in OfKey(k) :
                                             ~Higher(answer'.results[i], y)})
  BY <1>1 DEF PositionsAreEarned
<1>2. ~Panics(request)
  BY DEF Respond, Refusal
<1>3. PICK s \in Rankings(kept) :
         answer' = Answered(PageOf(s, request), Len(s), reply, ToSet(collected))
  BY <1>2 DEF Respond
<1>4. /\ \A p \in ToSet(collected) : p \in Provider /\ reply[p] \in Outcomes(p)
      /\ collected \in Seq(Provider) /\ Once(collected)
  BY <1>1, AllCollected DEF Eligible, Inv, Types, ArrivalsInv
<1>5. BestOf(kept, all) /\ IsFiniteSet(kept)
  BY <1>4, DeduplicatedIsBest
<1>6. \A x \in all : Scored(x)
  <2>1. \A p \in ToSet(collected) : \A x \in reply[p].results : Scored(x)
    BY <1>4, ResultsOf DEF Scored
  <2> QED BY <2>1 DEF Merged
<1>7. s \in Seq(kept)
  <2>1. Cardinality(kept) \in Nat
    BY <1>5, FS_CardinalityType
  <2>2. s \in [1..Cardinality(kept) -> kept]
    BY <1>3 DEF Rankings, SetToSeqs
  <2> QED BY <2>1, <2>2
<1>8. /\ size = PageSize(request) /\ skipped = Offset(request)
      /\ size \in Nat \ {0} /\ skipped \in Nat
  BY <1>1, OffsetOfNear
<1>9. /\ answer'.total = Len(s)
      /\ answer'.results = SubSeq(s, skipped + 1, Lesser(skipped + size, Len(s)))
  BY <1>3, <1>8 DEF Answered, PageOf
<1> HIDE DEF all, kept, size, skipped
<1>10. /\ Cardinality(keys) = Len(s)
       /\ \A m \in 1..Len(s) :
             /\ Cardinality({k \in keys : \E y \in OfKey(k) : Higher(y, s[m])}) < m
             /\ m <= Cardinality({k \in keys : \E y \in OfKey(k) : ~Higher(s[m], y)})
  BY <1>5, <1>6, PlacesAreEarned
<1>11. /\ Len(answer'.results) = Cardinality((skipped + 1)..(skipped + size) \cap 1..Len(s))
       /\ \A i \in DOMAIN answer'.results :
             skipped + i \in 1..Len(s) /\ answer'.results[i] = s[skipped + i]
  <2>1. size \in Nat \ {0} /\ skipped \in Nat
    BY <1>8
  <2>2. LET page == SubSeq(s, skipped + 1, Lesser(skipped + size, Len(s)))
        IN  /\ Len(page) = Cardinality((skipped + 1)..(skipped + size) \cap 1..Len(s))
            /\ \A i \in DOMAIN page : skipped + i \in 1..Len(s) /\ page[i] = s[skipped + i]
    BY <1>7, <2>1, PageIsCut
  <2> QED BY <1>9, <2>2
<1> QED BY <1>9, <1>10, <1>11

(***************************************************************************)
(* Whatever page is asked for, each result on it stands where its score    *)
(* puts it among everything the providers found, and nothing of the page   *)
(* is missing.                                                             *)
(***************************************************************************)
THEOREM PagesAreEarned ==
    ASSUME Near
    PROVE  Spec => []PositionsAreEarned
<1>1. Init => PositionsAreEarned
  BY DEF Init, PositionsAreEarned, NoAnswer, Refusal
<1>2. Inv /\ PositionsAreEarned /\ [Next]_vars => PositionsAreEarned'
  <2> SUFFICES ASSUME Inv, PositionsAreEarned, [Next]_vars PROVE PositionsAreEarned'
    OBVIOUS
  <2>1. ASSUME answer'.code # "OK" PROVE PositionsAreEarned'
    BY <2>1 DEF PositionsAreEarned
  <2>2. ASSUME UNCHANGED <<request, reply, collected, answer>> PROVE PositionsAreEarned'
    BY <2>2 DEF PositionsAreEarned
  <2>3. NoAnswer.code # "OK" /\ Refusal("BAD_REQUEST").code # "OK"
    BY DEF NoAnswer, Refusal
  <2>4. CASE Ask \/ Finish
    BY <2>1, <2>3, <2>4 DEF Ask, Finish
  <2>5. CASE Receive
    BY <2>1, <2>3, <2>5 DEF Receive, Running
  <2>6. CASE Respond
    BY <2>6, RespondEarned
  <2>7. CASE CloseChannel \/ UNCHANGED vars
    BY <2>2, <2>7 DEF CloseChannel, vars
  <2>8. ASSUME NEW p \in Provider, Invocation(p) PROVE PositionsAreEarned'
    <3>1. PICK o \in Outcomes(p) : Outcome(p, o)
      BY <2>8, InvocationOutcome
    <3>2. Running /\ UNCHANGED answer
      BY <3>1, RunningGoroutine DEF Outcome
    <3> QED BY <2>1, <2>3, <3>2 DEF Running
  <2>9. ASSUME NEW p \in Provider, ProviderTimeout(p) \/ Send(p) \/ Done(p)
        PROVE  PositionsAreEarned'
    BY <2>2, <2>9 DEF ProviderTimeout, Send, Done
  <2>10. ASSUME NEW e \in {"deadline", "cancelled"}, CallerGone(e)
         PROVE  PositionsAreEarned'
    BY <2>2, <2>10 DEF CallerGone
  <2> QED BY <2>4, <2>5, <2>6, <2>7, <2>8, <2>9, <2>10 DEF Next, Provide
<1> QED BY <1>1, <1>2, InvariantHolds, PTL DEF Spec

-----------------------------------------------------------------------------
(***************************************************************************)
(* What is still to happen in a search: for each goroutine its timer, the  *)
(* end of its invocation, its send, its wg.Done() and that its outcome is  *)
(* received; then the close of the channel, and the response.              *)
(***************************************************************************)
Chore == {"timer", "outcome", "send", "done", "receive"}

Awaits(p, chore) ==
    \/ chore = "timer" /\ goroutine[p] = "invoking" /\ ctxErr[p] = "none"
    \/ chore = "outcome" /\ goroutine[p] = "invoking"
    \/ chore = "send" /\ goroutine[p] \in {"invoking", "sending"}
    \/ chore = "done" /\ goroutine[p] \in {"invoking", "sending", "sent"}
    \/ chore = "receive" /\ goroutine[p] # "none" /\ p \notin ToSet(collected)

Ending == {<<"search", "close">>, <<"search", "respond">>}

ToDo ==
    IF ~Running THEN {}
    ELSE {w \in Provider \X Chore : Awaits(w[1], w[2])}
         \cup {w \in Ending : w[2] = "close" => ~closed}

LEMMA ToDoFinite ==
    ASSUME Inv
    PROVE  /\ IsFiniteSet(ToDo) /\ Cardinality(ToDo) <= 5 * Capacity + 2
           /\ ToDo = {} <=> ~Running
<1>1. ~Running => ToDo = {}
  BY DEF ToDo
<1>2. Running => <<"search", "respond">> \in ToDo
  BY DEF ToDo, Ending
<1> DEFINE E == Eligible(request)
           all == (E \X Chore) \cup Ending
<1>3. IsFiniteSet(E) /\ Cardinality(E) \in Nat
  BY EligibleFinite, FS_CardinalityType
<1>4. IsFiniteSet(Chore) /\ Cardinality(Chore) = 5
  <2>1. IsFiniteSet({}) /\ Cardinality({}) = 0
    BY FS_EmptySet
  <2>2. IsFiniteSet({"timer"}) /\ Cardinality({"timer"}) = 1
    BY FS_Singleton
  <2>3. IsFiniteSet({"timer", "outcome"}) /\ Cardinality({"timer", "outcome"}) = 2
    <3>1. {"timer", "outcome"} = {"timer"} \cup {"outcome"}
      OBVIOUS
    <3> QED BY <2>2, <3>1, FS_AddElement
  <2>4. IsFiniteSet({"timer", "outcome", "send"}) /\ Cardinality({"timer", "outcome", "send"}) = 3
    <3>1. {"timer", "outcome", "send"} = {"timer", "outcome"} \cup {"send"}
      OBVIOUS
    <3> QED BY <2>3, <3>1, FS_AddElement
  <2>5. /\ IsFiniteSet({"timer", "outcome", "send", "done"})
        /\ Cardinality({"timer", "outcome", "send", "done"}) = 4
    <3>1. {"timer", "outcome", "send", "done"} = {"timer", "outcome", "send"} \cup {"done"}
      OBVIOUS
    <3> QED BY <2>4, <3>1, FS_AddElement
  <2>6. Chore = {"timer", "outcome", "send", "done"} \cup {"receive"}
    BY DEF Chore
  <2> QED BY <2>5, <2>6, FS_AddElement
<1>5. IsFiniteSet(Ending) /\ Cardinality(Ending) <= 2
  <2>1. IsFiniteSet({<<"search", "close">>}) /\ Cardinality({<<"search", "close">>}) = 1
    BY FS_Singleton
  <2>2. Ending = {<<"search", "close">>} \cup {<<"search", "respond">>}
    BY DEF Ending
  <2> QED BY <2>1, <2>2, FS_AddElement
<1>6. IsFiniteSet(all) /\ Cardinality(all) <= 5 * Cardinality(E) + 2
  <2>1. IsFiniteSet(E \X Chore) /\ Cardinality(E \X Chore) = Cardinality(E) * 5
    BY <1>3, <1>4, FS_Product
  <2> DEFINE rounds == E \X Chore
  <2> HIDE DEF rounds, E
  <2>2. /\ IsFiniteSet(rounds \cup Ending)
        /\ Cardinality(rounds \cup Ending) =
               Cardinality(rounds) + Cardinality(Ending) - Cardinality(rounds \cap Ending)
    BY <1>5, <2>1, FS_Union DEF rounds
  <2>3. Cardinality(rounds \cap Ending) \in Nat /\ Cardinality(Ending) \in Nat
    BY <1>5, FS_Subset, FS_CardinalityType
  <2> QED BY <1>3, <1>5, <2>1, <2>2, <2>3 DEF rounds
<1>7. Running => ToDo \subseteq all
  <2> SUFFICES ASSUME Running, NEW p \in Provider, NEW x \in Chore, Awaits(p, x)
               PROVE  p \in E
    BY DEF ToDo
  <2>1. goroutine[p] # "none"
    BY DEF Awaits
  <2> QED BY <2>1 DEF Inv, GoroutinesInv
<1>8. IsFiniteSet(ToDo) /\ Cardinality(ToDo) <= Cardinality(all) /\ Cardinality(ToDo) \in Nat
  <2>1. ToDo \in SUBSET all
    BY <1>1, <1>7
  <2> HIDE DEF all
  <2> QED BY <1>6, <2>1, FS_Subset, FS_CardinalityType
<1>9. Cardinality(all) \in Nat
  BY <1>6, FS_CardinalityType
<1> HIDE DEF all
<1>10. Cardinality(ToDo) <= 5 * Cardinality(E) + 2
  <2> HIDE DEF E
  <2> QED BY <1>3, <1>6, <1>8, <1>9
<1> QED BY <1>1, <1>2, <1>8, <1>10 DEF Capacity

\* A step that neither starts nor ends a search and leaves each goroutine no
\* more to do leaves no more to do in the search.
LEMMA LessToDo ==
    ASSUME Running, Running',
           \A p \in Provider : \A x \in Chore : Awaits(p, x)' => Awaits(p, x),
           closed => closed',
           \/ \E p \in Provider : \E x \in Chore : Awaits(p, x) /\ ~Awaits(p, x)'
           \/ ~closed /\ closed'
    PROVE  ToDo' \subseteq ToDo /\ ToDo' # ToDo
<1>1. /\ ToDo = {w \in Provider \X Chore : Awaits(w[1], w[2])} \cup {w \in Ending : w[2] = "close" => ~closed}
      /\ ToDo' = {w \in Provider \X Chore : Awaits(w[1], w[2])'} \cup {w \in Ending : w[2] = "close" => ~closed'}
  BY DEF ToDo
<1>2. \A w \in Ending : w[2] \notin Chore
  BY DEF Ending, Chore
<1>3. ToDo' \subseteq ToDo
  BY <1>1
<1>4. ASSUME NEW p \in Provider, NEW x \in Chore, Awaits(p, x), ~Awaits(p, x)'
      PROVE  <<p, x>> \in ToDo /\ <<p, x>> \notin ToDo'
  BY <1>1, <1>2, <1>4
<1>5. ASSUME ~closed, closed'
      PROVE  <<"search", "close">> \in ToDo /\ <<"search", "close">> \notin ToDo'
  BY <1>1, <1>5 DEF Ending, Chore
<1> QED BY <1>3, <1>4, <1>5

(***************************************************************************)
(* The safe part of SearchReturns, first half.  Until it is answered every *)
(* step of a search, whoever takes it and in whatever order, does one of a *)
(* fixed number of things and undoes none: five to a provider and two      *)
(* besides.  Nothing is retried, nothing sent or received twice.           *)
(***************************************************************************)
THEOREM SearchGetsOn ==
    Spec => /\ [](/\ IsFiniteSet(ToDo) /\ Cardinality(ToDo) <= 5 * Capacity + 2
                  /\ ToDo = {} <=> ~Running)
            /\ [][Running => ToDo' \subseteq ToDo /\ ToDo' # ToDo]_vars
<1>1. Inv /\ Inv' /\ [Next]_vars => [Running => ToDo' \subseteq ToDo /\ ToDo' # ToDo]_vars
  <2> SUFFICES ASSUME Inv, Inv', Next, Running
               PROVE  ToDo' \subseteq ToDo /\ ToDo' # ToDo
    OBVIOUS
  <2>0. /\ goroutine \in [Provider -> {"none", "invoking", "sending", "sent", "done"}]
        /\ ctxErr \in [Provider -> {"none", "deadline", "cancelled"}]
        /\ \A p \in Provider : p \in ToSet(collected) => goroutine[p] \in {"sent", "done"}
    BY DEF Inv, Types, ArrivalsInv
  <2>1. ASSUME NEW p \in Provider, ProviderTimeout(p)
        PROVE  ToDo' \subseteq ToDo /\ ToDo' # ToDo
    <3>1. /\ Running' /\ closed' = closed /\ goroutine' = goroutine /\ collected' = collected
          /\ goroutine[p] = "invoking" /\ ctxErr[p] = "none"
          /\ ctxErr' = [ctxErr EXCEPT ![p] = "deadline"]
      BY <2>1 DEF ProviderTimeout, Running
    <3>2. \A q \in Provider : \A x \in Chore : Awaits(q, x)' => Awaits(q, x)
      BY <2>0, <3>1 DEF Awaits
    <3>3. Awaits(p, "timer") /\ ~Awaits(p, "timer")' /\ "timer" \in Chore
      BY <2>0, <3>1 DEF Awaits, Chore
    <3> QED BY <3>1, <3>2, <3>3, LessToDo
  <2>2. ASSUME NEW e \in {"deadline", "cancelled"}, CallerGone(e)
        PROVE  ToDo' \subseteq ToDo /\ ToDo' # ToDo
    <3>1. /\ Running' /\ closed' = closed /\ goroutine' = goroutine /\ collected' = collected
          /\ ctxErr' = [q \in Provider |->
                 IF goroutine[q] = "invoking" /\ ctxErr[q] = "none" THEN e ELSE ctxErr[q]]
      BY <2>2 DEF CallerGone, Running
    <3>2. PICK p \in Provider : goroutine[p] = "invoking" /\ ctxErr[p] = "none"
      BY <2>2 DEF CallerGone
    <3>3. \A q \in Provider : \A x \in Chore : Awaits(q, x)' => Awaits(q, x)
      BY <2>0, <3>1 DEF Awaits
    <3>4. Awaits(p, "timer") /\ ~Awaits(p, "timer")' /\ "timer" \in Chore
      BY <2>0, <3>1, <3>2 DEF Awaits, Chore
    <3> QED BY <3>1, <3>3, <3>4, LessToDo
  <2>3. ASSUME NEW p \in Provider, Provide(p)
        PROVE  ToDo' \subseteq ToDo /\ ToDo' # ToDo
    <3>1. /\ UNCHANGED <<request, ctxErr, collected, closed, answer>>
          /\ goroutine' = [goroutine EXCEPT ![p] = goroutine'[p]]
          /\ \/ goroutine[p] = "invoking" /\ goroutine'[p] = "sending"
             \/ goroutine[p] = "sending" /\ goroutine'[p] = "sent"
             \/ goroutine[p] = "sent" /\ goroutine'[p] = "done"
      <4>1. CASE Invocation(p)
        <5>1. PICK o \in Outcomes(p) : Outcome(p, o)
          BY <4>1, InvocationOutcome
        <5> QED BY <2>0, <5>1 DEF Outcome
      <4>2. CASE Send(p) \/ Done(p)
        BY <2>0, <4>2 DEF Send, Done
      <4> QED BY <2>3, <4>1, <4>2 DEF Provide
    <3>2. Running' /\ closed' = closed
      BY <3>1 DEF Running
    <3>3. \A q \in Provider : \A x \in Chore : Awaits(q, x)' => Awaits(q, x)
      BY <2>0, <3>1 DEF Awaits
    <3>4. \E x \in Chore : Awaits(p, x) /\ ~Awaits(p, x)'
      <4>1. {"outcome", "send", "done"} \subseteq Chore
        BY DEF Chore
      <4>2. CASE goroutine[p] = "invoking"
        <5>1. Awaits(p, "outcome") /\ ~Awaits(p, "outcome")'
          BY <3>1, <4>2 DEF Awaits
        <5> QED BY <4>1, <5>1
      <4>3. CASE goroutine[p] = "sending"
        <5>1. Awaits(p, "send") /\ ~Awaits(p, "send")'
          BY <3>1, <4>3 DEF Awaits
        <5> QED BY <4>1, <5>1
      <4>4. CASE goroutine[p] = "sent"
        <5>1. Awaits(p, "done") /\ ~Awaits(p, "done")'
          BY <3>1, <4>4 DEF Awaits
        <5> QED BY <4>1, <5>1
      <4> QED BY <3>1, <4>2, <4>3, <4>4
    <3> QED BY <3>2, <3>3, <3>4, LessToDo
  <2>4. CASE CloseChannel
    <3>1. Running' /\ ~closed /\ closed' /\ UNCHANGED <<goroutine, ctxErr, collected>>
      BY <2>4 DEF CloseChannel, Running
    <3>2. \A q \in Provider : \A x \in Chore : Awaits(q, x)' => Awaits(q, x)
      BY <3>1 DEF Awaits
    <3> QED BY <3>1, <3>2, LessToDo
  <2>5. CASE Receive
    <3>1. /\ Running' /\ closed' = closed /\ UNCHANGED <<goroutine, ctxErr>>
          /\ collected' = Append(collected, Head(ch)) /\ ch # << >>
          /\ ch \in Seq(Provider) /\ collected \in Seq(Provider)
      BY <2>5 DEF Receive, Running, Inv, Types
    <3>2. PICK p \in Provider : p = Head(ch) /\ p \in ToSet(ch)
      <4>1. 1 \in DOMAIN ch /\ Head(ch) = ch[1]
        BY <3>1
      <4> QED BY <3>1, <4>1 DEF ToSet
    <3>3. goroutine[p] \in {"sent", "done"} /\ p \notin ToSet(collected)
      BY <3>2 DEF Inv, ArrivalsInv
    <3>4. ToSet(collected') = ToSet(collected) \cup {p}
      <4>1. /\ DOMAIN collected' = DOMAIN collected \cup {Len(collected) + 1}
            /\ collected'[Len(collected) + 1] = p
            /\ \A i \in DOMAIN collected : collected'[i] = collected[i]
        BY <3>1, <3>2
      <4> QED BY <4>1 DEF ToSet
    <3>5. \A q \in Provider : \A x \in Chore : Awaits(q, x)' => Awaits(q, x)
      BY <3>1, <3>4 DEF Awaits
    <3>6. Awaits(p, "receive") /\ ~Awaits(p, "receive")' /\ "receive" \in Chore
      BY <3>3, <3>4 DEF Awaits, Chore
    <3> QED BY <3>1, <3>2, <3>5, <3>6, LessToDo
  <2>6. CASE Respond
    <3>1. ~Running'
      <4>1. answer'.code \in {"OK", "INTERNAL_ERROR"}
        BY <2>6 DEF Respond, Refusal, Answered
      <4>2. NoAnswer.code = "none"
        BY DEF NoAnswer, Refusal
      <4>3. answer' # NoAnswer
        BY <4>1, <4>2
      <4> QED BY <4>3 DEF Running
    <3>2. ToDo' = {}
      BY <3>1 DEF ToDo
    <3>3. ToDo # {}
      BY ToDoFinite
    <3> QED BY <3>2, <3>3
  <2>7. ~Ask /\ ~Finish
    BY DEF Ask, Finish, Running
  <2> QED BY <2>1, <2>2, <2>3, <2>4, <2>5, <2>6, <2>7 DEF Next
<1>2. Inv => /\ IsFiniteSet(ToDo) /\ Cardinality(ToDo) <= 5 * Capacity + 2
             /\ ToDo = {} <=> ~Running
  BY ToDoFinite
<1> QED BY <1>1, <1>2, InvariantHolds, PTL DEF Spec

(***************************************************************************)
(* The safe part of SearchReturns, second half.  Until a search is         *)
(* answered somebody can go on: a backend is waited for, under a context   *)
(* that ends; or a goroutine finds room in an open channel; or one is      *)
(* still to report to the wait group; or the closer, the collector or the  *)
(* response have what they wait for, and then what was collected has an    *)
(* order to be sorted in.  It is never the case that everyone waits for    *)
(* someone else.                                                           *)
(***************************************************************************)
THEOREM SearchNeverStuck ==
    Spec => [](Running =>
        \/ \E p \in Provider : goroutine[p] = "invoking"
        \/ \E p \in Provider : goroutine[p] = "sending" /\ ~closed /\ Len(ch) < Capacity
        \/ \E p \in Provider : goroutine[p] = "sent"
        \/ ~closed /\ \A p \in Eligible(request) : goroutine[p] = "done"
        \/ ch # << >>
        \/ closed /\ ch = << >> /\ Rankings(Deduplicated(Merged(reply, ToSet(collected)))) # {})
<1>1. Inv => Rankings(Deduplicated(Merged(reply, ToSet(collected)))) # {}
  <2> SUFFICES ASSUME Inv
               PROVE  Rankings(Deduplicated(Merged(reply, ToSet(collected)))) # {}
    OBVIOUS
  <2>1. collected \in Seq(Provider) /\ Once(collected)
    BY DEF Inv, Types, ArrivalsInv
  <2>2. \A p \in ToSet(collected) : reply[p] \in Outcomes(p)
    <3>1. \A p \in ToSet(collected) : p \in Provider /\ goroutine[p] \in {"sent", "done"}
      BY DEF Inv, ArrivalsInv
    <3> QED BY <3>1 DEF Inv, RepliesInv, Over
  <2> DEFINE kept == Deduplicated(Merged(reply, ToSet(collected)))
  <2>3. IsFiniteSet(kept) /\ AllScored(kept)
    BY <2>1, <2>2, DeduplicatedIsBest
  <2> HIDE DEF kept
  <2>4. Rankings(kept) # {}
    BY <2>3, RankingExists
  <2> QED BY <2>4 DEF kept
<1> DEFINE kept == Deduplicated(Merged(reply, ToSet(collected)))
<1> HIDE DEF kept
<1>2. Inv /\ SendersNeverBlock /\ Running /\ Rankings(kept) # {} =>
        \/ \E p \in Provider : goroutine[p] = "invoking"
        \/ \E p \in Provider : goroutine[p] = "sending" /\ ~closed /\ Len(ch) < Capacity
        \/ \E p \in Provider : goroutine[p] = "sent"
        \/ ~closed /\ \A p \in Eligible(request) : goroutine[p] = "done"
        \/ ch # << >>
        \/ closed /\ ch = << >> /\ Rankings(kept) # {}
  BY DEF Inv, Types, GoroutinesInv, SendersNeverBlock, Eligible
<1>3. Inv /\ SendersNeverBlock =>
        (Running =>
          \/ \E p \in Provider : goroutine[p] = "invoking"
          \/ \E p \in Provider : goroutine[p] = "sending" /\ ~closed /\ Len(ch) < Capacity
          \/ \E p \in Provider : goroutine[p] = "sent"
          \/ ~closed /\ \A p \in Eligible(request) : goroutine[p] = "done"
          \/ ch # << >>
          \/ closed /\ ch = << >> /\ Rankings(Deduplicated(Merged(reply, ToSet(collected)))) # {})
  BY <1>1, <1>2 DEF kept
<1> QED BY <1>3, InvariantHolds, NoSenderBlocks, PTL
=============================================================================
