--------------------------- MODULE VariableProofs ---------------------------
(***************************************************************************)
(* Theorems about the variables of a dashboard.  First, for every list of  *)
(* variables, what buildDependencyGraph computes from it, and with that    *)
(* what the settings page of VariableSettings sends and derives.  Then, for*)
(* every set of boards that satisfies BoardAssumption, how VariableFetch   *)
(* fetches their options.                                                  *)
(***************************************************************************)
EXTENDS VariableFetch, VariableSettings,
        FiniteSetTheorems, SequenceTheorems, WellFoundedInduction, TLAPS

------------------------------------------------------------------------------
(* Positions and picked elements.                                            *)

\* A set of numbers that is not empty has a least one.
LEMMA LeastOf ==
    ASSUME NEW M \in SUBSET Nat, M # {}
    PROVE  \E m \in M : \A k \in M : m <= k
<1> DEFINE R == OpToRel(<, Nat)
<1>1. IsWellFoundedOn(R, Nat)
  BY NatLessThanWellFounded
<1>2. \A x, y \in Nat : y < x => <<y, x>> \in R
  BY DEF OpToRel
<1> HIDE DEF R
<1>3. PICK m \in M : \A k \in M : ~(<<k, m>> \in R)
  BY <1>1, WFMin
<1>4. \A k \in M : ~(k < m)
  BY <1>2, <1>3
<1>5. QED
  BY <1>4

\* A bounded one has a greatest one.
LEMMA GreatestOf ==
    ASSUME NEW n \in Nat, NEW M \in SUBSET (1..n), M # {}
    PROVE  \E m \in M : \A k \in M : k <= m
<1>1. PICK b \in {i \in Nat : \A k \in M : k <= i} : \A i \in {j \in Nat : \A k \in M : k <= j} : b <= i
  <2>1. n \in {i \in Nat : \A k \in M : k <= i}
    OBVIOUS
  <2>2. QED
    BY <2>1, LeastOf
<1>2. b \in M
  <2> SUFFICES ASSUME b \notin M PROVE FALSE
    OBVIOUS
  <2>1. \A k \in M : k \in Nat /\ k >= 1 /\ k <= b - 1
    BY <1>1
  <2>2. b - 1 \in Nat
    <3>1. PICK k : k \in M
      OBVIOUS
    <3>2. QED
      BY <1>1, <2>1, <3>1
  <2>3. QED
    BY <1>1, <2>1, <2>2
<1>3. QED
  BY <1>1, <1>2

\* Positions of a list can be counted.
LEMMA Countable ==
    ASSUME NEW n \in Nat, NEW I \in SUBSET (1..n)
    PROVE  IsFiniteSet(I) /\ Cardinality(I) \in Nat
<1>1. IsFiniteSet(1..n)
  BY FS_Interval
<1>2. QED
  BY <1>1, FS_Subset, FS_CardinalityType

\* Nth numbers the positions of a set in their order.
LEMMA NthFacts ==
    ASSUME NEW n \in Nat, NEW I \in SUBSET (1..n)
    PROVE  /\ Cardinality(I) \in Nat
           /\ \A k \in 1..Cardinality(I) : Nth(I, k) \in I
           /\ \A i \in I : \E k \in 1..Cardinality(I) : Nth(I, k) = i
           /\ \A k, l \in 1..Cardinality(I) : k < l => Nth(I, k) < Nth(I, l)
<1> DEFINE Upto(i) == {j \in I : j <= i}
           rank == [i \in I |-> Cardinality(Upto(i))]
           N == Cardinality(I)
<1>1. IsFiniteSet(I) /\ N \in Nat
  BY Countable
<1>2. \A i \in I : /\ IsFiniteSet(Upto(i)) /\ Cardinality(Upto(i)) \in Nat
                   /\ Cardinality(Upto(i)) <= N /\ Cardinality(Upto(i)) # 0
  <2> SUFFICES ASSUME NEW i \in I
               PROVE  /\ IsFiniteSet(Upto(i)) /\ Cardinality(Upto(i)) \in Nat
                      /\ Cardinality(Upto(i)) <= N /\ Cardinality(Upto(i)) # 0
    OBVIOUS
  <2>1. Upto(i) \in SUBSET I /\ i \in Upto(i)
    OBVIOUS
  <2>2. IsFiniteSet(Upto(i)) /\ Cardinality(Upto(i)) <= N
    BY <1>1, <2>1, FS_Subset
  <2>3. Cardinality(Upto(i)) \in Nat /\ Cardinality(Upto(i)) # 0
    BY <2>1, <2>2, FS_CardinalityType, FS_EmptySet
  <2>4. QED
    BY <2>2, <2>3
<1>3. \A i, j \in I : i < j => Cardinality(Upto(i)) < Cardinality(Upto(j))
  <2> SUFFICES ASSUME NEW i \in I, NEW j \in I, i < j
               PROVE  Cardinality(Upto(i)) < Cardinality(Upto(j))
    OBVIOUS
  <2>0. i \in Nat /\ j \in Nat /\ \A k \in I : k \in Nat
    OBVIOUS
  <2>1. Upto(i) \in SUBSET Upto(j) /\ j \in Upto(j) /\ j \notin Upto(i)
    <3>1. \A k \in I : k <= i => k <= j
      BY <2>0
    <3>2. j <= j /\ ~(j <= i)
      BY <2>0
    <3>3. QED
      BY <3>1, <3>2
  <2>2. Cardinality(Upto(i)) <= Cardinality(Upto(j)) /\ Cardinality(Upto(i)) # Cardinality(Upto(j))
    BY <1>2, <2>1, FS_Subset
  <2>3. QED
    BY <1>2, <2>2
<1>4. \A i, j \in I : Cardinality(Upto(i)) = Cardinality(Upto(j)) => i = j
  BY <1>2, <1>3
<1>5. \A i \in I : Cardinality(Upto(i)) \in 1..N
  BY <1>1, <1>2
<1> HIDE DEF N, Upto
<1>6. rank \in Injection(I, 1..N)
  BY <1>4, <1>5 DEF Injection, IsInjective
<1>7. IsFiniteSet(1..N) /\ Cardinality(1..N) = N
  BY <1>1, FS_Interval
<1>8. rank \in Surjection(I, 1..N)
  BY <1>1, <1>6, <1>7, FS_Injection DEF N
<1>9. \A k \in 1..N : \E i \in I : Cardinality(Upto(i)) = k
  BY <1>8 DEF Surjection
<1>10. \A k \in 1..N : Nth(I, k) \in I /\ Cardinality(Upto(Nth(I, k))) = k
  BY <1>9 DEF Nth, Upto
<1>11. \A i \in I : Nth(I, Cardinality(Upto(i))) = i
  BY <1>4, <1>5, <1>10
<1>12. \A k, l \in 1..N : k < l => Nth(I, k) < Nth(I, l)
  <2> SUFFICES ASSUME NEW k \in 1..N, NEW l \in 1..N, k < l, ~(Nth(I, k) < Nth(I, l))
               PROVE  FALSE
    OBVIOUS
  <2>1. Nth(I, k) \in I /\ Nth(I, l) \in I /\ Nth(I, k) \in Nat /\ Nth(I, l) \in Nat
    <3>1. \A i \in I : i \in Nat
      OBVIOUS
    <3>2. Nth(I, k) \in I /\ Nth(I, l) \in I
      BY <1>10
    <3>3. QED
      BY <3>1, <3>2
  <2>2. Nth(I, l) < Nth(I, k)
    <3>1. Nth(I, l) # Nth(I, k)
      BY <1>1, <1>10
    <3>2. QED
      BY <2>1, <3>1
  <2>3. Cardinality(Upto(Nth(I, l))) < Cardinality(Upto(Nth(I, k)))
    BY <1>3, <2>1, <2>2
  <2>4. l < k
    BY <1>10, <2>3
  <2>5. QED
    BY <1>1, <2>4
<1>13. QED
  BY <1>1, <1>5, <1>10, <1>11, <1>12 DEF N

\* PickAt keeps the elements at the positions given, and their order.
LEMMA PickFacts ==
    ASSUME NEW S, NEW s \in Seq(S), NEW I \in SUBSET (DOMAIN s)
    PROVE  /\ PickAt(s, I) \in Seq(S)
           /\ Cardinality(I) \in Nat
           /\ Len(PickAt(s, I)) = Cardinality(I)
           /\ DOMAIN PickAt(s, I) = 1..Cardinality(I)
           /\ ToSet(PickAt(s, I)) = {s[i] : i \in I}
           /\ \A k, l \in 1..Cardinality(I) : k < l =>
                 \E i, j \in I : i < j /\ PickAt(s, I)[k] = s[i] /\ PickAt(s, I)[l] = s[j]
<1>1. Len(s) \in Nat /\ DOMAIN s = 1..Len(s) /\ \A i \in DOMAIN s : s[i] \in S
  OBVIOUS
<1>2. /\ Cardinality(I) \in Nat
      /\ \A k \in 1..Cardinality(I) : Nth(I, k) \in I
      /\ \A i \in I : \E k \in 1..Cardinality(I) : Nth(I, k) = i
      /\ \A k, l \in 1..Cardinality(I) : k < l => Nth(I, k) < Nth(I, l)
  BY <1>1, NthFacts
<1>3. /\ DOMAIN PickAt(s, I) = 1..Cardinality(I)
      /\ \A k \in 1..Cardinality(I) : PickAt(s, I)[k] = s[Nth(I, k)] /\ PickAt(s, I)[k] \in S
  BY <1>1, <1>2 DEF PickAt
<1>4. PickAt(s, I) \in Seq(S) /\ Len(PickAt(s, I)) = Cardinality(I)
  <2>1. PickAt(s, I) \in [1..Cardinality(I) -> S]
    BY <1>1, <1>2 DEF PickAt
  <2>2. PickAt(s, I) \in Seq(S)
    BY <1>2, <2>1
  <2>3. QED
    BY <1>2, <1>3, <2>2
<1>5. ToSet(PickAt(s, I)) = {s[i] : i \in I}
  <2>1. ToSet(PickAt(s, I)) = {PickAt(s, I)[k] : k \in 1..Cardinality(I)}
    BY <1>3 DEF ToSet
  <2>2. \A k \in 1..Cardinality(I) : PickAt(s, I)[k] \in {s[i] : i \in I}
    BY <1>2, <1>3
  <2>3. \A i \in I : s[i] \in {PickAt(s, I)[k] : k \in 1..Cardinality(I)}
    BY <1>2, <1>3
  <2>4. QED
    BY <2>1, <2>2, <2>3
<1>6. QED
  BY <1>2, <1>3, <1>4, <1>5

\* A sequence over a set has its elements in it.
LEMMA OwnElements ==
    ASSUME NEW S, NEW s \in Seq(S)
    PROVE  s \in Seq(ToSet(s)) /\ ToSet(s) \subseteq S
<1>1. PICK n \in Nat : n = Len(s) /\ DOMAIN s = 1..n /\ s = [i \in 1..n |-> s[i]]
  OBVIOUS
<1>2. \A i \in 1..n : s[i] \in ToSet(s) /\ s[i] \in S
  BY <1>1 DEF ToSet
<1>3. s \in [1..n -> ToSet(s)]
  BY <1>1, <1>2
<1>4. s \in Seq(ToSet(s))
  BY <1>3
<1>5. ToSet(s) \subseteq S
  BY <1>1, <1>2 DEF ToSet
<1>6. QED
  BY <1>4, <1>5

NoRepeats(s) == \A i, j \in DOMAIN s : s[i] = s[j] => i = j

\* Picked positions with different elements.
LEMMA PickedOnce ==
    ASSUME NEW S, NEW s \in Seq(S), NEW I \in SUBSET (DOMAIN s),
           \A i, j \in I : i < j => s[i] # s[j]
    PROVE  NoRepeats(PickAt(s, I))
<1>1. \A k, l \in 1..Cardinality(I) : k < l =>
         \E i, j \in I : i < j /\ PickAt(s, I)[k] = s[i] /\ PickAt(s, I)[l] = s[j]
  BY PickFacts
<1>2. \A k, l \in 1..Cardinality(I) : k < l => PickAt(s, I)[k] # PickAt(s, I)[l]
  BY <1>1
<1>3. DOMAIN PickAt(s, I) = 1..Cardinality(I) /\ Cardinality(I) \in Nat
  BY PickFacts
<1>4. QED
  BY <1>2, <1>3 DEF NoRepeats

\* Unique keeps every element, once.
LEMMA UniqueFacts ==
    ASSUME NEW S, NEW s \in Seq(S)
    PROVE  Unique(s) \in Seq(S) /\ ToSet(Unique(s)) = ToSet(s) /\ NoRepeats(Unique(s))
<1>0. Len(s) \in Nat /\ DOMAIN s = 1..Len(s)
  OBVIOUS
<1>1. PICK I : I = {i \in DOMAIN s : \A j \in 1..(i - 1) : s[j] # s[i]}
  OBVIOUS
<1>2. I \in SUBSET (DOMAIN s) /\ Unique(s) = PickAt(s, I)
  BY <1>1 DEF Unique
<1>3. \A i, j \in I : i < j => s[i] # s[j]
  BY <1>0, <1>1
<1>4. \A k \in DOMAIN s : \E i \in I : s[i] = s[k]
  <2> SUFFICES ASSUME NEW k \in DOMAIN s PROVE \E i \in I : s[i] = s[k]
    OBVIOUS
  <2> DEFINE M == {i \in DOMAIN s : s[i] = s[k]}
  <2>1. M \in SUBSET Nat /\ M # {}
    BY <1>0
  <2>2. PICK m \in M : \A i \in M : m <= i
    BY <2>1, LeastOf
  <2>3. \A j \in 1..(m - 1) : j \in DOMAIN s /\ ~(m <= j)
    BY <1>0, <2>2
  <2>4. m \in I
    BY <1>1, <2>2, <2>3
  <2>5. QED
    BY <2>2, <2>4
<1>5. NoRepeats(PickAt(s, I))
  BY <1>2, <1>3, PickedOnce
<1>6. PickAt(s, I) \in Seq(S) /\ ToSet(PickAt(s, I)) = {s[i] : i \in I}
  BY <1>2, PickFacts
<1>7. {s[i] : i \in I} = ToSet(s)
  <2>1. \A i \in I : s[i] \in ToSet(s)
    BY <1>2 DEF ToSet
  <2>2. \A x \in ToSet(s) : x \in {s[i] : i \in I}
    BY <1>4 DEF ToSet
  <2>3. QED
    BY <2>1, <2>2
<1>8. QED
  BY <1>2, <1>5, <1>6, <1>7

------------------------------------------------------------------------------
(* The graph of a list of variables.                                         *)

\* A list has finitely many names, and each of its elements is a variable.
LEMMA ListFacts ==
    ASSUME NEW list \in Seq(Variables)
    PROVE  /\ Len(list) \in Nat /\ DOMAIN list = 1..Len(list)
           /\ \A i \in DOMAIN list : list[i] \in Variables /\ list[i].name \in NamesIn(list)
           /\ IsFiniteSet(NamesIn(list)) /\ Cardinality(NamesIn(list)) \in Nat
<1>1. Len(list) \in Nat /\ DOMAIN list = 1..Len(list)
  OBVIOUS
<1>2. \A i \in DOMAIN list : list[i] \in Variables /\ list[i].name \in NamesIn(list)
  BY DEF NamesIn
<1>3. [i \in 1..Len(list) |-> list[i].name] \in Surjection(1..Len(list), NamesIn(list))
  BY <1>1 DEF Surjection, NamesIn
<1>4. IsFiniteSet(1..Len(list))
  BY <1>1, FS_Interval
<1>5. IsFiniteSet(NamesIn(list))
  BY <1>3, <1>4, FS_Surjection
<1>6. QED
  BY <1>1, <1>2, <1>5, FS_CardinalityType

\* The names of picked variables.
LEMMA NamesAt ==
    ASSUME NEW list \in Seq(Variables), NEW I \in SUBSET (DOMAIN list),
           NEW names, names = [k \in DOMAIN PickAt(list, I) |-> PickAt(list, I)[k].name]
    PROVE  /\ names \in Seq(NamesIn(list))
           /\ Len(names) = Cardinality(I) /\ Cardinality(I) \in Nat /\ Cardinality(I) <= Len(list)
           /\ ToSet(names) = {list[i].name : i \in I}
<1>1. /\ Len(list) \in Nat /\ DOMAIN list = 1..Len(list)
      /\ \A i \in DOMAIN list : list[i].name \in NamesIn(list)
  BY ListFacts
<1>0. PICK found : found = PickAt(list, I)
  OBVIOUS
<1>2. /\ Cardinality(I) \in Nat
      /\ DOMAIN found = 1..Cardinality(I)
      /\ ToSet(found) = {list[i] : i \in I}
      /\ \A k, l \in 1..Cardinality(I) : k < l =>
            \E i, j \in I : i < j /\ found[k] = list[i] /\ found[l] = list[j]
  <2>1. /\ Cardinality(I) \in Nat
        /\ DOMAIN PickAt(list, I) = 1..Cardinality(I)
        /\ ToSet(PickAt(list, I)) = {list[i] : i \in I}
    BY PickFacts
  <2>2. \A k, l \in 1..Cardinality(I) : k < l =>
            \E i, j \in I : i < j /\ PickAt(list, I)[k] = list[i] /\ PickAt(list, I)[l] = list[j]
    BY PickFacts
  <2>3. QED
    BY <1>0, <2>1, <2>2
<1>3. names = [k \in 1..Cardinality(I) |-> found[k].name]
  BY <1>0, <1>2
<1>4. \A k \in 1..Cardinality(I) : \E i \in I : found[k] = list[i]
  BY <1>2 DEF ToSet
<1>5. \A i \in I : \E k \in 1..Cardinality(I) : found[k] = list[i]
  <2>1. \A i \in I : list[i] \in {found[k] : k \in 1..Cardinality(I)}
    BY <1>2 DEF ToSet
  <2>2. QED
    BY <2>1
<1>6. names \in [1..Cardinality(I) -> NamesIn(list)]
  BY <1>1, <1>3, <1>4
<1>7. names \in Seq(NamesIn(list)) /\ Len(names) = Cardinality(I) /\ DOMAIN names = 1..Cardinality(I)
  BY <1>2, <1>6
<1>8. ToSet(names) = {list[i].name : i \in I}
  <2>1. ToSet(names) = {names[k] : k \in 1..Cardinality(I)}
    BY <1>7 DEF ToSet
  <2>2. \A k \in 1..Cardinality(I) : names[k] \in {list[i].name : i \in I}
    BY <1>3, <1>4
  <2>3. \A i \in I : list[i].name \in {names[k] : k \in 1..Cardinality(I)}
    BY <1>3, <1>5
  <2>4. QED
    BY <2>1, <2>2, <2>3
<1>9. Cardinality(I) <= Len(list)
  <2>1. IsFiniteSet(1..Len(list)) /\ Cardinality(1..Len(list)) = Len(list)
    BY <1>1, FS_Interval
  <2>2. QED
    BY <1>1, <2>1, FS_Subset
<1>10. QED
  BY <1>2, <1>7, <1>8, <1>9

\* The dependents of a name are the variables that mention it.
LEMMA GraphFacts ==
    ASSUME NEW list \in Seq(Variables)
    PROVE  LET S == NamesIn(list)
               g == buildDependencies(list)
           IN  /\ g \in [S -> Seq(S)]
               /\ \A p \in S : Len(g[p]) <= Len(list)
               /\ \A p, n \in S : n \in ToSet(g[p]) <=> Mentions(list, p, n)
<1> DEFINE S == NamesIn(list)
           g == buildDependencies(list)
           At(p) == {i \in DOMAIN list : list[i].type = "QUERY" /\ p \in list[i].refs}
<1>1. \A p \in S : g[p] = [k \in DOMAIN PickAt(list, At(p)) |-> PickAt(list, At(p))[k].name]
  BY DEF buildDependencies, DependentsOf
<1>2. \A p \in S : At(p) \in SUBSET (DOMAIN list)
  OBVIOUS
<1>3. \A p \in S : /\ g[p] \in Seq(S) /\ Len(g[p]) <= Len(list)
                   /\ ToSet(g[p]) = {list[i].name : i \in At(p)}
  <2> SUFFICES ASSUME NEW p \in S
               PROVE  /\ g[p] \in Seq(S) /\ Len(g[p]) <= Len(list)
                      /\ ToSet(g[p]) = {list[i].name : i \in At(p)}
    OBVIOUS
  <2>1. PICK I \in SUBSET (DOMAIN list) : I = At(p)
    OBVIOUS
  <2>2. g[p] = [k \in DOMAIN PickAt(list, I) |-> PickAt(list, I)[k].name]
    BY <1>1, <2>1
  <2>3. /\ g[p] \in Seq(S) /\ Len(g[p]) = Cardinality(I) /\ Cardinality(I) <= Len(list)
        /\ ToSet(g[p]) = {list[i].name : i \in I}
    BY <2>2, NamesAt
  <2>4. QED
    BY <2>1, <2>3
<1>4. \A p \in S : At(p) = {i \in DOMAIN list : p \in list[i].refs}
  BY ListFacts DEF Variables
<1>5. \A p, n \in S : n \in ToSet(g[p]) <=> Mentions(list, p, n)
  <2> SUFFICES ASSUME NEW p \in S, NEW n \in S
               PROVE  n \in ToSet(g[p]) <=> Mentions(list, p, n)
    OBVIOUS
  <2>1. ToSet(g[p]) = {list[i].name : i \in {j \in DOMAIN list : p \in list[j].refs}}
    BY <1>3, <1>4
  <2>2. n \in ToSet(g[p]) <=> \E i \in DOMAIN list : p \in list[i].refs /\ n = list[i].name
    BY <2>1
  <2>3. QED
    BY <2>2 DEF Mentions
<1>6. g \in [S -> Seq(S)]
  BY <1>3 DEF buildDependencies
<1>7. QED
  BY <1>3, <1>5, <1>6

\* The keys of the graph are the names, each once.
LEMMA KeysFacts ==
    ASSUME NEW list \in Seq(Variables)
    PROVE  /\ Keys(list) \in Seq(NamesIn(list))
           /\ ToSet(Keys(list)) = NamesIn(list)
           /\ NoRepeats(Keys(list))
<1>1. PICK names : names = [i \in DOMAIN list |-> list[i].name]
  OBVIOUS
<1>2. PICK n \in Nat : n = Len(list) /\ DOMAIN list = 1..n
  BY ListFacts
<1>3. \A i \in 1..n : list[i].name \in NamesIn(list)
  BY <1>2, ListFacts
<1>4. names \in [1..n -> NamesIn(list)]
  BY <1>1, <1>2, <1>3
<1>5. names \in Seq(NamesIn(list)) /\ DOMAIN names = 1..n
  BY <1>4
<1>6. ToSet(names) = NamesIn(list)
  BY <1>1, <1>2, <1>5 DEF ToSet, NamesIn
<1>7. Keys(list) = Unique(names)
  BY <1>1 DEF Keys
<1>8. QED
  BY <1>5, <1>6, <1>7, UniqueFacts

------------------------------------------------------------------------------
(* One round of the loop, on any finite graph g over S.                      *)

IsGraph(g, S) ==
    /\ IsFiniteSet(S)
    /\ g \in [S -> Seq(S)]
    /\ \E bound \in Nat : \A p \in S : Len(g[p]) <= bound

Hits(s, n) == {j \in DOMAIN s : s[j] = n}

\* The entries of n in the lists of the nodes that are not in O.
EdgesInto(g, O, n) == {e \in (DOMAIN g \ O) \X Nat : e[2] \in Hits(g[e[1]], n)}

\* A name is hit as often as a list of dependents has it.
LEMMA HitsFacts ==
    ASSUME NEW S, NEW s \in Seq(S), NEW n
    PROVE  /\ Hits(s, n) \in SUBSET (1..Len(s))
           /\ IsFiniteSet(Hits(s, n)) /\ Cardinality(Hits(s, n)) \in Nat
           /\ Cardinality(Hits(s, n)) = 0 <=> n \notin ToSet(s)
<1>1. Len(s) \in Nat /\ Hits(s, n) \in SUBSET (1..Len(s))
  BY DEF Hits
<1>2. IsFiniteSet(Hits(s, n)) /\ Cardinality(Hits(s, n)) \in Nat
  BY <1>1, Countable
<1>3. Hits(s, n) = {} <=> n \notin ToSet(s)
  BY DEF Hits, ToSet
<1>4. QED
  BY <1>1, <1>2, <1>3, FS_EmptySet

\* Finitely many edges go into a name.
LEMMA EdgesFinite ==
    ASSUME NEW S, NEW g, IsGraph(g, S), NEW O, NEW n
    PROVE  IsFiniteSet(EdgesInto(g, O, n)) /\ Cardinality(EdgesInto(g, O, n)) \in Nat
<1>1. PICK bound \in Nat : \A p \in S : Len(g[p]) <= bound
  BY DEF IsGraph
<1>2. IsFiniteSet(1..bound) /\ IsFiniteSet(S)
  BY FS_Interval DEF IsGraph
<1>3. IsFiniteSet(S \X (1..bound))
  BY <1>2, FS_Product
<1>4. \A p \in S : g[p] \in Seq(S) /\ Len(g[p]) \in Nat /\ Hits(g[p], n) \in SUBSET (1..bound)
  <2>1. \A p \in S : g[p] \in Seq(S) /\ Len(g[p]) \in Nat /\ Hits(g[p], n) \in SUBSET (1..Len(g[p]))
    BY DEF IsGraph, Hits
  <2>2. QED
    BY <1>1, <2>1
<1>5. EdgesInto(g, O, n) \in SUBSET (S \X (1..bound))
  BY <1>4 DEF EdgesInto, IsGraph
<1>6. QED
  BY <1>3, <1>5, FS_Subset, FS_CardinalityType

\* No entry is left exactly when no node outside O lists n.
LEMMA EdgesNone ==
    ASSUME NEW S, NEW g, IsGraph(g, S), NEW O, NEW n
    PROVE  Cardinality(EdgesInto(g, O, n)) = 0 <=> \A p \in S \ O : n \notin ToSet(g[p])
<1>1. EdgesInto(g, O, n) = {} <=> \A p \in S \ O : n \notin ToSet(g[p])
  <2>1. \A p \in S : g[p] \in Seq(S) /\ DOMAIN g[p] \in SUBSET Nat
    BY DEF IsGraph
  <2>2. ASSUME NEW p \in S \ O, n \in ToSet(g[p]) PROVE EdgesInto(g, O, n) # {}
    <3>1. PICK i \in DOMAIN g[p] : g[p][i] = n
      BY <2>2 DEF ToSet
    <3>2. <<p, i>> \in EdgesInto(g, O, n)
      BY <2>1, <3>1 DEF EdgesInto, Hits, IsGraph
    <3>3. QED
      BY <3>2
  <2>3. ASSUME NEW e \in EdgesInto(g, O, n) PROVE \E p \in S \ O : n \in ToSet(g[p])
    BY DEF EdgesInto, Hits, ToSet, IsGraph
  <2>4. QED
    BY <2>2, <2>3
<1>2. QED
  BY <1>1, EdgesFinite, FS_EmptySet

\* Taking c away takes its hits away.
LEMMA EdgesSplit ==
    ASSUME NEW S, NEW g, IsGraph(g, S), NEW O, NEW n, NEW c \in S \ O
    PROVE  Cardinality(EdgesInto(g, O, n)) =
              Cardinality(EdgesInto(g, O \cup {c}, n)) + Cardinality(Hits(g[c], n))
<1> DEFINE A == EdgesInto(g, O \cup {c}, n)
           B == {c} \X Hits(g[c], n)
<1>1. g[c] \in Seq(S) /\ DOMAIN g = S
  BY DEF IsGraph
<1>2. /\ IsFiniteSet(Hits(g[c], n)) /\ Cardinality(Hits(g[c], n)) \in Nat
      /\ Hits(g[c], n) \in SUBSET Nat
  BY <1>1, HitsFacts
<1>3. IsFiniteSet({c}) /\ Cardinality({c}) = 1
  BY FS_Singleton
<1>4. IsFiniteSet(B) /\ Cardinality(B) = Cardinality(Hits(g[c], n))
  BY <1>2, <1>3, FS_Product
<1>5. IsFiniteSet(A) /\ Cardinality(A) \in Nat
  BY EdgesFinite
<1>6. EdgesInto(g, O, n) = A \cup B
  BY <1>1, <1>2 DEF EdgesInto
<1>7. A \cap B = {}
  BY DEF EdgesInto
<1> HIDE DEF A, B
<1>8. Cardinality(A \cup B) = Cardinality(A) + Cardinality(B) - Cardinality(A \cap B)
  BY <1>4, <1>5, FS_Union
<1>9. Cardinality(A \cap B) = 0
  BY <1>7, FS_EmptySet
<1>10. QED
  BY <1>2, <1>4, <1>5, <1>6, <1>8, <1>9 DEF A

\* The occurrences that take the last of an in-degree: one for each node of the
\* list whose in-degree is used up, its last occurrence.
Freed(s, d) == {i \in DOMAIN s : d[s[i]] = Cardinality({j \in 1..i : s[j] = s[i]})}

\* In a round, the neighbors whose in-degree comes down to zero are enqueued once each.
LEMMA FreedFacts ==
    ASSUME NEW S, NEW s \in Seq(S), NEW d \in [S -> Nat],
           \A n \in S : Cardinality(Hits(s, n)) <= d[n]
    PROVE  /\ \A i \in Freed(s, d) : d[s[i]] = Cardinality(Hits(s, s[i]))
           /\ \A n \in ToSet(s) : d[n] = Cardinality(Hits(s, n)) => \E i \in Freed(s, d) : s[i] = n
           /\ \A i, j \in Freed(s, d) : s[i] = s[j] => i = j
<1> DEFINE Upto(i) == {j \in 1..i : s[j] = s[i]}
<1>0. Len(s) \in Nat /\ DOMAIN s = 1..Len(s) /\ \A i \in DOMAIN s : s[i] \in S /\ i \in Nat
  OBVIOUS
<1>1. \A n \in S : IsFiniteSet(Hits(s, n)) /\ Cardinality(Hits(s, n)) \in Nat
  BY HitsFacts
<1>2. \A i \in DOMAIN s : Upto(i) \in SUBSET Hits(s, s[i])
  BY <1>0 DEF Hits
<1>3. \A i \in Freed(s, d) : Upto(i) = Hits(s, s[i]) /\ d[s[i]] = Cardinality(Hits(s, s[i]))
  <2> SUFFICES ASSUME NEW i \in Freed(s, d)
               PROVE  Upto(i) = Hits(s, s[i]) /\ d[s[i]] = Cardinality(Hits(s, s[i]))
    OBVIOUS
  <2>1. i \in DOMAIN s /\ s[i] \in S /\ d[s[i]] = Cardinality(Upto(i))
    BY <1>0 DEF Freed
  <2>2. Upto(i) \in SUBSET Hits(s, s[i]) /\ IsFiniteSet(Hits(s, s[i]))
    BY <1>1, <1>2, <2>1
  <2> HIDE DEF Upto
  <2>3. Cardinality(Upto(i)) <= Cardinality(Hits(s, s[i]))
    BY <2>2, FS_Subset
  <2>4. Cardinality(Hits(s, s[i])) <= d[s[i]] /\ d[s[i]] \in Nat /\ Cardinality(Hits(s, s[i])) \in Nat
    BY <1>1, <2>1
  <2>5. Cardinality(Upto(i)) = Cardinality(Hits(s, s[i]))
    BY <2>1, <2>3, <2>4
  <2>6. Upto(i) = Hits(s, s[i])
    BY <2>2, <2>5, FS_Subset
  <2>7. QED
    BY <2>1, <2>5, <2>6
<1>4. ASSUME NEW n \in ToSet(s), d[n] = Cardinality(Hits(s, n))
      PROVE  \E i \in Freed(s, d) : s[i] = n
  <2>1. Hits(s, n) # {} /\ Hits(s, n) \in SUBSET (1..Len(s))
    BY <1>0 DEF Hits, ToSet
  <2>2. PICK i \in Hits(s, n) : \A k \in Hits(s, n) : k <= i
    BY <1>0, <2>1, GreatestOf
  <2>3. i \in DOMAIN s /\ s[i] = n
    BY <2>2 DEF Hits
  <2>4. Upto(i) = Hits(s, n)
    <3>1. Hits(s, n) \in SUBSET Upto(i)
      BY <1>0, <2>2, <2>3 DEF Hits
    <3>2. QED
      BY <1>2, <2>3, <3>1
  <2>5. i \in Freed(s, d)
    BY <1>4, <2>3, <2>4 DEF Freed
  <2>6. QED
    BY <2>3, <2>5
<1>5. ASSUME NEW i \in Freed(s, d), NEW j \in Freed(s, d), s[i] = s[j]
      PROVE  i = j
  <2>1. i \in Hits(s, s[i]) /\ j \in Hits(s, s[i]) /\ i \in Nat /\ j \in Nat
    BY <1>0, <1>5 DEF Freed, Hits
  <2>2. i \in Upto(j) /\ j \in Upto(i)
    BY <1>3, <1>5, <2>1
  <2>3. i <= j /\ j <= i
    BY <2>2
  <2>4. QED
    BY <2>1, <2>3
<1>6. QED
  BY <1>3, <1>4, <1>5

\* The invariant of the loop.
LoopInv(g, S, st) ==
    /\ st = [queue |-> st.queue, inDegree |-> st.inDegree, order |-> st.order]
    /\ st.order \in Seq(S) /\ st.queue \in Seq(S) /\ st.inDegree \in [S -> Nat]
    /\ NoRepeats(st.order) /\ NoRepeats(st.queue) /\ ToSet(st.order) \cap ToSet(st.queue) = {}
    \* The in-degrees count what is left, and used up ones are in order or queue.
    /\ \A n \in S : st.inDegree[n] = Cardinality(EdgesInto(g, ToSet(st.order), n))
    /\ \A n \in S : st.inDegree[n] = 0 <=> n \in ToSet(st.order) \cup ToSet(st.queue)
    \* Whoever lists a node of the order is in front of it.
    /\ \A j \in DOMAIN st.order, p \in S :
          st.order[j] \in ToSet(g[p]) => \E i \in 1..(j - 1) : st.order[i] = p

\* The queue without its head.
LEMMA HeadOut ==
    ASSUME NEW S, NEW s \in Seq(S), s # <<>>, NoRepeats(s)
    PROVE  /\ Head(s) \in S /\ Head(s) \in ToSet(s)
           /\ Tail(s) \in Seq(S) /\ NoRepeats(Tail(s))
           /\ ToSet(Tail(s)) = ToSet(s) \ {Head(s)}
<1>1. Len(s) \in Nat \ {0} /\ DOMAIN s = 1..Len(s) /\ Head(s) = s[1] /\ Tail(s) \in Seq(S)
  OBVIOUS
<1>2. /\ Len(Tail(s)) = Len(s) - 1 /\ DOMAIN Tail(s) = 1..(Len(s) - 1)
      /\ \A i \in 1..(Len(s) - 1) : Tail(s)[i] = s[i + 1]
  BY <1>1, HeadTailProperties
<1>3. NoRepeats(Tail(s))
  BY <1>1, <1>2 DEF NoRepeats
<1>4. ToSet(Tail(s)) = ToSet(s) \ {Head(s)}
  <2>1. \A i \in 1..(Len(s) - 1) : s[i + 1] \in ToSet(s) /\ s[i + 1] # s[1]
    BY <1>1 DEF NoRepeats, ToSet
  <2>2. \A i \in DOMAIN s : s[i] # s[1] => i - 1 \in 1..(Len(s) - 1) /\ Tail(s)[i - 1] = s[i]
    BY <1>1, <1>2
  <2>3. ToSet(Tail(s)) = {Tail(s)[i] : i \in 1..(Len(s) - 1)} /\ ToSet(s) = {s[i] : i \in DOMAIN s}
    BY <1>2 DEF ToSet
  <2>4. \A i \in 1..(Len(s) - 1) : Tail(s)[i] \in ToSet(s) \ {Head(s)}
    BY <1>1, <1>2, <2>1
  <2>5. \A i \in DOMAIN s : s[i] # Head(s) => s[i] \in ToSet(Tail(s))
    <3>1. \A i \in DOMAIN s : s[i] # s[1] => \E k \in 1..(Len(s) - 1) : s[i] = Tail(s)[k]
      BY <2>2
    <3>2. QED
      BY <1>1, <2>3, <3>1
  <2>6. QED
    BY <2>3, <2>4, <2>5
<1>5. Head(s) \in S /\ Head(s) \in ToSet(s)
  <2>1. 1 \in DOMAIN s
    BY <1>1
  <2>2. s[1] \in S /\ s[1] \in ToSet(s)
    BY <2>1 DEF ToSet
  <2>3. QED
    BY <1>1, <2>2
<1>6. QED
  BY <1>1, <1>3, <1>4, <1>5

\* The elements of two sequences behind each other.
LEMMA Joined ==
    ASSUME NEW S, NEW s \in Seq(S), NEW t \in Seq(S)
    PROVE  s \o t \in Seq(S) /\ ToSet(s \o t) = ToSet(s) \cup ToSet(t)
<1>1. /\ Len(s) \in Nat /\ Len(t) \in Nat /\ DOMAIN s = 1..Len(s) /\ DOMAIN t = 1..Len(t)
      /\ DOMAIN (s \o t) = 1..(Len(s) + Len(t))
      /\ \A i \in 1..(Len(s) + Len(t)) : (s \o t)[i] = IF i <= Len(s) THEN s[i] ELSE t[i - Len(s)]
      /\ s \o t \in Seq(S)
  BY ConcatProperties
<1>2. \A i \in 1..Len(s) : i \in DOMAIN (s \o t) /\ (s \o t)[i] = s[i]
  BY <1>1
<1>3. \A i \in 1..Len(t) : Len(s) + i \in DOMAIN (s \o t) /\ (s \o t)[Len(s) + i] = t[i]
  BY <1>1
<1>4. \A i \in DOMAIN (s \o t) : (s \o t)[i] \in ToSet(s) \cup ToSet(t)
  BY <1>1 DEF ToSet
<1>5. \A x \in ToSet(s) : x \in ToSet(s \o t)
  BY <1>1, <1>2 DEF ToSet
<1>6. \A x \in ToSet(t) : x \in ToSet(s \o t)
  BY <1>1, <1>3, ZenonT(60) DEF ToSet
<1>7. \A x \in ToSet(s \o t) : x \in ToSet(s) \cup ToSet(t)
  BY <1>4 DEF ToSet
<1>8. QED
  BY <1>1, <1>5, <1>6, <1>7

\* Two sequences without repeats and with no common element have none together.
LEMMA JoinFacts ==
    ASSUME NEW S, NEW s \in Seq(S), NEW t \in Seq(S), NoRepeats(s), NoRepeats(t),
           ToSet(s) \cap ToSet(t) = {}
    PROVE  s \o t \in Seq(S) /\ NoRepeats(s \o t) /\ ToSet(s \o t) = ToSet(s) \cup ToSet(t)
<1>1. /\ Len(s) \in Nat /\ Len(t) \in Nat /\ DOMAIN s = 1..Len(s) /\ DOMAIN t = 1..Len(t)
      /\ DOMAIN (s \o t) = 1..(Len(s) + Len(t))
      /\ \A i \in 1..(Len(s) + Len(t)) : (s \o t)[i] = IF i <= Len(s) THEN s[i] ELSE t[i - Len(s)]
      /\ s \o t \in Seq(S)
  BY ConcatProperties
<1>2. ToSet(s \o t) = ToSet(s) \cup ToSet(t)
  BY Joined
<1>3. NoRepeats(s \o t)
  <2> SUFFICES ASSUME NEW i \in DOMAIN (s \o t), NEW j \in DOMAIN (s \o t), (s \o t)[i] = (s \o t)[j]
               PROVE  i = j
    BY DEF NoRepeats
  <2>1. CASE i <= Len(s) /\ j <= Len(s)
    BY <1>1, <2>1 DEF NoRepeats
  <2>2. CASE ~(i <= Len(s)) /\ ~(j <= Len(s))
    <3>1. i - Len(s) \in DOMAIN t /\ j - Len(s) \in DOMAIN t /\ t[i - Len(s)] = t[j - Len(s)]
      BY <1>1, <2>2
    <3>2. i - Len(s) = j - Len(s)
      BY <3>1 DEF NoRepeats
    <3>3. QED
      BY <1>1, <3>2
  <2>3. ASSUME NEW a \in DOMAIN (s \o t), NEW b \in DOMAIN (s \o t), a <= Len(s), ~(b <= Len(s))
        PROVE  (s \o t)[a] # (s \o t)[b]
    <3>1. (s \o t)[a] \in ToSet(s) /\ (s \o t)[b] \in ToSet(t)
      BY <1>1, <2>3 DEF ToSet
    <3>2. QED
      BY <3>1
  <2>4. QED
    BY <2>1, <2>2, <2>3
<1>4. QED
  BY <1>1, <1>2, <1>3

\* The positions of a sequence with one more element.
LEMMA AppendedAt ==
    ASSUME NEW S, NEW s \in Seq(S), NEW c \in S
    PROVE  /\ DOMAIN Append(s, c) = 1..(Len(s) + 1)
           /\ Append(s, c)[Len(s) + 1] = c
           /\ \A i \in 1..Len(s) : Append(s, c)[i] = s[i]
  OBVIOUS

\* The elements of a sequence with one more element.
LEMMA Appended ==
    ASSUME NEW S, NEW s \in Seq(S), NEW c \in S
    PROVE  ToSet(Append(s, c)) = ToSet(s) \cup {c}
<1>1. /\ Len(s) \in Nat /\ DOMAIN s = 1..Len(s) /\ DOMAIN Append(s, c) = 1..(Len(s) + 1)
      /\ Append(s, c)[Len(s) + 1] = c /\ \A i \in 1..Len(s) : Append(s, c)[i] = s[i]
  OBVIOUS
<1>2. \A i \in 1..(Len(s) + 1) : i = Len(s) + 1 \/ i \in 1..Len(s)
  BY <1>1
<1>3. \A i \in 1..(Len(s) + 1) : Append(s, c)[i] \in ToSet(s) \cup {c}
  BY <1>1, <1>2 DEF ToSet
<1>4. \A i \in 1..Len(s) : s[i] \in ToSet(Append(s, c))
  BY <1>1 DEF ToSet
<1>5. c \in ToSet(Append(s, c))
  <2>1. Len(s) + 1 \in DOMAIN Append(s, c)
    BY <1>1
  <2>2. QED
    BY <1>1, <2>1 DEF ToSet
<1>6. \A x \in ToSet(Append(s, c)) : x \in ToSet(s) \cup {c}
  BY <1>1, <1>3 DEF ToSet
<1>7. \A x \in ToSet(s) : x \in ToSet(Append(s, c))
  BY <1>1, <1>4 DEF ToSet
<1>8. QED
  BY <1>5, <1>6, <1>7

\* A new element at the end of a sequence without repeats.
LEMMA LastIn ==
    ASSUME NEW S, NEW s \in Seq(S), NoRepeats(s), NEW c \in S, c \notin ToSet(s)
    PROVE  /\ Append(s, c) \in Seq(S) /\ NoRepeats(Append(s, c))
           /\ ToSet(Append(s, c)) = ToSet(s) \cup {c}
           /\ Len(s) \in Nat /\ Len(Append(s, c)) = Len(s) + 1
           /\ DOMAIN s = 1..Len(s) /\ DOMAIN Append(s, c) = 1..(Len(s) + 1)
           /\ Append(s, c)[Len(s) + 1] = c
           /\ \A i \in 1..Len(s) : Append(s, c)[i] = s[i]
<1>1. /\ Len(s) \in Nat /\ DOMAIN s = 1..Len(s) /\ Append(s, c) \in Seq(S)
      /\ Len(Append(s, c)) = Len(s) + 1 /\ DOMAIN Append(s, c) = 1..(Len(s) + 1)
  OBVIOUS
<1>2. Append(s, c)[Len(s) + 1] = c /\ \A i \in 1..Len(s) : Append(s, c)[i] = s[i]
  BY <1>1
<1>3. \A i \in 1..(Len(s) + 1) : i = Len(s) + 1 \/ i \in 1..Len(s)
  BY <1>1
<1>4. \A i \in 1..Len(s) : s[i] # c
  BY <1>1 DEF ToSet
<1>5. NoRepeats(Append(s, c))
  BY <1>1, <1>2, <1>3, <1>4 DEF NoRepeats
<1>6. ToSet(Append(s, c)) = ToSet(s) \cup {c}
  BY Appended
<1>7. QED
  BY <1>1, <1>2, <1>5, <1>6

\* One round keeps the invariant and puts one more node into the order.
LEMMA ShiftStep ==
    ASSUME NEW S, NEW g, IsGraph(g, S), NEW st, LoopInv(g, S, st), st.queue # <<>>
    PROVE  /\ LoopInv(g, S, Shift(g, st))
           /\ Len(Shift(g, st).order) = Len(st.order) + 1
<1>1. PICK O, Q, c : O = ToSet(st.order) /\ Q = ToSet(st.queue) /\ c = Head(st.queue)
  OBVIOUS
<1>2. /\ st.order \in Seq(S) /\ st.queue \in Seq(S) /\ st.inDegree \in [S -> Nat]
      /\ NoRepeats(st.order) /\ NoRepeats(st.queue) /\ O \cap Q = {}
      /\ \A n \in S : st.inDegree[n] = Cardinality(EdgesInto(g, O, n))
      /\ \A n \in S : st.inDegree[n] = 0 <=> n \in O \cup Q
  BY <1>1 DEF LoopInv
<1>3. \A j \in DOMAIN st.order, p \in S :
          st.order[j] \in ToSet(g[p]) => \E i \in 1..(j - 1) : st.order[i] = p
  BY DEF LoopInv
<1>4. /\ c \in S /\ c \in Q /\ c \notin O
      /\ Tail(st.queue) \in Seq(S) /\ NoRepeats(Tail(st.queue)) /\ ToSet(Tail(st.queue)) = Q \ {c}
  BY <1>1, <1>2, HeadOut
<1>5. PICK nbs : nbs = g[c]
  OBVIOUS
<1>6. nbs \in Seq(S) /\ DOMAIN g = S
  BY <1>4, <1>5 DEF IsGraph
<1>7. PICK F : F = Freed(nbs, st.inDegree)
  OBVIOUS
<1>8. PICK P : P = PickAt(nbs, F)
  OBVIOUS
<1>9. PICK d : d = [n \in S |-> st.inDegree[n] - Cardinality(Hits(nbs, n))]
  OBVIOUS
<1>10. Shift(g, st) = [queue |-> Tail(st.queue) \o P, inDegree |-> d, order |-> Append(st.order, c)]
  BY <1>1, <1>5, <1>6, <1>7, <1>8, <1>9 DEF Shift, Freed, Hits
<1>11. \A n \in S : /\ Cardinality(Hits(nbs, n)) \in Nat
                    /\ Cardinality(Hits(nbs, n)) = 0 <=> n \notin ToSet(nbs)
  BY <1>6, HitsFacts
<1>12. \A n \in S : /\ Cardinality(EdgesInto(g, O \cup {c}, n)) \in Nat
                    /\ st.inDegree[n] = Cardinality(EdgesInto(g, O \cup {c}, n)) + Cardinality(Hits(nbs, n))
  <2> SUFFICES ASSUME NEW n \in S
               PROVE  /\ Cardinality(EdgesInto(g, O \cup {c}, n)) \in Nat
                      /\ st.inDegree[n] = Cardinality(EdgesInto(g, O \cup {c}, n)) + Cardinality(Hits(nbs, n))
    OBVIOUS
  <2>1. Cardinality(EdgesInto(g, O \cup {c}, n)) \in Nat
    BY EdgesFinite
  <2>2. Cardinality(EdgesInto(g, O, n)) = Cardinality(EdgesInto(g, O \cup {c}, n)) + Cardinality(Hits(g[c], n))
    BY <1>4, EdgesSplit
  <2>3. QED
    BY <1>2, <1>5, <2>1, <2>2
<1>13. /\ d \in [S -> Nat]
       /\ \A n \in S : d[n] = Cardinality(EdgesInto(g, O \cup {c}, n))
       /\ \A n \in S : Cardinality(Hits(nbs, n)) <= st.inDegree[n]
  <2>1. ASSUME NEW n \in S
        PROVE  /\ d[n] = Cardinality(EdgesInto(g, O \cup {c}, n)) /\ d[n] \in Nat
               /\ Cardinality(Hits(nbs, n)) <= st.inDegree[n]
    <3>1. d[n] = st.inDegree[n] - Cardinality(Hits(nbs, n))
      BY <1>9
    <3>2. PICK e, h \in Nat : /\ e = Cardinality(EdgesInto(g, O \cup {c}, n))
                               /\ h = Cardinality(Hits(nbs, n)) /\ st.inDegree[n] = e + h
      BY <1>11, <1>12
    <3>3. QED
      BY <3>1, <3>2
  <2>2. QED
    BY <1>9, <2>1
<1>14. /\ \A i \in F : st.inDegree[nbs[i]] = Cardinality(Hits(nbs, nbs[i]))
       /\ \A n \in ToSet(nbs) : st.inDegree[n] = Cardinality(Hits(nbs, n)) => \E i \in F : nbs[i] = n
       /\ \A i, j \in F : nbs[i] = nbs[j] => i = j
  <2>1. PICK dd \in [S -> Nat] : dd = st.inDegree
    BY <1>2
  <2>2. /\ \A n \in S : Cardinality(Hits(nbs, n)) <= dd[n]
        /\ F = Freed(nbs, dd)
    BY <1>7, <1>13, <2>1
  <2>3. /\ \A i \in F : dd[nbs[i]] = Cardinality(Hits(nbs, nbs[i]))
        /\ \A n \in ToSet(nbs) : dd[n] = Cardinality(Hits(nbs, n)) => \E i \in F : nbs[i] = n
        /\ \A i, j \in F : nbs[i] = nbs[j] => i = j
    BY <1>6, <2>2, FreedFacts
  <2>4. QED
    BY <2>1, <2>3
<1>15. F \in SUBSET (DOMAIN nbs)
  BY <1>7 DEF Freed
<1>16. P \in Seq(S) /\ ToSet(P) = {nbs[i] : i \in F} /\ DOMAIN P = 1..Cardinality(F) /\ Cardinality(F) \in Nat
  BY <1>6, <1>8, <1>15, PickFacts
<1>17. NoRepeats(P)
  <2>1. \A i, j \in F : i < j => nbs[i] # nbs[j]
    BY <1>6, <1>14, <1>15
  <2>2. QED
    BY <1>6, <1>8, <1>15, <2>1, PickedOnce
<1>18. \A n \in S : n \in ToSet(P) <=> st.inDegree[n] # 0 /\ d[n] = 0
  <2> SUFFICES ASSUME NEW n \in S
               PROVE  n \in ToSet(P) <=> st.inDegree[n] # 0 /\ d[n] = 0
    OBVIOUS
  <2>1. d[n] = st.inDegree[n] - Cardinality(Hits(nbs, n)) /\ st.inDegree[n] \in Nat
    BY <1>2, <1>9
  <2>2. ASSUME n \in ToSet(P) PROVE st.inDegree[n] # 0 /\ d[n] = 0
    <3>1. PICK i \in F : nbs[i] = n
      BY <1>16, <2>2
    <3>2. st.inDegree[n] = Cardinality(Hits(nbs, n)) /\ n \in ToSet(nbs)
      BY <1>14, <1>15, <3>1 DEF ToSet
    <3>3. QED
      BY <1>11, <2>1, <3>2
  <2>3. ASSUME st.inDegree[n] # 0, d[n] = 0 PROVE n \in ToSet(P)
    <3>1. st.inDegree[n] = Cardinality(Hits(nbs, n)) /\ n \in ToSet(nbs)
      BY <1>11, <2>1, <2>3
    <3>2. PICK i \in F : nbs[i] = n
      BY <1>14, <3>1
    <3>3. QED
      BY <1>16, <3>2
  <2>4. QED
    BY <2>2, <2>3
<1>19. ToSet(P) \in SUBSET S /\ O \in SUBSET S /\ Q \in SUBSET S
  BY <1>1, <1>2, <1>16 DEF ToSet
<1>20. ToSet(P) \cap (O \cup Q) = {}
  BY <1>2, <1>18, <1>19
<1>21. /\ Tail(st.queue) \o P \in Seq(S) /\ NoRepeats(Tail(st.queue) \o P)
       /\ ToSet(Tail(st.queue) \o P) = (Q \ {c}) \cup ToSet(P)
  <2>1. ToSet(Tail(st.queue)) \cap ToSet(P) = {}
    BY <1>4, <1>20
  <2>2. PICK tl \in Seq(S) : tl = Tail(st.queue)
    BY <1>4
  <2>3. P \in Seq(S) /\ NoRepeats(tl) /\ NoRepeats(P) /\ ToSet(tl) \cap ToSet(P) = {}
    BY <1>4, <1>16, <1>17, <2>1, <2>2
  <2>4. tl \o P \in Seq(S) /\ NoRepeats(tl \o P) /\ ToSet(tl \o P) = ToSet(tl) \cup ToSet(P)
    BY <2>3, JoinFacts
  <2>5. QED
    BY <1>4, <2>2, <2>4
<1>22. /\ Append(st.order, c) \in Seq(S) /\ NoRepeats(Append(st.order, c))
       /\ ToSet(Append(st.order, c)) = O \cup {c}
       /\ Len(st.order) \in Nat /\ Len(Append(st.order, c)) = Len(st.order) + 1
       /\ DOMAIN st.order = 1..Len(st.order) /\ DOMAIN Append(st.order, c) = 1..(Len(st.order) + 1)
       /\ Append(st.order, c)[Len(st.order) + 1] = c
       /\ \A i \in 1..Len(st.order) : Append(st.order, c)[i] = st.order[i]
  BY <1>1, <1>2, <1>4, LastIn
<1>23. (O \cup {c}) \cap ((Q \ {c}) \cup ToSet(P)) = {}
  BY <1>2, <1>4, <1>20
<1>24. \A n \in S : d[n] = 0 <=> n \in (O \cup {c}) \cup ((Q \ {c}) \cup ToSet(P))
  <2> SUFFICES ASSUME NEW n \in S
               PROVE  d[n] = 0 <=> n \in O \cup Q \cup ToSet(P)
    BY <1>4
  <2>1. st.inDegree[n] = 0 => d[n] = 0
    <3>1. PICK e, h \in Nat : /\ e = Cardinality(EdgesInto(g, O \cup {c}, n))
                               /\ h = Cardinality(Hits(nbs, n)) /\ st.inDegree[n] = e + h
      BY <1>11, <1>12
    <3>2. d[n] = e
      BY <1>13, <3>1
    <3>3. QED
      BY <3>1, <3>2
  <2>2. QED
    BY <1>2, <1>18, <2>1
<1>25. \A p \in S : c \in ToSet(g[p]) => p \in O
  <2>1. Cardinality(EdgesInto(g, O, c)) = 0
    BY <1>2, <1>4
  <2>2. QED
    BY <2>1, EdgesNone
<1>26. ASSUME NEW j \in 1..(Len(st.order) + 1), NEW p \in S, Append(st.order, c)[j] \in ToSet(g[p])
       PROVE  \E i \in 1..(j - 1) : Append(st.order, c)[i] = p
  <2>1. CASE j = Len(st.order) + 1
    <3>1. p \in O
      BY <1>22, <1>25, <1>26, <2>1
    <3>2. PICK i \in 1..Len(st.order) : st.order[i] = p
      BY <1>1, <1>22, <3>1 DEF ToSet
    <3>3. i \in 1..(j - 1)
      BY <1>22, <2>1, <3>2
    <3>4. QED
      BY <1>22, <3>2, <3>3
  <2>2. CASE j \in 1..Len(st.order)
    <3>1. PICK i \in 1..(j - 1) : st.order[i] = p
      BY <1>3, <1>22, <1>26, <2>2
    <3>2. i \in 1..Len(st.order)
      BY <1>22, <2>2, <3>1
    <3>3. QED
      BY <1>22, <3>1, <3>2
  <2>3. QED
    BY <1>22, <2>1, <2>2
<1>27. PICK q, o : q = Tail(st.queue) \o P /\ o = Append(st.order, c)
  OBVIOUS
<1>28. Shift(g, st) = [queue |-> q, inDegree |-> d, order |-> o]
  BY <1>10, <1>27
<1>29. /\ o \in Seq(S) /\ q \in Seq(S) /\ NoRepeats(o) /\ NoRepeats(q) /\ ToSet(o) \cap ToSet(q) = {}
       /\ \A n \in S : d[n] = Cardinality(EdgesInto(g, ToSet(o), n))
       /\ \A n \in S : d[n] = 0 <=> n \in ToSet(o) \cup ToSet(q)
  BY <1>13, <1>21, <1>22, <1>23, <1>24, <1>27
<1>30. \A j \in DOMAIN o, p \in S : o[j] \in ToSet(g[p]) => \E i \in 1..(j - 1) : o[i] = p
  BY <1>22, <1>26, <1>27
<1>31. LoopInv(g, S, Shift(g, st))
  BY <1>13, <1>28, <1>29, <1>30 DEF LoopInv
<1>32. QED
  BY <1>10, <1>22, <1>31

\* A sequence without repeats is as long as it has elements.
LEMMA LenIsCount ==
    ASSUME NEW S, NEW s \in Seq(S), NoRepeats(s)
    PROVE  IsFiniteSet(ToSet(s)) /\ Cardinality(ToSet(s)) = Len(s)
<1>1. PICK n \in Nat : n = Len(s) /\ DOMAIN s = 1..n
  OBVIOUS
<1>2. ToSet(s) = {s[i] : i \in 1..n}
  BY <1>1 DEF ToSet
<1>3. [i \in 1..n |-> s[i]] \in Bijection(1..n, ToSet(s))
  BY <1>1, <1>2 DEF Bijection, Injection, Surjection, IsInjective, NoRepeats
<1>4. IsFiniteSet(1..n) /\ Cardinality(1..n) = n
  BY FS_Interval
<1>5. ExistsBijection(1..n, ToSet(s))
  BY <1>3 DEF ExistsBijection
<1>6. IsFiniteSet(ToSet(s)) /\ Cardinality(ToSet(s)) = n
  BY <1>4, <1>5, FS_Bijection
<1>7. QED
  BY <1>1, <1>6

\* The loop starts in the invariant.
LEMMA StartInv ==
    ASSUME NEW list \in Seq(Variables)
    PROVE  /\ IsGraph(buildDependencies(list), NamesIn(list))
           /\ LoopInv(buildDependencies(list), NamesIn(list), KahnStart(list))
           /\ KahnStart(list).order = <<>>
<1>1. PICK S, g, keys, d : /\ S = NamesIn(list) /\ g = buildDependencies(list)
                           /\ keys = Keys(list) /\ d = InDegrees(g)
  OBVIOUS
<1>2. IsGraph(g, S)
  <2>1. g \in [S -> Seq(S)] /\ \A p \in S : Len(g[p]) <= Len(list)
    BY <1>1, GraphFacts
  <2>2. IsFiniteSet(S) /\ Len(list) \in Nat
    BY <1>1, ListFacts
  <2>3. QED
    BY <2>1, <2>2 DEF IsGraph
<1>3. DOMAIN g = S /\ \A p \in S : DOMAIN g[p] \in SUBSET Nat
  BY <1>2 DEF IsGraph
<1>4. \A n \in S : UNION {{p} \X {i \in DOMAIN g[p] : g[p][i] = n} : p \in DOMAIN g} = EdgesInto(g, {}, n)
  <2> SUFFICES ASSUME NEW n \in S
               PROVE  UNION {{p} \X {i \in DOMAIN g[p] : g[p][i] = n} : p \in DOMAIN g} = EdgesInto(g, {}, n)
    OBVIOUS
  <2>1. \A p \in S : {i \in DOMAIN g[p] : g[p][i] = n} = Hits(g[p], n) /\ Hits(g[p], n) \in SUBSET Nat
    BY <1>3 DEF Hits
  <2>2. UNION {{p} \X {i \in DOMAIN g[p] : g[p][i] = n} : p \in DOMAIN g} = UNION {{p} \X Hits(g[p], n) : p \in S}
    BY <1>3, <2>1
  <2>3. \A e \in UNION {{p} \X Hits(g[p], n) : p \in S} : e \in EdgesInto(g, {}, n)
    BY <1>3, <2>1 DEF EdgesInto
  <2>4. \A e \in EdgesInto(g, {}, n) : e \in UNION {{p} \X Hits(g[p], n) : p \in S}
    BY <1>3 DEF EdgesInto
  <2>5. QED
    BY <2>2, <2>3, <2>4
<1>5. d = [n \in S |-> Cardinality(EdgesInto(g, {}, n))]
  BY <1>1, <1>3, <1>4 DEF InDegrees
<1>6. d \in [S -> Nat]
  BY <1>2, <1>5, EdgesFinite
<1>7. keys \in Seq(S) /\ ToSet(keys) = S /\ NoRepeats(keys)
  BY <1>1, KeysFacts
<1>8. PICK I : I = {i \in DOMAIN keys : d[keys[i]] = 0}
  OBVIOUS
<1>9. PICK q : q = PickAt(keys, I)
  OBVIOUS
<1>10. I \in SUBSET (DOMAIN keys) /\ \A i \in I : i \in Nat
  BY <1>7, <1>8
<1>11. q \in Seq(S) /\ ToSet(q) = {keys[i] : i \in I} /\ DOMAIN q = 1..Cardinality(I) /\ Cardinality(I) \in Nat
  BY <1>7, <1>9, <1>10, PickFacts
<1>12. NoRepeats(q)
  <2>1. \A i, j \in I : i < j => keys[i] # keys[j]
    BY <1>7, <1>10 DEF NoRepeats
  <2>2. QED
    BY <1>7, <1>9, <1>10, <2>1, PickedOnce
<1>13. \A n \in S : d[n] = 0 <=> n \in ToSet(q)
  <2>1. \A n \in S : \E i \in DOMAIN keys : keys[i] = n
    BY <1>7 DEF ToSet
  <2>2. QED
    BY <1>8, <1>11, <2>1
<1>14. KahnStart(list) = [queue |-> q, inDegree |-> d, order |-> <<>>]
  BY <1>1, <1>8, <1>9 DEF KahnStart
<1>15. <<>> \in Seq(S) /\ DOMAIN (<<>>) = {} /\ ToSet(<<>>) = {} /\ NoRepeats(<<>>)
  BY DEF ToSet, NoRepeats
<1>16. PICK e : e = <<>>
  OBVIOUS
<1>17. /\ e \in Seq(S) /\ NoRepeats(e) /\ ToSet(e) \cap ToSet(q) = {}
       /\ \A n \in S : d[n] = Cardinality(EdgesInto(g, ToSet(e), n))
       /\ \A n \in S : d[n] = 0 <=> n \in ToSet(e) \cup ToSet(q)
       /\ \A j \in DOMAIN e, p \in S : e[j] \in ToSet(g[p]) => \E i \in 1..(j - 1) : e[i] = p
  BY <1>5, <1>13, <1>15, <1>16
<1>18. LoopInv(g, S, KahnStart(list))
  BY <1>6, <1>11, <1>12, <1>14, <1>16, <1>17 DEF LoopInv
<1>19. QED
  BY <1>1, <1>2, <1>14, <1>18

\* The rounds are well defined.
AreRounds(g, start, n, f) ==
    f = [k \in 0..n |-> IF k = 0 THEN start ELSE Round(g, f[k - 1])]

\* The recursion behind Kahn has a solution.  The induction is on the least number of
\* rounds without one.
LEMMA RoundsExist ==
    ASSUME NEW g, NEW start, NEW n \in Nat
    PROVE  \E f : AreRounds(g, start, n, f)
<1> USE DEF AreRounds
<1> DEFINE M == {i \in Nat : ~ \E f : f = [k \in 0..i |-> IF k = 0 THEN start ELSE Round(g, f[k - 1])]}
<1> SUFFICES ASSUME M # {} PROVE FALSE
  OBVIOUS
<1>1. PICK m \in M : \A i \in M : m <= i
  BY LeastOf
<1>2. m # 0
  <2>1. \E f : f = [k \in 0..0 |-> start]
    OBVIOUS
  <2>2. PICK f : f = [k \in 0..0 |-> start]
    BY <2>1
  <2>3. f = [k \in 0..0 |-> IF k = 0 THEN start ELSE Round(g, f[k - 1])]
    BY <2>2
  <2>4. QED
    BY <2>3
<1>3. m \in Nat /\ m - 1 \in Nat /\ m - 1 \notin M
  <2>1. m \in Nat
    BY <1>1
  <2>2. m - 1 \in Nat /\ ~(m <= m - 1)
    BY <1>2, <2>1
  <2> HIDE DEF M
  <2>3. QED
    BY <1>1, <2>1, <2>2
<1>4. PICK f : f = [k \in 0..(m - 1) |-> IF k = 0 THEN start ELSE Round(g, f[k - 1])]
  BY <1>3
<1>5. PICK h : h = [k \in 0..m |-> IF k = m THEN Round(g, f[m - 1]) ELSE f[k]]
  OBVIOUS
<1>6. \A k \in 0..(m - 1) : h[k] = f[k] /\ f[k] = IF k = 0 THEN start ELSE Round(g, f[k - 1])
  BY <1>3, <1>4, <1>5
<1>7. \A k \in 0..m : h[k] = IF k = 0 THEN start ELSE Round(g, h[k - 1])
  <2> SUFFICES ASSUME NEW k \in 0..m PROVE h[k] = IF k = 0 THEN start ELSE Round(g, h[k - 1])
    OBVIOUS
  <2>1. CASE k = m
    <3>1. h[m] = Round(g, f[m - 1]) /\ h[m - 1] = f[m - 1]
      BY <1>3, <1>5, <1>6
    <3>2. QED
      BY <1>2, <2>1, <3>1
  <2>2. CASE k # m /\ k # 0
    <3>1. k \in 0..(m - 1) /\ k - 1 \in 0..(m - 1)
      BY <1>3, <2>2
    <3>2. QED
      BY <1>6, <2>2, <3>1
  <2>3. CASE k = 0
    <3>1. 0 \in 0..(m - 1)
      BY <1>3
    <3>2. QED
      BY <1>6, <2>3, <3>1
  <2>4. QED
    BY <2>1, <2>2, <2>3
<1>8. h = [k \in 0..m |-> IF k = 0 THEN start ELSE Round(g, h[k - 1])]
  BY <1>5, <1>7
<1>9. QED
  BY <1>1, <1>8

\* The state of the loop after a round is that of the round before, moved on by Round.
LEMMA KahnUnfolds ==
    ASSUME NEW list \in Seq(Variables)
    PROVE  LET N == Cardinality(NamesIn(list))
           IN  /\ N \in Nat
               /\ Kahn(list)[0] = KahnStart(list)
               /\ \A k \in 1..N : Kahn(list)[k] = Round(buildDependencies(list), Kahn(list)[k - 1])
<1> DEFINE N == Cardinality(NamesIn(list))
<1>1. N \in Nat
  BY ListFacts
<1>2. PICK g, start : g = buildDependencies(list) /\ start = KahnStart(list)
  OBVIOUS
<1>3. Kahn(list) = CHOOSE f : AreRounds(g, start, N, f)
  BY <1>2 DEF Kahn, AreRounds
<1> HIDE DEF N
<1>4. \E f : AreRounds(g, start, N, f)
  BY <1>1, RoundsExist
<1>5. AreRounds(g, start, N, Kahn(list))
  BY <1>3, <1>4
<1>6. \A k \in 0..N : Kahn(list)[k] = IF k = 0 THEN start ELSE Round(g, Kahn(list)[k - 1])
  BY <1>5 DEF AreRounds
<1>7. 0 \in 0..N /\ \A k \in 1..N : k \in 0..N /\ k # 0
  BY <1>1
<1>8. Kahn(list)[0] = start /\ \A k \in 1..N : Kahn(list)[k] = Round(g, Kahn(list)[k - 1])
  BY <1>6, <1>7
<1>9. QED
  BY <1>1, <1>2, <1>8 DEF N

\* Every round keeps the invariant; the order grows by one until the queue is empty.
LEMMA KahnInv ==
    ASSUME NEW list \in Seq(Variables), NEW k \in 0..Cardinality(NamesIn(list))
    PROVE  /\ LoopInv(buildDependencies(list), NamesIn(list), Kahn(list)[k])
           /\ Len(Kahn(list)[k].order) = k \/ Kahn(list)[k].queue = <<>>
<1>1. PICK N, g, S, rounds : /\ N = Cardinality(NamesIn(list)) /\ g = buildDependencies(list)
                             /\ S = NamesIn(list) /\ rounds = Kahn(list)
  OBVIOUS
<1>2. /\ N \in Nat /\ rounds[0] = KahnStart(list)
      /\ \A i \in 1..N : rounds[i] = Round(g, rounds[i - 1])
  BY <1>1, KahnUnfolds
<1>3. IsGraph(g, S) /\ LoopInv(g, S, rounds[0]) /\ rounds[0].order = <<>>
  BY <1>1, <1>2, StartInv
<1> DEFINE Good(i) == LoopInv(g, S, rounds[i]) /\ (Len(rounds[i].order) = i \/ rounds[i].queue = <<>>)
           M == {i \in 0..N : ~Good(i)}
<1> SUFFICES ASSUME M # {} PROVE FALSE
  BY <1>1
<1>4. PICK m \in M : \A i \in M : m <= i
  <2>1. M \in SUBSET Nat
    BY <1>2
  <2> HIDE DEF M
  <2>2. QED
    BY <2>1, LeastOf
<1>5. m \in 0..N /\ ~Good(m)
  BY <1>4
<1>6. Good(0)
  BY <1>3
<1>7. m # 0
  BY <1>5, <1>6
<1>8. m \in 1..N /\ m - 1 \in 0..N /\ m - 1 \notin M
  <2>1. m \in 1..N /\ m - 1 \in 0..N /\ ~(m <= m - 1)
    BY <1>2, <1>5, <1>7
  <2> HIDE DEF M
  <2>2. QED
    BY <1>4, <2>1
<1>9. Good(m - 1)
  BY <1>8
<1>10. rounds[m] = Round(g, rounds[m - 1])
  BY <1>2, <1>8
<1>11. PICK st : st = rounds[m - 1]
  OBVIOUS
<1>12. LoopInv(g, S, st) /\ (Len(st.order) = m - 1 \/ st.queue = <<>>)
  BY <1>9, <1>11
<1>13. CASE st.queue = <<>>
  <2>1. rounds[m] = st
    BY <1>10, <1>11, <1>13 DEF Round
  <2>2. QED
    BY <1>5, <1>12, <1>13, <2>1
<1>14. CASE st.queue # <<>>
  <2>1. rounds[m] = Shift(g, st)
    BY <1>10, <1>11, <1>14 DEF Round
  <2>2. LoopInv(g, S, Shift(g, st)) /\ Len(Shift(g, st).order) = Len(st.order) + 1
    BY <1>3, <1>12, <1>14, ShiftStep
  <2>3. Len(st.order) + 1 = m
    BY <1>8, <1>12, <1>14
  <2>4. QED
    BY <1>5, <2>1, <2>2, <2>3
<1>15. QED
  BY <1>13, <1>14

\* The loop of buildDependencyGraph ends: after a round for each name at most, its
\* queue is empty.
THEOREM KahnEnds ==
    ASSUME NEW list \in Seq(Variables)
    PROVE  Kahn(list)[Cardinality(NamesIn(list))].queue = <<>>
<1>1. PICK N, S, st : /\ N = Cardinality(NamesIn(list)) /\ S = NamesIn(list)
                      /\ st = Kahn(list)[Cardinality(NamesIn(list))]
  OBVIOUS
<1>2. IsFiniteSet(S) /\ N \in Nat /\ N = Cardinality(S)
  BY <1>1, ListFacts
<1>3. LoopInv(buildDependencies(list), S, st) /\ (Len(st.order) = N \/ st.queue = <<>>)
  <2>1. N \in 0..N
    BY <1>2
  <2>2. QED
    BY <1>1, <2>1, KahnInv
<1>4. /\ st.order \in Seq(S) /\ st.queue \in Seq(S) /\ NoRepeats(st.order)
      /\ ToSet(st.order) \cap ToSet(st.queue) = {}
  BY <1>3 DEF LoopInv
<1> SUFFICES ASSUME st.queue # <<>> PROVE FALSE
  BY <1>1
<1>5. Cardinality(ToSet(st.order)) = Cardinality(S)
  BY <1>2, <1>3, <1>4, LenIsCount
<1>6. ToSet(st.order) \in SUBSET S
  BY <1>4 DEF ToSet
<1>7. ToSet(st.order) = S
  BY <1>2, <1>5, <1>6, FS_Subset
<1>8. st.queue[1] \in S /\ st.queue[1] \in ToSet(st.queue)
  <2>1. 1 \in DOMAIN st.queue
    BY <1>4
  <2>2. QED
    BY <1>4, <2>1 DEF ToSet
<1>9. QED
  BY <1>4, <1>7, <1>8

\* The order has each of its names once and behind those it mentions, and the names
\* it leaves out are the ones that are stuck.
LEMMA OrderFacts ==
    ASSUME NEW list \in Seq(Variables)
    PROVE  LET order == topologicalOrder(list)
           IN  /\ order \in Seq(NamesIn(list)) /\ NoRepeats(order)
               /\ \A j \in DOMAIN order, p \in NamesIn(list) :
                     Mentions(list, p, order[j]) => \E i \in 1..(j - 1) : order[i] = p
               /\ ToSet(order) = NamesIn(list) \ Stuck(list)
<1>1. PICK N, S, g, st, order :
          /\ N = Cardinality(NamesIn(list)) /\ S = NamesIn(list) /\ g = buildDependencies(list)
          /\ st = Kahn(list)[Cardinality(NamesIn(list))] /\ order = st.order
  OBVIOUS
<1>2. order = topologicalOrder(list)
  BY <1>1 DEF topologicalOrder
<1>3. LoopInv(g, S, st) /\ st.queue = <<>>
  <2>1. N \in Nat /\ N \in 0..N
    BY <1>1, ListFacts
  <2>2. QED
    BY <1>1, <2>1, KahnInv, KahnEnds
<1>4. IsGraph(g, S)
  BY <1>1, StartInv
<1>5. \A p, n \in S : n \in ToSet(g[p]) <=> Mentions(list, p, n)
  BY <1>1, GraphFacts
<1>6. ToSet(<<>>) = {}
  BY DEF ToSet
<1>7. /\ order \in Seq(S) /\ NoRepeats(order)
      /\ \A n \in S : st.inDegree[n] = Cardinality(EdgesInto(g, ToSet(order), n))
      /\ \A n \in S : st.inDegree[n] = 0 <=> n \in ToSet(order)
      /\ \A j \in DOMAIN order, p \in S :
            order[j] \in ToSet(g[p]) => \E i \in 1..(j - 1) : order[i] = p
  BY <1>1, <1>3, <1>6 DEF LoopInv
<1>8. \A j \in DOMAIN order : order[j] \in S
  BY <1>7
<1>9. \A j \in DOMAIN order, p \in S : Mentions(list, p, order[j]) => \E i \in 1..(j - 1) : order[i] = p
  BY <1>5, <1>7, <1>8
<1>10. ToSet(order) \in SUBSET S
  BY <1>8 DEF ToSet
<1>11. \A n \in S \ ToSet(order) : \E p \in S \ ToSet(order) : Mentions(list, p, n)
  <2> SUFFICES ASSUME NEW n \in S \ ToSet(order)
               PROVE  \E p \in S \ ToSet(order) : Mentions(list, p, n)
    OBVIOUS
  <2>1. Cardinality(EdgesInto(g, ToSet(order), n)) # 0
    BY <1>7
  <2>2. \E p \in S \ ToSet(order) : n \in ToSet(g[p])
    BY <1>4, <2>1, EdgesNone
  <2>3. QED
    BY <1>5, <2>2
<1>12. S \ ToSet(order) \in MutualReferences(list)
  BY <1>1, <1>11 DEF MutualReferences
<1>13. \A n \in ToSet(order) : n \notin Stuck(list)
  <2> SUFFICES ASSUME NEW C \in MutualReferences(list), NEW n \in ToSet(order), n \in C
               PROVE  FALSE
    BY DEF Stuck
  <2> DEFINE J == {j \in DOMAIN order : order[j] \in C}
  <2>1. J \in SUBSET Nat /\ J # {}
    BY <1>7 DEF ToSet
  <2>2. PICK j \in J : \A i \in J : j <= i
    <3> HIDE DEF J
    <3>1. QED
      BY <2>1, LeastOf
  <2>3. j \in DOMAIN order /\ order[j] \in C /\ C \in SUBSET S
    BY <1>1, <2>2 DEF MutualReferences
  <2>4. PICK m \in C : Mentions(list, m, order[j])
    BY <2>3 DEF MutualReferences
  <2>5. PICK i \in 1..(j - 1) : order[i] = m
    BY <1>9, <2>3, <2>4
  <2>6. i \in DOMAIN order /\ ~(j <= i)
    BY <1>7, <2>3, <2>5
  <2>7. i \in J
    BY <2>4, <2>5, <2>6
  <2>8. QED
    BY <2>2, <2>6, <2>7
<1>14. \A n \in S : n \notin ToSet(order) => n \in Stuck(list)
  BY <1>12 DEF Stuck
<1>15. ToSet(order) = S \ Stuck(list)
  BY <1>10, <1>13, <1>14
<1>16. QED
  BY <1>1, <1>2, <1>7, <1>9, <1>15

\* The check of buildDependencyGraph is exact on every list of variables, with names
\* that occur twice and mentions of names that do not exist: the order is shorter
\* than the keys if and only if some names mention each other in a circle.
THEOREM CycleCheck ==
    ASSUME NEW list \in Seq(Variables)
    PROVE  hasCycle(list) <=> IsCyclic(list)
<1>1. PICK order, keys, S : order = topologicalOrder(list) /\ keys = Keys(list) /\ S = NamesIn(list)
  OBVIOUS
<1>2. order \in Seq(S) /\ NoRepeats(order) /\ ToSet(order) = S \ Stuck(list)
  BY <1>1, OrderFacts
<1>3. keys \in Seq(S) /\ ToSet(keys) = S /\ NoRepeats(keys)
  BY <1>1, KeysFacts
<1>4. IsFiniteSet(S) /\ Cardinality(S) = Len(keys)
  BY <1>3, LenIsCount
<1>5. Cardinality(S \ Stuck(list)) = Len(order)
  BY <1>2, LenIsCount
<1>6. hasCycle(list) <=> Cardinality(S \ Stuck(list)) # Cardinality(S)
  BY <1>1, <1>4, <1>5 DEF hasCycle
<1>7. Cardinality(S \ Stuck(list)) = Cardinality(S) <=> S \ Stuck(list) = S
  <2>1. S \ Stuck(list) \in SUBSET S
    OBVIOUS
  <2>2. QED
    BY <1>4, <2>1, FS_Subset
<1>8. Stuck(list) \in SUBSET S
  BY <1>1 DEF Stuck, MutualReferences
<1>9. IsCyclic(list) <=> Stuck(list) # {}
  BY DEF IsCyclic, Stuck
<1>10. QED
  BY <1>6, <1>7, <1>8, <1>9

\* What enqueueFetchOfAllVariables starts with.
LEMMA QueryOrderFacts ==
    ASSUME NEW list \in Seq(Variables)
    PROVE  LET order == QueryOrder(list)
           IN  /\ order \in Seq(NamesIn(list))
               /\ ToSet(order) = QueryNames(list) \ Stuck(list)
               /\ Len(order) = Cardinality(ToSet(order))
               /\ \A i, j \in DOMAIN order : Mentions(list, order[i], order[j]) => i < j
<1>1. PICK full, S, I, order :
          /\ full = topologicalOrder(list) /\ S = NamesIn(list)
          /\ I = {i \in DOMAIN full : full[i] \in QueryNames(list)} /\ order = PickAt(full, I)
  OBVIOUS
<1>2. order = QueryOrder(list)
  BY <1>1 DEF QueryOrder
<1>3. /\ full \in Seq(S) /\ NoRepeats(full) /\ ToSet(full) = S \ Stuck(list)
      /\ \A j \in DOMAIN full, p \in S :
            Mentions(list, p, full[j]) => \E i \in 1..(j - 1) : full[i] = p
  BY <1>1, OrderFacts
<1>4. I \in SUBSET (DOMAIN full) /\ DOMAIN full = 1..Len(full) /\ Len(full) \in Nat
  BY <1>1, <1>3
<1>5. /\ order \in Seq(S) /\ Cardinality(I) \in Nat /\ DOMAIN order = 1..Cardinality(I)
      /\ ToSet(order) = {full[i] : i \in I}
  <2>1. /\ PickAt(full, I) \in Seq(S) /\ Cardinality(I) \in Nat
        /\ DOMAIN PickAt(full, I) = 1..Cardinality(I)
        /\ ToSet(PickAt(full, I)) = {full[i] : i \in I}
    BY <1>3, <1>4, PickFacts
  <2>2. QED
    BY <1>1, <2>1
<1>6. \A k, l \in 1..Cardinality(I) : k < l =>
         \E i, j \in I : i < j /\ order[k] = full[i] /\ order[l] = full[j]
  <2>1. \A k, l \in 1..Cardinality(I) : k < l =>
           \E i, j \in I : i < j /\ PickAt(full, I)[k] = full[i] /\ PickAt(full, I)[l] = full[j]
    BY <1>3, <1>4, PickFacts
  <2>2. QED
    BY <1>1, <2>1
<1>7. NoRepeats(order)
  <2>1. \A i, j \in I : i < j => full[i] # full[j]
    BY <1>3, <1>4 DEF NoRepeats
  <2>2. QED
    BY <1>1, <1>3, <1>4, <2>1, PickedOnce
<1>8. ToSet(order) = QueryNames(list) \ Stuck(list)
  <2>1. QueryNames(list) \in SUBSET S
    BY <1>1 DEF QueryNames, NamesIn
  <2>2. \A i \in I : full[i] \in QueryNames(list) \ Stuck(list)
    BY <1>1, <1>3 DEF ToSet
  <2>3. \A n \in QueryNames(list) \ Stuck(list) : \E i \in I : full[i] = n
    <3>1. \A n \in S \ Stuck(list) : \E i \in DOMAIN full : full[i] = n
      BY <1>3 DEF ToSet
    <3>2. QED
      BY <1>1, <2>1, <3>1
  <2>4. QED
    BY <1>5, <2>2, <2>3
<1>9. Len(order) = Cardinality(ToSet(order))
  BY <1>5, <1>7, LenIsCount
<1>10. ASSUME NEW k \in DOMAIN order, NEW l \in DOMAIN order, Mentions(list, order[k], order[l]), ~(k < l)
       PROVE  FALSE
  <2>1. order[k] \in S
    BY <1>5
  <2>2. PICK a, b \in I : order[l] = full[a] /\ order[k] = full[b] /\ a <= b
    <3>1. CASE l = k
      <4>1. PICK a \in I : order[l] = full[a]
        BY <1>5 DEF ToSet
      <4>2. a <= a
        BY <1>4
      <4>3. QED
        BY <3>1, <4>1, <4>2
    <3>2. CASE l < k
      <4>1. PICK a, b \in I : a < b /\ order[l] = full[a] /\ order[k] = full[b]
        BY <1>5, <1>6, <3>2
      <4>2. a <= b
        BY <1>4, <4>1
      <4>3. QED
        BY <4>1, <4>2
    <3>3. QED
      BY <1>5, <1>10, <3>1, <3>2
  <2>3. PICK e \in 1..(a - 1) : full[e] = full[b]
    BY <1>3, <1>4, <1>10, <2>1, <2>2
  <2>4. e \in DOMAIN full /\ e # b
    BY <1>4, <2>2, <2>3
  <2>5. QED
    BY <1>3, <1>4, <2>2, <2>3, <2>4 DEF NoRepeats
<1>11. QED
  BY <1>1, <1>2, <1>5, <1>8, <1>9, <1>10

------------------------------------------------------------------------------
(* What depends on a variable.                                               *)

\* Below is closed under being mentioned by, and the smallest such set.
LEMMA BelowFacts ==
    ASSUME NEW list, NEW n
    PROVE  /\ Below(list, n) \subseteq NamesIn(list)
           /\ \A y \in NamesIn(list) :
                 Mentions(list, n, y) \/ (\E x \in Below(list, n) : Mentions(list, x, y))
                 => y \in Below(list, n)
           /\ \A C \in SUBSET NamesIn(list) :
                 (\A y \in NamesIn(list) :
                     Mentions(list, n, y) \/ (\E x \in C : Mentions(list, x, y)) => y \in C)
                 => Below(list, n) \subseteq C
<1> DEFINE S == NamesIn(list)
           Closed == {C \in SUBSET S : \A y \in S :
                         Mentions(list, n, y) \/ (\E x \in C : Mentions(list, x, y)) => y \in C}
<1>1. Below(list, n) = {m \in S : \A C \in Closed : m \in C}
  BY DEF Below
<1>2. \A C \in SUBSET S :
         (\A y \in S : Mentions(list, n, y) \/ (\E x \in C : Mentions(list, x, y)) => y \in C)
         => C \in Closed
  OBVIOUS
<1>3. ASSUME NEW y \in S, Mentions(list, n, y) \/ (\E x \in Below(list, n) : Mentions(list, x, y))
      PROVE  y \in Below(list, n)
  <2> SUFFICES ASSUME NEW C \in Closed PROVE y \in C
    BY <1>1
  <2>1. \A x \in Below(list, n) : x \in C
    BY <1>1
  <2>2. QED
    BY <1>3, <2>1
<1> HIDE DEF Closed
<1>4. QED
  BY <1>1, <1>2, <1>3

\* What is below a name below n is below n.
LEMMA BelowTrans ==
    ASSUME NEW list, NEW n, NEW x \in Below(list, n)
    PROVE  Below(list, x) \subseteq Below(list, n)
<1>1. PICK B : B = Below(list, n)
  OBVIOUS
<1>2. /\ B \in SUBSET NamesIn(list) /\ x \in B
      /\ \A y \in NamesIn(list) : (\E z \in B : Mentions(list, z, y)) => y \in B
  BY <1>1, BelowFacts
<1>3. \A y \in NamesIn(list) :
         Mentions(list, x, y) \/ (\E z \in B : Mentions(list, z, y)) => y \in B
  BY <1>2
<1>4. Below(list, x) \subseteq B
  BY <1>2, <1>3, BelowFacts
<1>5. QED
  BY <1>1, <1>4

\* What is below n mentions n, or is below a name that does.
LEMMA BelowUnfolds ==
    ASSUME NEW list, NEW n, NEW y \in NamesIn(list)
    PROVE  y \in Below(list, n) <=>
              \E c \in NamesIn(list) : Mentions(list, n, c) /\ (y = c \/ y \in Below(list, c))
<1> DEFINE S == NamesIn(list)
           U == {z \in S : \E c \in S : Mentions(list, n, c) /\ (z = c \/ z \in Below(list, c))}
<1>1. \A c \in S : Mentions(list, n, c) => c \in Below(list, n)
  BY BelowFacts
<1>2. \A c \in S : Mentions(list, n, c) => Below(list, c) \subseteq Below(list, n)
  BY <1>1, BelowTrans
<1>3. \A z \in U : z \in Below(list, n)
  BY <1>1, <1>2
<1>4. ASSUME NEW z \in S, NEW x \in U, Mentions(list, x, z)
      PROVE  z \in U
  <2>1. PICK c \in S : Mentions(list, n, c) /\ (x = c \/ x \in Below(list, c))
    OBVIOUS
  <2>2. z \in Below(list, c)
    BY <1>4, <2>1, BelowFacts
  <2>3. QED
    BY <2>1, <2>2
<1>5. \A z \in S : Mentions(list, n, z) => z \in U
  OBVIOUS
<1>6. U \in SUBSET S
  OBVIOUS
<1>8. y \in U <=> \E c \in S : Mentions(list, n, c) /\ (y = c \/ y \in Below(list, c))
  OBVIOUS
<1> HIDE DEF U
<1>7. Below(list, n) \subseteq U
  BY <1>4, <1>5, <1>6, BelowFacts
<1>9. QED
  BY <1>3, <1>7, <1>8

\* What is below m is mentioned from there.
LEMMA BelowHasParent ==
    ASSUME NEW list, NEW m, NEW x \in Below(list, m)
    PROVE  \E p \in Below(list, m) \cup {m} : Mentions(list, p, x)
<1>1. PICK B, S : B = Below(list, m) /\ S = NamesIn(list)
  OBVIOUS
<1>2. /\ B \subseteq S
      /\ \A y \in S : Mentions(list, m, y) \/ (\E z \in B : Mentions(list, z, y)) => y \in B
      /\ \A C \in SUBSET S :
            (\A y \in S : Mentions(list, m, y) \/ (\E z \in C : Mentions(list, z, y)) => y \in C)
            => B \subseteq C
  BY <1>1, BelowFacts
<1>3. PICK C : C = {z \in B : \E p \in B \cup {m} : Mentions(list, p, z)}
  OBVIOUS
<1>4. C \in SUBSET S /\ C \subseteq B
  BY <1>2, <1>3
<1>5. \A y \in S : Mentions(list, m, y) \/ (\E z \in C : Mentions(list, z, y)) => y \in C
  BY <1>2, <1>3, <1>4
<1>6. B \subseteq C
  BY <1>2, <1>4, <1>5
<1>7. QED
  BY <1>1, <1>3, <1>6

\* The variables that are stuck are those on a cycle and those below one.  For a
\* stuck n, an ancestor with the fewest ancestors has a parent that is on a cycle.
LEMMA StuckFacts ==
    ASSUME NEW list \in Seq(Variables)
    PROVE  Stuck(list) = {n \in NamesIn(list) : \E m \in NamesIn(list) :
                             m \in Below(list, m) /\ (n = m \/ n \in Below(list, m))}
<1>1. PICK S : S = NamesIn(list) /\ IsFiniteSet(S)
  BY ListFacts
<1>2. ASSUME NEW m \in S, NEW n \in S, m \in Below(list, m), n = m \/ n \in Below(list, m)
      PROVE  n \in Stuck(list)
  <2>1. Below(list, m) \in SUBSET NamesIn(list) /\ n \in Below(list, m)
    BY <1>2, BelowFacts
  <2>2. \A x \in Below(list, m) : \E p \in Below(list, m) : Mentions(list, p, x)
    BY <1>2, BelowHasParent
  <2>3. Below(list, m) \in MutualReferences(list)
    BY <2>1, <2>2 DEF MutualReferences
  <2>4. QED
    BY <2>1, <2>3 DEF Stuck
<1>3. ASSUME NEW n \in Stuck(list)
      PROVE  n \in S /\ \E m \in S : m \in Below(list, m) /\ n \in Below(list, m)
  <2>1. PICK C \in MutualReferences(list) : n \in C
    BY DEF Stuck
  <2>2. C \in SUBSET S /\ \A x \in C : \E p \in C : Mentions(list, p, x)
    BY <1>1, <2>1 DEF MutualReferences
  <2> DEFINE Above(x) == {y \in C : x \in Below(list, y)}
             A == {x \in C : x = n \/ n \in Below(list, x)}
             M == {Cardinality(Above(x)) : x \in A}
  <2>3. \A x \in C : IsFiniteSet(Above(x)) /\ Cardinality(Above(x)) \in Nat
    <3>1. \A x \in C : Above(x) \in SUBSET S
      BY <2>2
    <3> HIDE DEF Above
    <3>2. QED
      BY <1>1, <3>1, FS_Subset, FS_CardinalityType
  <2>4. M \in SUBSET Nat /\ M # {}
    BY <2>1, <2>3
  <2>5. PICK least \in M : \A k \in M : least <= k
    <3> HIDE DEF M
    <3>1. QED
      BY <2>4, LeastOf
  <2>6. PICK x \in A : \A y \in A : Cardinality(Above(x)) <= Cardinality(Above(y))
    BY <2>5, ZenonT(60)
  <2>7. PICK p \in C : Mentions(list, p, x)
    BY <2>2, <2>6
  <2>8. x \in Below(list, p)
    BY <1>1, <2>2, <2>6, <2>7, BelowFacts
  <2>9. n \in Below(list, p) /\ p \in A
    <3>1. Below(list, x) \subseteq Below(list, p)
      BY <2>8, BelowTrans
    <3>2. QED
      BY <2>6, <2>7, <2>8, <3>1
  <2>10. Above(p) \subseteq Above(x)
    <3> SUFFICES ASSUME NEW y \in C, p \in Below(list, y) PROVE x \in Below(list, y)
      OBVIOUS
    <3>1. Below(list, p) \subseteq Below(list, y)
      BY BelowTrans
    <3>2. QED
      BY <2>8, <3>1
  <2>11. p \in Above(x)
    BY <2>7, <2>8
  <2>12. Above(p) = Above(x)
    <3>1. x \in C /\ Cardinality(Above(x)) <= Cardinality(Above(p))
      BY <2>6, <2>9
    <3> HIDE DEF Above
    <3>2. Cardinality(Above(p)) <= Cardinality(Above(x))
      BY <2>3, <2>10, <3>1, FS_Subset
    <3>3. Cardinality(Above(p)) = Cardinality(Above(x))
      BY <2>3, <2>7, <3>1, <3>2
    <3>4. QED
      BY <2>3, <2>10, <3>1, <3>3, FS_Subset
  <2>13. p \in Below(list, p)
    BY <2>11, <2>12
  <2>14. QED
    BY <2>1, <2>2, <2>7, <2>9, <2>13
<1>4. QED
  BY <1>1, <1>2, <1>3

\* The sequences that Descend adds to its Set are well defined.
WithKid(kids, td, s, i) == s \o <<kids[i]>> \o td[kids[i]]

AreAdded(kids, td, n, f) ==
    f = [i \in 0..n |-> IF i = 0 THEN <<>> ELSE WithKid(kids, td, f[i - 1], i)]

\* The recursion behind Descend has a solution.
LEMMA AddedExist ==
    ASSUME NEW kids, NEW td, NEW n \in Nat
    PROVE  \E f : AreAdded(kids, td, n, f)
<1> USE DEF AreAdded
<1> DEFINE Next1(f, i) == WithKid(kids, td, f[i - 1], i)
           M == {k \in Nat : ~ \E f : f = [i \in 0..k |-> IF i = 0 THEN <<>> ELSE Next1(f, i)]}
<1> SUFFICES ASSUME M # {} PROVE FALSE
  OBVIOUS
<1>1. PICK m \in M : \A k \in M : m <= k
  BY LeastOf
<1>2. m # 0
  <2>1. PICK f : f = [i \in 0..0 |-> <<>>]
    OBVIOUS
  <2>2. f = [i \in 0..0 |-> IF i = 0 THEN <<>> ELSE Next1(f, i)]
    BY <2>1
  <2>3. QED
    BY <2>2
<1>3. m \in Nat /\ m - 1 \in Nat /\ m - 1 \notin M
  <2>1. m \in Nat
    BY <1>1
  <2>2. m - 1 \in Nat /\ ~(m <= m - 1)
    BY <1>2, <2>1
  <2> HIDE DEF M
  <2>3. QED
    BY <1>1, <2>1, <2>2
<1>4. PICK f : f = [i \in 0..(m - 1) |-> IF i = 0 THEN <<>> ELSE Next1(f, i)]
  BY <1>3
<1>5. PICK h : h = [i \in 0..m |-> IF i = m THEN Next1(f, m) ELSE f[i]]
  OBVIOUS
<1>6. \A i \in 0..(m - 1) : h[i] = f[i] /\ f[i] = IF i = 0 THEN <<>> ELSE Next1(f, i)
  BY <1>3, <1>4, <1>5
<1>7. \A i \in 0..m : h[i] = IF i = 0 THEN <<>> ELSE Next1(h, i)
  <2> SUFFICES ASSUME NEW i \in 0..m PROVE h[i] = IF i = 0 THEN <<>> ELSE Next1(h, i)
    OBVIOUS
  <2>1. CASE i = m
    <3>1. h[m] = Next1(f, m) /\ h[m - 1] = f[m - 1]
      BY <1>3, <1>5, <1>6
    <3>2. QED
      BY <1>2, <2>1, <3>1
  <2>2. CASE i # m /\ i # 0
    <3>1. i \in 0..(m - 1) /\ i - 1 \in 0..(m - 1)
      BY <1>3, <2>2
    <3>2. QED
      BY <1>6, <2>2, <3>1
  <2>3. CASE i = 0
    <3>1. 0 \in 0..(m - 1)
      BY <1>3
    <3>2. QED
      BY <1>6, <2>3, <3>1
  <2>4. QED
    BY <2>1, <2>2, <2>3
<1>8. h = [i \in 0..m |-> IF i = 0 THEN <<>> ELSE Next1(h, i)]
  BY <1>5, <1>7
<1>9. QED
  BY <1>1, <1>8

\* The elements of s \o <<c>> \o t.
LEMMA ThreeParts ==
    ASSUME NEW S, NEW s \in Seq(S), NEW c \in S, NEW t \in Seq(S)
    PROVE  /\ s \o <<c>> \o t \in Seq(S)
           /\ ToSet(s \o <<c>> \o t) = ToSet(s) \cup {c} \cup ToSet(t)
<1>1. PICK u : u = s \o <<c>>
  OBVIOUS
<1>2. u = Append(s, c) /\ u \in Seq(S)
  BY <1>1
<1>3. ToSet(u) = ToSet(s) \cup {c}
  BY <1>2, Appended
<1>4. u \o t \in Seq(S) /\ ToSet(u \o t) = ToSet(u) \cup ToSet(t)
  BY <1>2, Joined, ZenonT(60)
<1>5. QED
  BY <1>1, <1>3, <1>4

\* The Set of a node has its children and what theirs have.
FromKids(kids, td, k) == UNION {{kids[i]} \cup ToSet(td[kids[i]]) : i \in 1..k}

\* Membership in FromKids.
LEMMA FromKidsIs ==
    ASSUME NEW kids, NEW td, NEW k, NEW x
    PROVE  x \in FromKids(kids, td, k) <=> \E i \in 1..k : x = kids[i] \/ x \in ToSet(td[kids[i]])
BY DEF FromKids

\* What the inner loops have added after k dependents.
LEMMA AddedFacts ==
    ASSUME NEW S, NEW kids \in Seq(S), NEW td \in [S -> Seq(S)],
           NEW f, AreAdded(kids, td, Len(kids), f), NEW k \in 0..Len(kids)
    PROVE  f[k] \in Seq(S) /\ ToSet(f[k]) = FromKids(kids, td, k)
<1>1. PICK n \in Nat : n = Len(kids) /\ DOMAIN kids = 1..n
  OBVIOUS
<1>2. \A i \in 0..n : f[i] = IF i = 0 THEN <<>> ELSE WithKid(kids, td, f[i - 1], i)
  BY <1>1 DEF AreAdded
<1> DEFINE Good(i) == /\ f[i] \in Seq(S)
                      /\ \A x : x \in ToSet(f[i]) <=>
                            \E h \in 1..i : x = kids[h] \/ x \in ToSet(td[kids[h]])
           M == {i \in 0..n : ~Good(i)}
<1>0. \A i \in 0..n : Good(i) => f[i] \in Seq(S) /\ ToSet(f[i]) = FromKids(kids, td, i)
  <2> SUFFICES ASSUME NEW i \in 0..n, Good(i) PROVE f[i] \in Seq(S) /\ ToSet(f[i]) = FromKids(kids, td, i)
    OBVIOUS
  <2>1. \A x : x \in FromKids(kids, td, i) <=> \E h \in 1..i : x = kids[h] \/ x \in ToSet(td[kids[h]])
    BY FromKidsIs
  <2>2. \A x : x \in ToSet(f[i]) <=> x \in FromKids(kids, td, i)
    BY <2>1
  <2>3. QED
    BY <2>2
<1> SUFFICES ASSUME M # {} PROVE FALSE
  BY <1>0, <1>1
<1>3. PICK m \in M : \A i \in M : m <= i
  <2>1. M \in SUBSET Nat
    BY <1>1
  <2> HIDE DEF M
  <2>2. QED
    BY <2>1, LeastOf
<1>4. m \in 0..n /\ ~Good(m)
  BY <1>3
<1>5. Good(0)
  <2>1. f[0] = <<>>
    BY <1>1, <1>2
  <2>2. <<>> \in Seq(S) /\ ToSet(<<>>) = {} /\ 1..0 = {}
    BY DEF ToSet
  <2>3. QED
    BY <2>1, <2>2
<1>6. m # 0
  BY <1>4, <1>5
<1>7. m \in 1..n /\ m - 1 \in 0..n /\ m - 1 \notin M
  <2>1. m \in 1..n /\ m - 1 \in 0..n /\ ~(m <= m - 1)
    BY <1>1, <1>4, <1>6
  <2> HIDE DEF M
  <2>2. QED
    BY <1>3, <2>1
<1>8. Good(m - 1)
  BY <1>7
<1>9. PICK s, c, t : s = f[m - 1] /\ c = kids[m] /\ t = td[kids[m]]
  OBVIOUS
<1>10. s \in Seq(S) /\ c \in S /\ t \in Seq(S)
  BY <1>1, <1>7, <1>8, <1>9
<1>11. f[m] = s \o <<c>> \o t
  BY <1>2, <1>4, <1>6, <1>9 DEF WithKid
<1>12. f[m] \in Seq(S) /\ ToSet(f[m]) = ToSet(s) \cup {c} \cup ToSet(t)
  BY <1>10, <1>11, ThreeParts
<1>13. \A x : x \in ToSet(s) <=> \E h \in 1..(m - 1) : x = kids[h] \/ x \in ToSet(td[kids[h]])
  BY <1>8, <1>9
<1>14. m \in 1..m /\ \A h \in 1..m : h = m \/ h \in 1..(m - 1)
  BY <1>1, <1>7
<1>15. \A h \in 1..(m - 1) : h \in 1..m
  BY <1>1, <1>7
<1>16. \A x : x \in ToSet(f[m]) <=> \E h \in 1..m : x = kids[h] \/ x \in ToSet(td[kids[h]])
  <2> SUFFICES ASSUME NEW x
               PROVE  x \in ToSet(f[m]) <=> \E h \in 1..m : x = kids[h] \/ x \in ToSet(td[kids[h]])
    OBVIOUS
  <2>1. x \in ToSet(f[m]) <=> x \in ToSet(s) \/ x = kids[m] \/ x \in ToSet(td[kids[m]])
    BY <1>9, <1>12
  <2>2. QED
    BY <1>13, <1>14, <1>15, <2>1
<1>17. QED
  BY <1>4, <1>12, <1>16

FromGraph(g, td, node) == UNION {{c} \cup ToSet(td[c]) : c \in ToSet(g[node])}

\* Membership in FromGraph.
LEMMA FromGraphIs ==
    ASSUME NEW g, NEW td, NEW node, NEW x
    PROVE  x \in FromGraph(g, td, node) <=> \E c \in ToSet(g[node]) : x = c \/ x \in ToSet(td[c])
BY DEF FromGraph

\* The graphs and the tables of descendants over S.
Tables(S) == [S -> Seq(S)]

\* One node of the walk: its own entry is computed and no other changes.
LEMMA DescendFacts ==
    ASSUME NEW S, NEW g \in Tables(S), NEW td \in Tables(S), NEW node \in S
    PROVE  /\ Descend(g, td, node) \in Tables(S)
           /\ \A m \in S : m # node => Descend(g, td, node)[m] = td[m]
           /\ NoRepeats(Descend(g, td, node)[node])
           /\ ToSet(Descend(g, td, node)[node]) = FromGraph(g, td, node)
<1> USE DEF Tables
<1>1. PICK kids : kids = g[node] /\ kids \in Seq(S)
  OBVIOUS
<1>2. Len(kids) \in Nat /\ DOMAIN kids = 1..Len(kids) /\ Len(kids) \in 0..Len(kids)
  BY <1>1
<1>3. PICK added : added = CHOOSE f : AreAdded(kids, td, Len(kids), f)
  OBVIOUS
<1>4. AreAdded(kids, td, Len(kids), added)
  BY <1>2, <1>3, AddedExist
<1>5. Descend(g, td, node) = [td EXCEPT ![node] = Unique(added[Len(kids)])]
  BY <1>1, <1>3 DEF Descend, AreAdded, WithKid
<1>6. /\ added[Len(kids)] \in Seq(S)
      /\ \A x : x \in ToSet(added[Len(kids)]) <=>
            \E i \in 1..Len(kids) : x = kids[i] \/ x \in ToSet(td[kids[i]])
  <2>1. PICK k \in 0..Len(kids) : k = Len(kids)
    BY <1>2
  <2>2. added[k] \in Seq(S) /\ ToSet(added[k]) = FromKids(kids, td, k)
    <3>1. kids \in Seq(S) /\ td \in [S -> Seq(S)]
      BY <1>1
    <3> HIDE DEF Tables
    <3>2. QED
      BY <1>4, <3>1, AddedFacts
  <2>3. \A x : x \in FromKids(kids, td, k) <=> \E i \in 1..k : x = kids[i] \/ x \in ToSet(td[kids[i]])
    BY FromKidsIs
  <2>4. QED
    BY <2>1, <2>2, <2>3, SMTT(40)
<1>7. PICK u : u = Unique(added[Len(kids)])
  OBVIOUS
<1>8. u \in Seq(S) /\ NoRepeats(u) /\ ToSet(u) = ToSet(added[Len(kids)])
  BY <1>6, <1>7, UniqueFacts
<1>9. \A x : x \in ToSet(u) <=> \E c \in ToSet(kids) : x = c \/ x \in ToSet(td[c])
  <2>1. \A x : (\E c \in ToSet(kids) : x = c \/ x \in ToSet(td[c])) <=>
               \E i \in 1..Len(kids) : x = kids[i] \/ x \in ToSet(td[kids[i]])
    BY <1>2 DEF ToSet
  <2>2. QED
    BY <1>6, <1>8, <2>1
<1>10. ToSet(u) = FromGraph(g, td, node)
  <2>1. \A x : x \in FromGraph(g, td, node) <=> \E c \in ToSet(kids) : x = c \/ x \in ToSet(td[c])
    BY <1>1, FromGraphIs
  <2>2. \A x : x \in ToSet(u) <=> x \in FromGraph(g, td, node)
    BY <1>9, <2>1
  <2>3. QED
    BY <2>2
<1>11. PICK new : new = Descend(g, td, node) /\ new = [td EXCEPT ![node] = u]
  BY <1>5, <1>7
<1>12. new \in [S -> Seq(S)] /\ new[node] = u /\ \A m \in S : m # node => new[m] = td[m]
  BY <1>8, <1>11
<1>13. QED
  BY <1>8, <1>10, <1>11, <1>12

\* The walk over the order is well defined.
AreWalked(g, order, none, n, f) ==
    f = [k \in 0..n |-> IF k = 0 THEN none ELSE Descend(g, f[k - 1], order[Len(order) + 1 - k])]

\* The recursion behind transitiveDescendants has a solution.
LEMMA WalkExists ==
    ASSUME NEW g, NEW order, NEW none, NEW n \in Nat
    PROVE  \E f : AreWalked(g, order, none, n, f)
<1> USE DEF AreWalked
<1> DEFINE Next1(f, k) == Descend(g, f[k - 1], order[Len(order) + 1 - k])
           M == {i \in Nat : ~ \E f : f = [k \in 0..i |-> IF k = 0 THEN none ELSE Next1(f, k)]}
<1> SUFFICES ASSUME M # {} PROVE FALSE
  OBVIOUS
<1>1. PICK m \in M : \A k \in M : m <= k
  BY LeastOf
<1>2. m # 0
  <2>1. PICK f : f = [k \in 0..0 |-> none]
    OBVIOUS
  <2>2. f = [k \in 0..0 |-> IF k = 0 THEN none ELSE Next1(f, k)]
    BY <2>1
  <2>3. QED
    BY <2>2
<1>3. m \in Nat /\ m - 1 \in Nat /\ m - 1 \notin M
  <2>1. m \in Nat
    BY <1>1
  <2>2. m - 1 \in Nat /\ ~(m <= m - 1)
    BY <1>2, <2>1
  <2> HIDE DEF M
  <2>3. QED
    BY <1>1, <2>1, <2>2
<1>4. PICK f : f = [k \in 0..(m - 1) |-> IF k = 0 THEN none ELSE Next1(f, k)]
  BY <1>3
<1>5. PICK h : h = [k \in 0..m |-> IF k = m THEN Next1(f, m) ELSE f[k]]
  OBVIOUS
<1>6. \A k \in 0..(m - 1) : h[k] = f[k] /\ f[k] = IF k = 0 THEN none ELSE Next1(f, k)
  BY <1>3, <1>4, <1>5
<1>7. \A k \in 0..m : h[k] = IF k = 0 THEN none ELSE Next1(h, k)
  <2> SUFFICES ASSUME NEW k \in 0..m PROVE h[k] = IF k = 0 THEN none ELSE Next1(h, k)
    OBVIOUS
  <2>1. CASE k = m
    <3>1. h[m] = Next1(f, m) /\ h[m - 1] = f[m - 1]
      BY <1>3, <1>5, <1>6
    <3>2. QED
      BY <1>2, <2>1, <3>1
  <2>2. CASE k # m /\ k # 0
    <3>1. k \in 0..(m - 1) /\ k - 1 \in 0..(m - 1)
      BY <1>3, <2>2
    <3>2. QED
      BY <1>6, <2>2, <3>1
  <2>3. CASE k = 0
    <3>1. 0 \in 0..(m - 1)
      BY <1>3
    <3>2. QED
      BY <1>6, <2>3, <3>1
  <2>4. QED
    BY <2>1, <2>2, <2>3
<1>8. h = [k \in 0..m |-> IF k = 0 THEN none ELSE Next1(h, k)]
  BY <1>5, <1>7
<1>9. QED
  BY <1>1, <1>8

\* The walk is done right from position a of the order on.
DoneFrom(list, order, a, td) ==
    \A j \in DOMAIN order : j >= a =>
        NoRepeats(td[order[j]]) /\ ToSet(td[order[j]]) = Below(list, order[j])

\* The walk carries right entries from the end of the order to one place before.
LEMMA DescendStep ==
    ASSUME NEW list \in Seq(Variables), NEW order, order = topologicalOrder(list),
           ~IsCyclic(list), NEW a \in DOMAIN order,
           NEW td \in [NamesIn(list) -> Seq(NamesIn(list))], DoneFrom(list, order, a + 1, td),
           NEW new, new = Descend(buildDependencies(list), td, order[a])
    PROVE  new \in [NamesIn(list) -> Seq(NamesIn(list))] /\ DoneFrom(list, order, a, new)
<1>1. PICK S, g : S = NamesIn(list) /\ g = buildDependencies(list)
  OBVIOUS
<1>2. g \in [S -> Seq(S)] /\ \A p, n \in S : n \in ToSet(g[p]) <=> Mentions(list, p, n)
  BY <1>1, GraphFacts
<1>3. /\ order \in Seq(S) /\ NoRepeats(order) /\ ToSet(order) = S \ Stuck(list)
      /\ \A j \in DOMAIN order, p \in S : Mentions(list, p, order[j]) => \E i \in 1..(j - 1) : order[i] = p
  BY <1>1, OrderFacts, ZenonT(60)
<1>4. ToSet(order) = S
  BY <1>3 DEF IsCyclic, Stuck
<1>5. PICK node : node = order[a] /\ node \in S
  BY <1>3
<1>6. /\ new \in [S -> Seq(S)]
      /\ \A m \in S : m # node => new[m] = td[m]
      /\ NoRepeats(new[node])
      /\ ToSet(new[node]) = FromGraph(g, td, node)
  <2>1. /\ g \in [S -> Seq(S)] /\ td \in [S -> Seq(S)] /\ node \in S
        /\ new = Descend(g, td, node)
    BY <1>1, <1>2, <1>5
  <2>2. g \in Tables(S) /\ td \in Tables(S) /\ node \in S
    BY <2>1 DEF Tables
  <2>3. /\ Descend(g, td, node) \in Tables(S)
        /\ \A m \in S : m # node => Descend(g, td, node)[m] = td[m]
        /\ NoRepeats(Descend(g, td, node)[node])
        /\ ToSet(Descend(g, td, node)[node]) = FromGraph(g, td, node)
    BY <2>2, DescendFacts
  <2>4. QED
    BY <2>1, <2>3 DEF Tables
<1>7. \A x : x \in ToSet(new[node]) <=> \E c \in ToSet(g[node]) : x = c \/ x \in ToSet(td[c])
  <2>1. \A x : x \in FromGraph(g, td, node) <=> \E c \in ToSet(g[node]) : x = c \/ x \in ToSet(td[c])
    BY FromGraphIs
  <2>2. QED
    BY <1>6, <2>1
<1>8. DOMAIN order = 1..Len(order) /\ Len(order) \in Nat /\ a \in Nat
  BY <1>3
<1>9. \A c \in S : Mentions(list, node, c) => ToSet(td[c]) = Below(list, c)
  <2> SUFFICES ASSUME NEW c \in S, Mentions(list, node, c) PROVE ToSet(td[c]) = Below(list, c)
    OBVIOUS
  <2>1. PICK j \in DOMAIN order : order[j] = c
    BY <1>4 DEF ToSet
  <2>2. PICK i \in 1..(j - 1) : order[i] = node
    BY <1>3, <1>5, <2>1
  <2>3. i \in DOMAIN order /\ i < j
    BY <1>8, <2>1, <2>2
  <2>4. i = a
    BY <1>3, <1>5, <2>2, <2>3 DEF NoRepeats
  <2>5. j >= a + 1
    BY <1>8, <2>1, <2>3, <2>4
  <2>6. QED
    BY <2>1, <2>5 DEF DoneFrom
<1>10. \A x : x \in ToSet(new[node]) <=> x \in Below(list, node)
  <2> SUFFICES ASSUME NEW x PROVE x \in ToSet(new[node]) <=> x \in Below(list, node)
    OBVIOUS
  <2>1. ToSet(new[node]) \subseteq S /\ Below(list, node) \subseteq S
    BY <1>1, <1>5, <1>6, OwnElements, BelowFacts
  <2>2. ToSet(g[node]) \subseteq S
    BY <1>2, <1>5, OwnElements
  <2>3. x \in ToSet(new[node]) <=>
           \E c \in S : Mentions(list, node, c) /\ (x = c \/ x \in Below(list, c))
    <3>1. \A c \in S : c \in ToSet(g[node]) <=> Mentions(list, node, c)
      BY <1>2, <1>5
    <3>2. x \in ToSet(new[node]) <=> \E c \in ToSet(g[node]) : x = c \/ x \in ToSet(td[c])
      BY <1>7
    <3>3. x \in ToSet(new[node]) <=> \E c \in S : c \in ToSet(g[node]) /\ (x = c \/ x \in ToSet(td[c]))
      BY <2>2, <3>2
    <3>4. QED
      BY <1>9, <3>1, <3>3
  <2>4. x \in S => (x \in Below(list, node) <=>
           \E c \in S : Mentions(list, node, c) /\ (x = c \/ x \in Below(list, c)))
    BY <1>1, BelowUnfolds
  <2>5. QED
    BY <2>1, <2>3, <2>4
<1>11. ToSet(new[node]) = Below(list, node)
  BY <1>10
<1>12. ASSUME NEW j \in DOMAIN order, j >= a
       PROVE  NoRepeats(new[order[j]]) /\ ToSet(new[order[j]]) = Below(list, order[j])
  <2>1. CASE order[j] = node
    BY <1>6, <1>11, <2>1
  <2>2. CASE order[j] # node
    <3>1. j >= a + 1
      BY <1>5, <1>8, <1>12, <2>2
    <3>2. new[order[j]] = td[order[j]]
      BY <1>3, <1>6, <2>2
    <3>3. QED
      BY <3>1, <3>2 DEF DoneFrom
  <2>3. QED
    BY <2>1, <2>2
<1>13. QED
  BY <1>1, <1>6, <1>12 DEF DoneFrom

\* The descendants of every variable are those that depend on it.
LEMMA DescendantFacts ==
    ASSUME NEW list \in Seq(Variables), ~IsCyclic(list), NEW n \in NamesIn(list)
    PROVE  LET desc == transitiveDescendants(list)
           IN  /\ desc[n] \in Seq(NamesIn(list))
               /\ ToSet(desc[n]) = Below(list, n) /\ Len(desc[n]) = Cardinality(ToSet(desc[n]))
<1>1. PICK S, g, order, none : /\ S = NamesIn(list) /\ g = buildDependencies(list)
                               /\ order = topologicalOrder(list) /\ none = [m \in S |-> <<>>]
  OBVIOUS
<1>2. order \in Seq(S) /\ ToSet(order) = S \ Stuck(list)
  BY <1>1, OrderFacts
<1>3. ToSet(order) = S
  BY <1>2 DEF IsCyclic, Stuck
<1>4. PICK L \in Nat : L = Len(order) /\ DOMAIN order = 1..L
  BY <1>2
<1>5. PICK walk : walk = CHOOSE f : AreWalked(g, order, none, L, f)
  OBVIOUS
<1>6. transitiveDescendants(list) = walk[L]
  BY <1>1, <1>4, <1>5 DEF transitiveDescendants, AreWalked
<1>7. AreWalked(g, order, none, L, walk)
  BY <1>5, WalkExists
<1>8. \A k \in 0..L : walk[k] = IF k = 0 THEN none ELSE Descend(g, walk[k - 1], order[L + 1 - k])
  BY <1>4, <1>7 DEF AreWalked
<1> DEFINE Good(k) == walk[k] \in [S -> Seq(S)] /\ DoneFrom(list, order, L + 1 - k, walk[k])
           M == {k \in 0..L : ~Good(k)}
<1>9. M = {}
  <2> SUFFICES ASSUME M # {} PROVE FALSE
    OBVIOUS
  <2>1. PICK m \in M : \A i \in M : m <= i
    <3>1. M \in SUBSET Nat
      OBVIOUS
    <3> HIDE DEF M
    <3>2. QED
      BY <3>1, LeastOf
  <2>2. m \in 0..L /\ ~Good(m)
    BY <2>1
  <2>3. Good(0)
    <3>1. walk[0] = none
      BY <1>8
    <3>2. none \in [S -> Seq(S)]
      BY <1>1
    <3>3. \A j \in DOMAIN order : ~(j >= L + 1)
      BY <1>4
    <3>4. QED
      BY <3>1, <3>2, <3>3 DEF DoneFrom
  <2>4. m # 0
    BY <2>2, <2>3
  <2>5. m \in 1..L /\ m - 1 \in 0..L /\ m - 1 \notin M
    <3>1. m \in 1..L /\ m - 1 \in 0..L /\ ~(m <= m - 1)
      BY <2>2, <2>4
    <3> HIDE DEF M
    <3>2. QED
      BY <2>1, <3>1
  <2>6. Good(m - 1)
    BY <2>5
  <2>7. PICK a, td, new : a = L + 1 - m /\ td = walk[m - 1] /\ new = walk[m]
    OBVIOUS
  <2>8. a \in DOMAIN order /\ L + 1 - (m - 1) = a + 1
    BY <1>4, <2>5, <2>7
  <2>9. td \in [S -> Seq(S)] /\ DoneFrom(list, order, a + 1, td)
    BY <2>6, <2>7, <2>8
  <2>10. new = Descend(g, td, order[a])
    BY <1>8, <2>2, <2>4, <2>7
  <2>11. new \in [S -> Seq(S)] /\ DoneFrom(list, order, a, new)
    BY <1>1, <2>8, <2>9, <2>10, DescendStep
  <2>12. QED
    BY <2>2, <2>7, <2>11
<1>10. Good(L)
  BY <1>9
<1>11. PICK j \in DOMAIN order : order[j] = n
  BY <1>1, <1>3 DEF ToSet
<1>12. PICK s : s = walk[L][n]
  OBVIOUS
<1>13. s \in Seq(S) /\ NoRepeats(s) /\ ToSet(s) = Below(list, n)
  <2>1. j >= L + 1 - L
    BY <1>4, <1>11
  <2>2. QED
    BY <1>1, <1>10, <1>11, <1>12, <2>1 DEF DoneFrom
<1>14. Len(s) = Cardinality(ToSet(s))
  BY <1>13, LenIsCount
<1>15. QED
  BY <1>1, <1>6, <1>12, <1>13, <1>14

------------------------------------------------------------------------------
(* The settings page.                                                        *)

\* A cycle of a list is one of every list that has its elements.
LEMMA CycleInPart ==
    ASSUME NEW part \in Seq(Variables), NEW list \in Seq(Variables),
           ToSet(part) \subseteq ToSet(list), IsCyclic(part)
    PROVE  IsCyclic(list)
<1>1. \A i \in DOMAIN part : \E j \in DOMAIN list : part[i] = list[j]
  BY DEF ToSet
<1>2. NamesIn(part) \subseteq NamesIn(list)
  BY <1>1 DEF NamesIn
<1>3. \A m, n : Mentions(part, m, n) => Mentions(list, m, n)
  BY <1>1 DEF Mentions
<1>4. PICK C \in MutualReferences(part) : C # {}
  BY DEF IsCyclic
<1>5. C \in MutualReferences(list)
  BY <1>2, <1>3, <1>4 DEF MutualReferences
<1>6. QED
  BY <1>4, <1>5 DEF IsCyclic

\* Removing and moving keep to the elements there are.
LEMMA RemoveFacts ==
    ASSUME NEW S, NEW s \in Seq(S), NEW k \in DOMAIN s
    PROVE  /\ RemoveAt(s, k) \in Seq(S)
           /\ Len(RemoveAt(s, k)) = Len(s) - 1
<1>1. Len(s) \in Nat /\ k \in 1..Len(s) /\ \A i \in 1..Len(s) : s[i] \in S
  OBVIOUS
<1>2. k \in Int /\ k - 1 \in Int /\ k + 1 \in Int /\ Len(s) \in Int /\ 1 \in Int
  BY <1>1
<1>3. (\A i \in 1..(k - 1) : s[i] \in S) /\ (\A i \in (k + 1)..Len(s) : s[i] \in S)
  BY <1>1
<1>4. PICK u : u = SubSeq(s, 1, k - 1)
  OBVIOUS
<1>5. PICK w : w = SubSeq(s, k + 1, Len(s))
  OBVIOUS
<1>6. u \in Seq(S) /\ Len(u) = k - 1
  <2>1. u \in Seq(S) /\ Len(u) = IF 1 <= k - 1 THEN (k - 1) - 1 + 1 ELSE 0
    BY <1>2, <1>3, <1>4, SubSeqProperties
  <2>2. QED
    BY <1>1, <2>1
<1>7. w \in Seq(S) /\ Len(w) = Len(s) - k
  <2>1. w \in Seq(S) /\ Len(w) = IF k + 1 <= Len(s) THEN Len(s) - (k + 1) + 1 ELSE 0
    BY <1>2, <1>3, <1>5, SubSeqProperties
  <2>2. QED
    BY <1>1, <2>1
<1>8. u \o w \in Seq(S) /\ Len(u \o w) = Len(u) + Len(w)
  BY <1>6, <1>7, ConcatProperties
<1>9. RemoveAt(s, k) = u \o w
  BY <1>4, <1>5 DEF RemoveAt
<1>10. QED
  BY <1>1, <1>6, <1>7, <1>8, <1>9, SMTT(40)

\* Inserting into a sequence.
LEMMA InsertFacts ==
    ASSUME NEW S, NEW s \in Seq(S), NEW k \in 1..(Len(s) + 1), NEW e \in S
    PROVE  InsertAt(s, k, e) \in Seq(S)
<1>1. Len(s) \in Nat /\ \A i \in 1..Len(s) : s[i] \in S
  OBVIOUS
<1>2. k \in Int /\ k - 1 \in Int /\ Len(s) \in Int /\ 1 \in Int
  BY <1>1
<1>3. (\A i \in 1..(k - 1) : s[i] \in S) /\ (\A i \in k..Len(s) : s[i] \in S)
  BY <1>1
<1>4. SubSeq(s, 1, k - 1) \in Seq(S)
  BY <1>2, <1>3, SubSeqProperties
<1>5. SubSeq(s, k, Len(s)) \in Seq(S)
  BY <1>2, <1>3, SubSeqProperties
<1>6. <<e>> \in Seq(S)
  OBVIOUS
<1>7. SubSeq(s, 1, k - 1) \o <<e>> \in Seq(S)
  BY <1>4, <1>6, ConcatProperties
<1>8. QED
  BY <1>5, <1>7, ConcatProperties DEF InsertAt

\* The rows after a save are the rows there were and the variable saved.
LEMMA SavedRows ==
    ASSUME NEW v \in Variables, tableData \in Seq(Variables), NEW list,
           \/ list = Append(tableData, v)
           \/ \E i \in DOMAIN tableData : list = [tableData EXCEPT ![i] = v]
    PROVE  list \in Seq(Variables) /\ ToSet(list) \subseteq ToSet(tableData) \cup {v}
<1>1. PICK T : T = ToSet(tableData) \cup {v}
  OBVIOUS
<1>2. PICK n \in Nat : n = Len(tableData) /\ DOMAIN tableData = 1..n
  OBVIOUS
<1>3. \A i \in 1..n : tableData[i] \in T
  BY <1>1, <1>2 DEF ToSet
<1>4. T \subseteq Variables /\ v \in T
  BY <1>1, OwnElements
<1>5. tableData \in [1..n -> T]
  BY <1>2, <1>3
<1>6. ASSUME list = Append(tableData, v) PROVE list \in Seq(T)
  <2>1. tableData \in Seq(T)
    BY <1>5
  <2>2. QED
    BY <1>4, <1>6, <2>1
<1>7. ASSUME NEW i \in DOMAIN tableData, list = [tableData EXCEPT ![i] = v] PROVE list \in Seq(T)
  <2>1. list \in [1..n -> T]
    BY <1>4, <1>5, <1>7
  <2>2. QED
    BY <2>1
<1>8. list \in Seq(T)
  BY <1>6, <1>7
<1>9. list \in Seq(Variables) /\ ToSet(list) \subseteq T
  BY <1>4, <1>8, SeqMonotonic, OwnElements
<1>10. QED
  BY <1>1, <1>9

\* The rows that handleDeleteConfirm sends are among the rows.
LEMMA KeptRows ==
    ASSUME tableData \in Seq(Variables), NEW i \in DOMAIN tableData,
           NEW list, list = RemoveAt(tableData, i)
    PROVE  list \in Seq(Variables) /\ ToSet(list) \subseteq ToSet(tableData)
<1>1. PICK T : T = ToSet(tableData)
  OBVIOUS
<1>2. tableData \in Seq(T) /\ T \subseteq Variables
  BY <1>1, OwnElements
<1>3. list \in Seq(T)
  BY <1>2, RemoveFacts
<1>4. QED
  BY <1>1, <1>2, <1>3, SeqMonotonic, OwnElements

\* The rows after a drag are the rows there were.
LEMMA MovedRows ==
    ASSUME tableData \in Seq(Variables), NEW i \in DOMAIN tableData, NEW j \in DOMAIN tableData,
           NEW list, list = InsertAt(RemoveAt(tableData, i), j, tableData[i])
    PROVE  list \in Seq(Variables) /\ ToSet(list) \subseteq ToSet(tableData)
<1>1. PICK T, n : T = ToSet(tableData) /\ n = Len(tableData)
  OBVIOUS
<1>2. tableData \in Seq(T) /\ T \subseteq Variables
  BY <1>1, OwnElements
<1>3. PICK rest : rest = RemoveAt(tableData, i)
  OBVIOUS
<1>4. rest \in Seq(T) /\ Len(rest) = n - 1
  BY <1>1, <1>2, <1>3, RemoveFacts
<1>5. n \in Nat /\ j \in 1..n /\ tableData[i] \in T
  BY <1>1 DEF ToSet
<1>6. j \in 1..(Len(rest) + 1)
  BY <1>4, <1>5
<1>7. list \in Seq(T)
  BY <1>3, <1>4, <1>5, <1>6, InsertFacts
<1>8. QED
  BY <1>1, <1>2, <1>7, SeqMonotonic, OwnElements

\* What a drag sends is among them.
LEMMA DraggedRows ==
    ASSUME NEW rows \in Seq(Variables)
    PROVE  LastOfEachName(rows) \in Seq(Variables) /\ ToSet(LastOfEachName(rows)) \subseteq ToSet(rows)
<1>1. PICK I : I = {i \in DOMAIN rows : \A j \in DOMAIN rows : j > i => rows[j].name # rows[i].name}
  OBVIOUS
<1>2. I \in SUBSET (DOMAIN rows) /\ LastOfEachName(rows) = PickAt(rows, I)
  BY <1>1 DEF LastOfEachName
<1>3. PickAt(rows, I) \in Seq(Variables) /\ ToSet(PickAt(rows, I)) = {rows[i] : i \in I}
  BY <1>2, PickFacts
<1>4. QED
  BY <1>2, <1>3 DEF ToSet

\* updateVariables adds the list to the updates under way.
LEMMA SentFacts ==
    ASSUME pending \in Seq(Seq(Variables)), NEW list \in Seq(Variables), updateVariables(list)
    PROVE  /\ pending' \in Seq(Seq(Variables))
           /\ \A k \in DOMAIN pending' : k > Len(pending) => pending'[k] = list
<1>1. pending' = Append(pending, list) /\ Len(pending) \in Nat
  BY DEF updateVariables
<1>2. pending' \in Seq(Seq(Variables)) /\ DOMAIN pending' = 1..(Len(pending) + 1)
  BY <1>1
<1>3. pending'[Len(pending) + 1] = list
  BY <1>1
<1>4. \A k \in 1..(Len(pending) + 1) : k > Len(pending) => k = Len(pending) + 1
  BY <1>1
<1>5. QED
  BY <1>2, <1>3, <1>4

\* What an update sends: rows, and after a save the variable that was checked.
Sends(list) ==
    \/ ToSet(list) \subseteq ToSet(tableData)
    \/ \E v \in Variables : /\ ~hasCycle(Checked(v))
                            /\ ToSet(list) \subseteq ToSet(tableData) \cup {v}

\* A step of the page keeps its lists lists of variables, and the updates it adds
\* are of that kind.
LEMMA PageStep ==
    ASSUME ListsOK, [PageNext]_pageVars
    PROVE  /\ ListsOK'
           /\ \A k \in DOMAIN pending' : k > Len(pending) =>
                 pending'[k] \in Seq(Variables) /\ Sends(pending'[k])
<1>0. /\ dashboardVariables \in Seq(Variables) /\ tableData \in Seq(Variables)
      /\ pending \in Seq(Seq(Variables)) /\ Len(pending) \in Nat /\ DOMAIN pending = 1..Len(pending)
  BY DEF ListsOK
<1> DEFINE Goal == /\ ListsOK'
                   /\ \A k \in DOMAIN pending' : k > Len(pending) =>
                         pending'[k] \in Seq(Variables) /\ Sends(pending'[k])
<1>1. ASSUME pending' = pending, dashboardVariables' = dashboardVariables, tableData' = tableData
      PROVE  Goal
  <2>1. ListsOK'
    BY <1>0, <1>1 DEF ListsOK
  <2>2. \A k \in DOMAIN pending' : ~(k > Len(pending))
    BY <1>0, <1>1
  <2>3. QED
    BY <2>1, <2>2
<1>2. ASSUME NEW list \in Seq(Variables), Sends(list), updateVariables(list),
             dashboardVariables' = dashboardVariables, tableData' \in Seq(Variables)
      PROVE  Goal
  <2>1. /\ pending' \in Seq(Seq(Variables))
        /\ \A k \in DOMAIN pending' : k > Len(pending) => pending'[k] = list
    BY <1>0, <1>2, SentFacts
  <2>2. ListsOK'
    BY <1>0, <1>2, <2>1 DEF ListsOK
  <2>3. QED
    BY <1>2, <2>1, <2>2
<1>3. ASSUME NEW k \in DOMAIN pending, pending' = RemoveAt(pending, k),
             \/ dashboardVariables' = dashboardVariables /\ tableData' = tableData
             \/ dashboardVariables' = pending[k] /\ tableData' = pending[k]
      PROVE  Goal
  <2>1. pending' \in Seq(Seq(Variables)) /\ Len(pending') = Len(pending) - 1
    BY <1>0, <1>3, RemoveFacts, ZenonT(60)
  <2>2. pending[k] \in Seq(Variables)
    BY <1>0, <1>3
  <2>3. ListsOK'
    BY <1>0, <1>3, <2>1, <2>2 DEF ListsOK
  <2>4. DOMAIN pending' = 1..(Len(pending) - 1)
    BY <2>1
  <2>5. \A i \in DOMAIN pending' : ~(i > Len(pending))
    BY <1>0, <2>4
  <2>6. QED
    BY <2>3, <2>5, SMTT(40)
<1> HIDE DEF Goal
<1>4. ASSUME UNCHANGED pageVars PROVE Goal
  BY <1>1, <1>4 DEF pageVars
<1>5. ASSUME NEW v \in Variables, RefuseSave(v) PROVE Goal
  BY <1>1, <1>5 DEF RefuseSave
<1>6. ASSUME NEW v \in Variables, NEW list, ~hasCycle(Checked(v)), onVariableSaveHandler(list),
             \/ list = Append(tableData, v)
             \/ \E i \in DOMAIN tableData : list = [tableData EXCEPT ![i] = v]
      PROVE  Goal
  <2>1. list \in Seq(Variables) /\ ToSet(list) \subseteq ToSet(tableData) \cup {v}
    BY <1>0, <1>6, SavedRows
  <2>2. updateVariables(list) /\ dashboardVariables' = dashboardVariables /\ tableData' = list
    BY <1>6 DEF onVariableSaveHandler
  <2>3. Sends(list)
    BY <1>6, <2>1 DEF Sends
  <2>4. QED
    BY <1>2, <2>1, <2>2, <2>3
<1>7. ASSUME NEW i \in DOMAIN tableData, handleDeleteConfirm(i) PROVE Goal
  <2>1. PICK list : list = RemoveAt(tableData, i)
    OBVIOUS
  <2>2. list \in Seq(Variables) /\ ToSet(list) \subseteq ToSet(tableData)
    BY <1>0, <2>1, KeptRows
  <2>3. updateVariables(list) /\ dashboardVariables' = dashboardVariables /\ tableData' = tableData
    BY <1>7, <2>1 DEF handleDeleteConfirm
  <2>4. Sends(list)
    BY <2>2 DEF Sends
  <2>5. QED
    BY <1>0, <1>2, <2>2, <2>3, <2>4
<1>8. ASSUME NEW i \in DOMAIN tableData, NEW j \in DOMAIN tableData, onDragEnd(i, j) PROVE Goal
  <2>1. PICK moved : moved = InsertAt(RemoveAt(tableData, i), j, tableData[i])
    OBVIOUS
  <2>2. moved \in Seq(Variables) /\ ToSet(moved) \subseteq ToSet(tableData)
    BY <1>0, <2>1, MovedRows
  <2>3. PICK list : list = LastOfEachName(moved)
    OBVIOUS
  <2>4. list \in Seq(Variables) /\ ToSet(list) \subseteq ToSet(moved)
    BY <2>2, <2>3, DraggedRows
  <2>5. updateVariables(list) /\ dashboardVariables' = dashboardVariables /\ tableData' = moved
    BY <1>8, <2>1, <2>3 DEF onDragEnd
  <2>6. Sends(list)
    BY <2>2, <2>4 DEF Sends
  <2>7. QED
    BY <1>2, <2>2, <2>4, <2>5, <2>6
<1>9. ASSUME handleApplyToAllConfirm PROVE Goal
  <2>1. updateVariables(tableData) /\ dashboardVariables' = dashboardVariables /\ tableData' = tableData
    BY <1>9 DEF handleApplyToAllConfirm, onVariableSaveHandler
  <2>2. Sends(tableData)
    BY DEF Sends
  <2>3. QED
    BY <1>0, <1>2, <2>1, <2>2
<1>10. ASSUME NEW k \in DOMAIN pending, UpdateAnswered(k) PROVE Goal
  BY <1>3, <1>10 DEF UpdateAnswered, SetDashboard
<1>11. ASSUME NEW k \in DOMAIN pending, UpdateFailed(k) PROVE Goal
  BY <1>3, <1>11 DEF UpdateFailed
<1>12. ASSUME Reload PROVE Goal
  <2>1. pending' = <<>> /\ dashboardVariables' = dashboardVariables /\ tableData' = dashboardVariables
    BY <1>12 DEF Reload, SetDashboard
  <2>2. ListsOK'
    BY <1>0, <2>1 DEF ListsOK
  <2>3. DOMAIN pending' = {}
    BY <2>1
  <2>4. QED
    BY <2>2, <2>3 DEF Goal
<1>13. ASSUME NEW v \in Variables, AddVariable(v) PROVE Goal
  BY <1>6, <1>13 DEF AddVariable
<1>14. ASSUME NEW i \in DOMAIN tableData, NEW v \in Variables, EditVariable(i, v) PROVE Goal
  BY <1>6, <1>14 DEF EditVariable
<1>15. Goal
  BY <1>4, <1>5, <1>7, <1>8, <1>9, <1>10, <1>11, <1>12, <1>13, <1>14 DEF PageNext
<1>16. QED
  BY <1>15 DEF Goal

\* Whatever is done on the settings page, and whichever updates fail, its lists are
\* lists of variables.
LEMMA ListsAreKept == PageSpec => []ListsOK
<1>1. PageInit => ListsOK
  BY DEF PageInit, ListsOK
<1>2. ListsOK /\ [PageNext]_pageVars => ListsOK'
  BY PageStep
<1>3. QED
  BY <1>1, <1>2, PTL DEF PageSpec

\* The check that handleSave makes before a save, hasCycle of buildDependencyGraph,
\* is exact: it refuses the lists with circular references and no other.
THEOREM CycleDetection == PageSpec => []CycleDetectionIsExact
<1>1. ListsOK => CycleDetectionIsExact
  <2> SUFFICES ASSUME ListsOK, NEW v \in Variables
               PROVE  hasCycle(Checked(v)) <=> IsCyclic(Checked(v))
    BY DEF CycleDetectionIsExact
  <2>1. Checked(v) \in Seq(Variables)
    BY DEF Checked, ListsOK
  <2>2. QED
    BY <2>1, CycleCheck
<1>2. QED
  BY <1>1, ListsAreKept, PTL

\* The order of the query variables.
LEMMA OrderOfList ==
    ASSUME ListsOK
    PROVE  OrderIsTopological
<1> SUFFICES LET order == QueryOrder(dashboardVariables)
             IN  /\ ToSet(order) = QueryNames(dashboardVariables) \ Stuck(dashboardVariables)
                 /\ Len(order) = Cardinality(ToSet(order))
                 /\ \A i, j \in DOMAIN order :
                       Mentions(dashboardVariables, order[i], order[j]) => i < j
  BY DEF OrderIsTopological
<1>1. dashboardVariables \in Seq(Variables)
  BY DEF ListsOK
<1>2. QED
  BY <1>1, QueryOrderFacts

\* handleSave and the other handlers of the settings page keep circular references
\* out: from a page whose rows are those of a dashboard without a cycle, no update
\* with a cycle is sent.
THEOREM CyclesAreKeptOut == PageSpec => NoCycleIsSent
<1> DEFINE Safe == tableData = dashboardVariables /\ ~IsCyclic(dashboardVariables)
                      => \A k \in DOMAIN pending' : k > Len(pending) => ~IsCyclic(pending'[k])
<1>1. ListsOK /\ [PageNext]_pageVars => Safe
  <2> SUFFICES ASSUME ListsOK, [PageNext]_pageVars,
                      tableData = dashboardVariables, ~IsCyclic(dashboardVariables),
                      NEW k \in DOMAIN pending', k > Len(pending)
               PROVE  ~IsCyclic(pending'[k])
    OBVIOUS
  <2>1. PICK list : list = pending'[k]
    OBVIOUS
  <2>2. list \in Seq(Variables) /\ Sends(list)
    BY <2>1, PageStep
  <2>3. dashboardVariables \in Seq(Variables)
    BY DEF ListsOK
  <2>4. ASSUME NEW v \in Variables, ~hasCycle(Checked(v)), ToSet(list) \subseteq ToSet(tableData) \cup {v}
        PROVE  ~IsCyclic(list)
    <3>1. Checked(v) \in Seq(Variables) /\ ToSet(Checked(v)) = ToSet(dashboardVariables) \cup {v}
      <4>1. Checked(v) = Append(dashboardVariables, v) /\ Checked(v) \in Seq(Variables)
        BY <2>3 DEF Checked
      <4>2. ToSet(Append(dashboardVariables, v)) = ToSet(dashboardVariables) \cup {v}
        BY <2>3, Appended
      <4>3. QED
        BY <4>1, <4>2
    <3>2. ~IsCyclic(Checked(v))
      BY <2>4, <3>1, CycleCheck
    <3>3. ToSet(list) \subseteq ToSet(Checked(v))
      BY <2>4, <3>1
    <3>4. QED
      BY <2>2, <3>1, <3>2, <3>3, CycleInPart
  <2>5. ASSUME ToSet(list) \subseteq ToSet(tableData) PROVE ~IsCyclic(list)
    BY <2>2, <2>3, <2>5, CycleInPart
  <2>6. ~IsCyclic(list)
    BY <2>2, <2>4, <2>5 DEF Sends
  <2>7. QED
    BY <2>1, <2>6
<1>2. QED
  BY <1>1, ListsAreKept, PTL DEF PageSpec, NoCycleIsSent

\* The outcome of the search for a cycle, cycleNodes in module VariableCycle, is one.
SearchHasOutcome == \A list \in Seq(Variables) : CycleNodes(list) \in Outcomes

\* What buildDependencyGraph and buildDependencyData derive from the dashboard is
\* right in every state of the settings page: the order of the query variables, what
\* it leaves out, and the descendants of each variable, for a dashboard that has one
\* name twice as for any other.
THEOREM DerivedData ==
    ASSUME SearchHasOutcome
    PROVE  PageSpec => []DerivedDataIsRight
<1>1. NoCycle \in Outcomes
  BY DEF NoCycle, Outcomes
<1>2. PageInit => PageTypeOK
  BY <1>1 DEF PageInit, PageTypeOK, ListsOK
<1>3. PageTypeOK /\ [PageNext]_pageVars => PageTypeOK'
  <2> SUFFICES ASSUME PageTypeOK, [PageNext]_pageVars PROVE PageTypeOK'
    OBVIOUS
  <2>1. ListsOK /\ dialog \in Outcomes
    BY DEF PageTypeOK
  <2>2. ListsOK'
    BY <2>1, PageStep
  <2>3. \A list \in Seq(Variables) : SetDashboard(list) => dialog' \in Outcomes
    BY <1>1 DEF SetDashboard, SearchHasOutcome
  <2>4. dashboardVariables \in Seq(Variables) /\ \A k \in DOMAIN pending : pending[k] \in Seq(Variables)
    BY <2>1 DEF ListsOK
  <2>5. dialog' \in Outcomes
    <3>1. CASE UNCHANGED pageVars
      BY <2>1, <3>1 DEF pageVars
    <3>2. ASSUME NEW v \in Variables, RefuseSave(v) PROVE dialog' \in Outcomes
      <4>1. Checked(v) \in Seq(Variables)
        BY <2>4 DEF Checked
      <4>2. QED
        BY <3>2, <4>1 DEF RefuseSave, SearchHasOutcome
    <3>3. ASSUME NEW v \in Variables, AddVariable(v) PROVE dialog' \in Outcomes
      BY <1>1, <3>3 DEF AddVariable, onVariableSaveHandler
    <3>4. ASSUME NEW i \in DOMAIN tableData, handleDeleteConfirm(i) PROVE dialog' \in Outcomes
      BY <1>1, <3>4 DEF handleDeleteConfirm
    <3>5. ASSUME NEW i \in DOMAIN tableData, NEW j \in DOMAIN tableData, onDragEnd(i, j)
          PROVE  dialog' \in Outcomes
      BY <1>1, <3>5 DEF onDragEnd
    <3>6. CASE handleApplyToAllConfirm
      BY <1>1, <3>6 DEF handleApplyToAllConfirm, onVariableSaveHandler
    <3>7. ASSUME NEW k \in DOMAIN pending, UpdateAnswered(k) PROVE dialog' \in Outcomes
      BY <2>3, <2>4, <3>7 DEF UpdateAnswered
    <3>8. ASSUME NEW k \in DOMAIN pending, UpdateFailed(k) PROVE dialog' \in Outcomes
      BY <2>1, <3>8 DEF UpdateFailed
    <3>9. CASE Reload
      BY <2>3, <2>4, <3>9 DEF Reload
    <3>10. ASSUME NEW i \in DOMAIN tableData, NEW v \in Variables, EditVariable(i, v)
           PROVE  dialog' \in Outcomes
      BY <1>1, <3>10 DEF EditVariable, onVariableSaveHandler
    <3>11. QED
      BY <3>1, <3>2, <3>3, <3>4, <3>5, <3>6, <3>7, <3>8, <3>9, <3>10 DEF PageNext
  <2>6. QED
    BY <2>2, <2>5 DEF PageTypeOK
<1>4. PageTypeOK => DerivedDataIsRight
  <2> SUFFICES ASSUME PageTypeOK PROVE DerivedDataIsRight
    OBVIOUS
  <2>1. ListsOK /\ dashboardVariables \in Seq(Variables)
    BY DEF PageTypeOK, ListsOK
  <2>2. OrderIsTopological
    BY <2>1, OrderOfList
  <2>3. StuckIsOnOrBelowACycle
    BY <2>1, StuckFacts DEF StuckIsOnOrBelowACycle
  <2>4. DescendantsAreReachable
    <3> SUFFICES ASSUME ~IsCyclic(dashboardVariables), NEW n \in NamesIn(dashboardVariables)
                 PROVE  LET desc == transitiveDescendants(dashboardVariables)
                        IN  /\ ToSet(desc[n]) = Below(dashboardVariables, n)
                            /\ Len(desc[n]) = Cardinality(ToSet(desc[n]))
      BY DEF DescendantsAreReachable
    <3>1. QED
      BY <2>1, DescendantFacts
  <2>5. QED
    BY <2>2, <2>3, <2>4 DEF DerivedDataIsRight
<1>5. QED
  BY <1>2, <1>3, <1>4, PTL DEF PageSpec

------------------------------------------------------------------------------
(* What computeDerivedValues makes of a list fits the fetch store.           *)

\* The store finds the type of a name in a list with unique names.
LEMMA TypeOfName ==
    ASSUME NEW list \in Seq(Variables), UniqueNames(list), NEW n \in NamesIn(list)
    PROVE  LET v == list[CHOOSE i \in DOMAIN list :
                            list[i].name = n /\ \A j \in DOMAIN list : list[j].name = n => j <= i]
           IN  v.type \in VariableTypes /\ (v.type = "QUERY" <=> n \in QueryNames(list))
<1>1. PICK k : k = CHOOSE i \in DOMAIN list :
                      list[i].name = n /\ \A j \in DOMAIN list : list[j].name = n => j <= i
  OBVIOUS
<1>2. PICK m \in DOMAIN list : list[m].name = n
  BY DEF NamesIn
<1>3. \A i \in DOMAIN list : list[i].name = n => i = m
  BY <1>2 DEF UniqueNames
<1>4. m \in Nat /\ m <= m
  BY <1>2
<1>5. k \in DOMAIN list /\ list[k].name = n
  BY <1>1, <1>2, <1>3, <1>4
<1>6. k = m /\ list[k].type \in VariableTypes
  BY <1>3, <1>5, ListFacts DEF Variables
<1>7. ASSUME list[m].type = "QUERY" PROVE n \in QueryNames(list)
  <2>1. \A i \in 1..(m - 1) : i \in DOMAIN list /\ i # m
    BY <1>2
  <2>2. \A i \in 1..(m - 1) : list[i].name # list[m].name
    BY <1>2, <1>3, <2>1
  <2>3. QED
    BY <1>2, <1>7, <2>2 DEF QueryNames
<1>8. ASSUME n \in QueryNames(list) PROVE list[m].type = "QUERY"
  <2>1. PICK i \in DOMAIN list : list[i].type = "QUERY" /\ n = list[i].name
    BY <1>8 DEF QueryNames
  <2>2. QED
    BY <1>3, <2>1
<1>9. QED
  BY <1>1, <1>6, <1>7, <1>8

\* Only a query variable mentions another.
LEMMA MentioningIsQuery ==
    ASSUME NEW list \in Seq(Variables), UniqueNames(list), NEW m, NEW n, Mentions(list, m, n)
    PROVE  n \in QueryNames(list) /\ n \in NamesIn(list)
<1>1. PICK i \in DOMAIN list : list[i].name = n /\ m \in list[i].refs
  BY DEF Mentions
<1>2. list[i].type = "QUERY"
  BY <1>1, ListFacts DEF Variables
<1>3. \A j \in 1..(i - 1) : j \in DOMAIN list /\ j # i
  BY <1>1
<1>4. \A j \in 1..(i - 1) : list[j].name # list[i].name
  BY <1>1, <1>3 DEF UniqueNames
<1>5. QED
  BY <1>1, <1>2, <1>4 DEF QueryNames, NamesIn

\* A sequence is one over any set that has its elements.
LEMMA SequenceOf ==
    ASSUME NEW S, NEW T, NEW s \in Seq(S), ToSet(s) \subseteq T
    PROVE  s \in Seq(T)
<1>1. Len(s) \in Nat /\ DOMAIN s = 1..Len(s)
  OBVIOUS
<1>2. \A i \in 1..Len(s) : s[i] \in T
  BY <1>1 DEF ToSet
<1>3. QED
  BY <1>1, <1>2

\* The descendants of a variable in a list without a cycle are query variables, its
\* dependents are among them, and it is not.
LEMMA BelowInLayout ==
    ASSUME NEW list \in Seq(Variables), UniqueNames(list), ~IsCyclic(list), NEW n \in NamesIn(list)
    PROVE  /\ Below(list, n) \subseteq QueryNames(list)
           /\ n \notin Below(list, n)
           /\ (\A y \in NamesIn(list) : ~Mentions(list, n, y)) => Below(list, n) = {}
<1>1. Below(list, n) \subseteq QueryNames(list)
  <2> SUFFICES ASSUME NEW x \in Below(list, n) PROVE x \in QueryNames(list)
    OBVIOUS
  <2>1. PICK p : Mentions(list, p, x)
    BY BelowHasParent
  <2>2. QED
    BY <2>1, MentioningIsQuery
<1>2. n \notin Below(list, n)
  <2>1. Stuck(list) = {}
    BY DEF IsCyclic, Stuck
  <2>2. n \in Below(list, n) => n \in Stuck(list)
    BY StuckFacts
  <2>3. QED
    BY <2>1, <2>2
<1>3. ASSUME \A y \in NamesIn(list) : ~Mentions(list, n, y)
      PROVE  Below(list, n) = {}
  <2> SUFFICES ASSUME NEW y \in Below(list, n) PROVE FALSE
    OBVIOUS
  <2>1. y \in NamesIn(list)
    BY BelowFacts
  <2>2. QED
    BY <1>3, <2>1, BelowUnfolds
<1>4. QED
  BY <1>1, <1>2, <1>3

\* What the fetch store takes for granted of a dashboard, BoardAssumption, is what
\* computeDerivedValues delivers for every list of variables without a cycle that has
\* no name twice.  Nothing in the code guarantees either: after a failed update the
\* settings page can store lists of both kinds.
THEOREM LayoutsAreBoards ==
    ASSUME NEW list \in Seq(Variables), UniqueNames(list), ~IsCyclic(list),
           VariableNames \subseteq Names, VariableTypes \subseteq Types,
           NEW b, Layout[b] = computeDerivedValues(list, Names)
    PROVE  IsLayout(b)
<1>1. PICK S, Q, g, td, order, at :
          /\ S = NamesIn(list) /\ Q = QueryNames(list) /\ g = buildDependencies(list)
          /\ td = transitiveDescendants(list) /\ order = QueryOrder(list)
          /\ at = [n \in S |-> list[CHOOSE i \in DOMAIN list :
                list[i].name = n /\ \A j \in DOMAIN list : list[j].name = n => j <= i]]
  OBVIOUS
<1>2. /\ Layout[b].vars = S
      /\ Layout[b].type = [n \in Names |-> IF n \in S THEN at[n].type ELSE "OTHER"]
      /\ Layout[b].kids = [n \in Names |-> IF n \in S THEN ToSet(g[n]) ELSE {}]
      /\ Layout[b].desc = [n \in Names |-> IF n \in S THEN td[n] ELSE <<>>]
      /\ Layout[b].order = order
  BY <1>1 DEF computeDerivedValues
<1>3. S \subseteq Names
  BY <1>1, ListFacts DEF NamesIn, Variables
<1>4. ASSUME NEW n \in S
      PROVE  at[n].type \in Types /\ (at[n].type = "QUERY" <=> n \in Q)
  <2>1. n \in NamesIn(list)
    BY <1>1
  <2>2. PICK v : v = list[CHOOSE i \in DOMAIN list :
                    list[i].name = n /\ \A j \in DOMAIN list : list[j].name = n => j <= i]
    OBVIOUS
  <2>3. v.type \in VariableTypes /\ (v.type = "QUERY" <=> n \in QueryNames(list))
    BY <2>1, <2>2, TypeOfName, ZenonT(60)
  <2>4. at[n] = v
    BY <1>1, <2>2
  <2>5. QED
    BY <1>1, <2>3, <2>4
<1>5. Q \subseteq S
  BY <1>1 DEF QueryNames, NamesIn
<1>6. Vars(b) = S /\ Queries(b) = Q
  <2>1. Vars(b) = S
    BY <1>2 DEF Vars
  <2>2. \A n \in S : Type(b, n) = at[n].type
    BY <1>2, <1>3 DEF Type
  <2>3. QED
    BY <1>4, <1>5, <2>1, <2>2 DEF Queries
<1>7. \A n \in Names : Type(b, n) \in Types
  BY <1>2, <1>4 DEF Type, Types
<1>8. \A n \in S : Kids(b, n) = ToSet(g[n]) /\ Desc(b, n) = td[n]
  BY <1>2, <1>3 DEF Kids, Desc
<1>9. \A n \in Names \ S : Kids(b, n) = {} /\ Desc(b, n) = <<>>
  BY <1>2 DEF Kids, Desc
<1>10. g \in [S -> Seq(S)] /\ \A p, n \in S : n \in ToSet(g[p]) <=> Mentions(list, p, n)
  BY <1>1, GraphFacts
<1>11. \A n \in S : \A y \in Kids(b, n) : y \in S /\ Mentions(list, n, y)
  <2>1. \A n \in S : g[n] \in Seq(S)
    BY <1>10
  <2>2. \A n \in S : ToSet(g[n]) \subseteq S
    BY <2>1 DEF ToSet
  <2>3. QED
    BY <1>8, <1>10, <2>2
<1>12. \A n, y \in S : Mentions(list, n, y) => y \in Kids(b, n)
  BY <1>8, <1>10
<1>13. \A n \in S : Kids(b, n) \subseteq Q
  BY <1>1, <1>11, MentioningIsQuery
<1>14. \A n \in S : td[n] \in Seq(S) /\ ToSet(td[n]) = Below(list, n)
  BY <1>1, DescendantFacts
<1>15. \A n \in S : Descendants(b, n) = Below(list, n)
  BY <1>8, <1>14 DEF Descendants, ToSet
<1>16. \A n \in S : Below(list, n) \subseteq Q /\ n \notin Below(list, n)
  BY <1>1, BelowInLayout
<1>17. ASSUME NEW v \in Names
       PROVE  /\ Kids(b, v) \subseteq Q
              /\ Desc(b, v) \in Seq(Q)
              /\ Kids(b, v) \subseteq Descendants(b, v)
              /\ Kids(b, v) = {} => Desc(b, v) = <<>>
              /\ v \notin Descendants(b, v)
              /\ \A d \in Descendants(b, v) : Kids(b, d) \subseteq Descendants(b, v)
  <2>1. CASE v \notin S
    <3>1. Kids(b, v) = {} /\ Desc(b, v) = <<>>
      BY <1>9, <2>1
    <3>2. Descendants(b, v) = {}
      BY <3>1 DEF Descendants
    <3>3. QED
      BY <3>1, <3>2
  <2>2. CASE v \in S
    <3>1. Kids(b, v) \subseteq Q
      BY <1>13, <2>2
    <3>2. Desc(b, v) \in Seq(Q)
      <4>1. td[v] \in Seq(S) /\ ToSet(td[v]) \subseteq Q
        BY <1>14, <1>16, <2>2
      <4>2. td[v] \in Seq(Q)
        BY <4>1, SequenceOf
      <4>3. QED
        BY <1>8, <2>2, <4>2
    <3>3. \A y \in S : Mentions(list, v, y) \/ (\E x \in Below(list, v) : Mentions(list, x, y))
                          => y \in Below(list, v)
      BY <1>1, BelowFacts
    <3>4. Kids(b, v) \subseteq Descendants(b, v)
      BY <1>11, <1>15, <2>2, <3>3
    <3>5. Kids(b, v) = {} => Desc(b, v) = <<>>
      <4>1. ASSUME Kids(b, v) = {} PROVE td[v] = <<>>
        <5>1. \A y \in S : ~Mentions(list, v, y)
          BY <1>12, <2>2, <4>1
        <5>2. Below(list, v) = {}
          BY <1>1, <2>2, <5>1, BelowInLayout
        <5>3. td[v] \in Seq(S) /\ ToSet(td[v]) = {}
          BY <1>14, <2>2, <5>2
        <5>4. PICK s \in Seq(S) : s = td[v]
          BY <5>3
        <5>5. DOMAIN s = {}
          BY <5>3, <5>4 DEF ToSet
        <5>6. s = <<>>
          BY <5>5
        <5>7. QED
          BY <5>4, <5>6
      <4>2. QED
        BY <1>8, <2>2, <4>1
    <3>6. v \notin Descendants(b, v)
      BY <1>15, <1>16, <2>2
    <3>7. \A d \in Descendants(b, v) : Kids(b, d) \subseteq Descendants(b, v)
      <4>1. \A d \in Below(list, v) : d \in S
        BY <1>5, <1>16, <2>2
      <4>2. QED
        BY <1>11, <1>15, <2>2, <3>3, <4>1
    <3>8. QED
      BY <3>1, <3>2, <3>4, <3>5, <3>6, <3>7
  <2>3. QED
    BY <2>1, <2>2
<1>18. /\ order \in Seq(Q)
       /\ \A q \in Q : \E i \in DOMAIN order : order[i] = q
       /\ \A i, j \in DOMAIN order : order[j] \in Kids(b, order[i]) => i < j
  <2>1. Stuck(list) = {}
    BY DEF IsCyclic, Stuck
  <2>2. /\ order \in Seq(S) /\ ToSet(order) = Q \ Stuck(list)
        /\ \A i, j \in DOMAIN order : Mentions(list, order[i], order[j]) => i < j
    BY <1>1, QueryOrderFacts
  <2>3. ToSet(order) = Q
    BY <2>1, <2>2
  <2>4. order \in Seq(Q)
    BY <2>2, <2>3, SequenceOf
  <2>5. \A q \in Q : \E i \in DOMAIN order : order[i] = q
    BY <2>3 DEF ToSet
  <2>6. \A i \in DOMAIN order : order[i] \in S
    BY <2>2
  <2>7. \A i, j \in DOMAIN order : order[j] \in Kids(b, order[i]) => i < j
    BY <1>11, <2>2, <2>6
  <2>8. QED
    BY <2>4, <2>5, <2>7
<1>19. QED
  BY <1>2, <1>3, <1>6, <1>7, <1>17, <1>18 DEF IsLayout

------------------------------------------------------------------------------
(* The fetch store.                                                          *)

FetchStates == {"none", "idle", "loading", "revalidating", "waiting", "error"}

(* The conjuncts of the inductive invariant, for any board b and states st.  *)

Entries(b, st) ==
    /\ st \in [Names -> FetchStates]
    /\ \A v \in Names : st[v] = "none" <=> v \notin Vars(b)

QueriesWaitForParents(b, st) ==
    \A v \in Queries(b) : st[v] = "waiting" =>
        \E p \in Parents(b, v) : ~isSettled(st[p])

DynamicsWaitForQueries(b, st) ==
    \A v \in Dynamics(b) : st[v] = "waiting" =>
        ~areAllQueryVariablesSettled(b, st) \/ MentionsDynamic(b)

DynamicsAreLast(b, st, vl) ==
    \A v \in Dynamics(b) : st[v] \in Active =>
        \/ areAllQueryVariablesSettled(b, st)
        \/ doAllQueryVariablesHaveValuesSelected(b, vl)

StatesOK(b, st) ==
    /\ Entries(b, st)
    /\ QueriesWaitForParents(b, st)
    /\ DynamicsWaitForQueries(b, st)

IInv ==
    /\ TypeOK
    /\ StatesOK(board, states)
    /\ DynamicsAreLast(board, states, val)
    /\ NoStaleOptions

------------------------------------------------------------------------------
(* Boards.                                                                   *)

\* What the layout of a board says of a variable.
LEMMA LayoutFacts ==
    ASSUME NEW b \in Boards, NEW v \in Names
    PROVE  /\ Vars(b) \subseteq Names
           /\ Queries(b) \subseteq Vars(b)
           /\ Dynamics(b) \subseteq Vars(b)
           /\ Queries(b) \intersect Dynamics(b) = {}
           /\ Type(b, v) \in Types
           /\ Kids(b, v) \subseteq Descendants(b, v)
           /\ Descendants(b, v) \subseteq Queries(b)
           /\ v \notin Descendants(b, v)
           /\ \A d \in Descendants(b, v) : Kids(b, d) \subseteq Descendants(b, v)
  <1>1. IsLayout(b)
    BY BoardAssumption
  <1>2. Descendants(b, v) \subseteq Queries(b)
    <2>1. Desc(b, v) \in Seq(Queries(b))
      BY <1>1 DEF IsLayout
    <2>. QED BY <2>1 DEF Descendants
  <1>3. /\ Vars(b) \subseteq Names
        /\ Type(b, v) \in Types
        /\ Kids(b, v) \subseteq Descendants(b, v)
        /\ v \notin Descendants(b, v)
        /\ \A d \in Descendants(b, v) : Kids(b, d) \subseteq Descendants(b, v)
    BY <1>1 DEF IsLayout
  <1>4. /\ Queries(b) \subseteq Vars(b)
        /\ Dynamics(b) \subseteq Vars(b)
        /\ Queries(b) \intersect Dynamics(b) = {}
    BY DEF Queries, Dynamics
  <1>. QED BY <1>2, <1>3, <1>4

\* Where no query mentions a dynamic variable, that has no descendants.
LEMMA DynamicHasNoDescendants ==
    ASSUME NEW b \in Boards, NEW v \in Dynamics(b), ~MentionsDynamic(b)
    PROVE  Kids(b, v) = {} /\ Descendants(b, v) = {}
  <1>1. v \in Names
    BY BoardAssumption DEF Dynamics, IsLayout
  <1>2. Kids(b, v) = {}
    BY DEF MentionsDynamic
  <1>3. Desc(b, v) = <<>>
    BY <1>1, <1>2, BoardAssumption DEF IsLayout
  <1>. QED BY <1>2, <1>3 DEF Descendants

------------------------------------------------------------------------------
(* The actions of the store.                                                 *)

\* A fetch that starts is loading or revalidating, never waiting (resolveFetchState).
LEMMA ResolvedIsActive ==
    ASSUME NEW f, NEW v
    PROVE  resolveFetchState(f, v) \in {"loading", "revalidating"}
  BY DEF resolveFetchState

\* A full cycle makes the invariant true, whatever the query variables did.
LEMMA CycleEstablishes ==
    ASSUME NEW b \in Boards, NEW st, Entries(b, st), NEW f, NEW vl
    PROVE  LET new == enqueueFetchOfAllVariables(b, st, f, vl)
           IN  StatesOK(b, new) /\ DynamicsAreLast(b, new, vl)
  <1> DEFINE new == enqueueFetchOfAllVariables(b, st, f, vl)
  <1>0. /\ Vars(b) \subseteq Names
        /\ Queries(b) \subseteq Vars(b)
        /\ Dynamics(b) \subseteq Vars(b)
        /\ Queries(b) \intersect Dynamics(b) = {}
    BY BoardAssumption DEF IsLayout, Queries, Dynamics
  <1>1. \A v \in Queries(b) :
           /\ new[v] \in {"loading", "revalidating", "waiting"}
           /\ new[v] = "waiting" => Parents(b, v) \intersect Queries(b) # {}
    BY <1>0, ResolvedIsActive DEF enqueueFetchOfAllVariables
  <1>2. \A v \in Dynamics(b) :
           /\ new[v] \in {"loading", "revalidating", "waiting"}
           /\ new[v] = "waiting" <=> ~doAllQueryVariablesHaveValuesSelected(b, vl)
    BY <1>0, ResolvedIsActive DEF enqueueFetchOfAllVariables
  <1>3. \A v \in Names : v \notin Queries(b) /\ v \notin Dynamics(b) => new[v] = st[v]
    BY DEF enqueueFetchOfAllVariables
  <1>4. Entries(b, new)
    <2>1. new \in [Names -> FetchStates]
      <3>1. \A v \in Names : new[v] \in FetchStates
        BY <1>1, <1>2, <1>3 DEF Entries, FetchStates
      <3>2. new = [v \in Names |-> new[v]]
        BY DEF enqueueFetchOfAllVariables
      <3>. QED BY <3>1, <3>2
    <2>2. \A v \in Names : new[v] = "none" <=> v \notin Vars(b)
      BY <1>0, <1>1, <1>2, <1>3 DEF Entries
    <2>. QED BY <2>1, <2>2 DEF Entries
  <1>6. QueriesWaitForParents(b, new)
    BY <1>1 DEF QueriesWaitForParents, isSettled
  <1>7. DynamicsWaitForQueries(b, new)
    <2>1. SUFFICES ASSUME NEW v \in Dynamics(b), new[v] = "waiting"
                   PROVE  ~areAllQueryVariablesSettled(b, new)
      BY DEF DynamicsWaitForQueries
    <2>2. PICK q \in Queries(b) : vl[q] = NoValue
      BY <1>2, <2>1 DEF doAllQueryVariablesHaveValuesSelected
    <2>. QED BY <1>1, <2>2 DEF areAllQueryVariablesSettled, isSettled
  <1>8. DynamicsAreLast(b, new, vl)
    BY <1>2 DEF DynamicsAreLast, Active
  <1>. QED BY <1>4, <1>6, <1>7, <1>8 DEF StatesOK

\* A change of the value of n keeps the invariant: a descendant waits only for
\* one that has just been enqueued or was unsettled before.
LEMMA CascadePreserves ==
    ASSUME NEW b \in Boards, NEW st, StatesOK(b, st),
           NEW n \in Names, NEW f, NEW vl
    PROVE  LET new == enqueueDescendantsOfVariable(b, n, st, f)
           IN  /\ StatesOK(b, new)
               /\ DynamicsAreLast(b, new, vl)
               /\ \A v \in Names : v \notin Descendants(b, n) /\ v \notin Dynamics(b)
                                      => new[v] = st[v]
               /\ \A v \in Dynamics(b) : ~isSettled(new[v])
  <1> DEFINE queued == EnqueueQueryDescendants(b, n, st, f)
             new == enqueueDescendantsOfVariable(b, n, st, f)
  <1>0. /\ Vars(b) \subseteq Names
        /\ Queries(b) \subseteq Vars(b)
        /\ Dynamics(b) \subseteq Vars(b)
        /\ Queries(b) \intersect Dynamics(b) = {}
        /\ Descendants(b, n) \subseteq Queries(b)
    BY LayoutFacts
  <1>1. \A v \in Names :
           IF v \in Descendants(b, n)
           THEN /\ queued[v] \in {"loading", "revalidating", "waiting"}
                /\ queued[v] = "waiting" =>
                      \E p \in Parents(b, v) : ~isSettled(st[p]) \/ VisitedBefore(b, n, p, v)
           ELSE queued[v] = st[v]
    BY ResolvedIsActive DEF EnqueueQueryDescendants
  <1>2. \A v \in Names \ Dynamics(b) : new[v] = queued[v]
    BY DEF enqueueDescendantsOfVariable
  <1>3. areAllQueryVariablesSettled(b, queued) <=> areAllQueryVariablesSettled(b, new)
    BY <1>0, <1>2 DEF areAllQueryVariablesSettled
  <1>4. \A v \in Dynamics(b) :
           IF areAllQueryVariablesSettled(b, new)
           THEN new[v] \in {"loading", "revalidating"} ELSE new[v] = "waiting"
    BY <1>0, <1>3, ResolvedIsActive DEF enqueueDescendantsOfVariable
  <1>5. Entries(b, new)
    <2>1. new \in [Names -> FetchStates]
      <3>1. \A v \in Names : new[v] \in FetchStates
        BY <1>1, <1>2, <1>4 DEF StatesOK, Entries, FetchStates
      <3>2. new = [v \in Names |-> new[v]]
        BY DEF enqueueDescendantsOfVariable
      <3>. QED BY <3>1, <3>2
    <2>2. \A v \in Names : new[v] = "none" <=> v \notin Vars(b)
      BY <1>0, <1>1, <1>2, <1>4 DEF StatesOK, Entries
    <2>. QED BY <2>1, <2>2 DEF Entries
  <1>7. \A p \in Names : p \in Descendants(b, n) \/ ~isSettled(st[p]) => ~isSettled(new[p])
    BY <1>0, <1>1, <1>2, <1>4 DEF isSettled
  <1>8. QueriesWaitForParents(b, new)
    <2>1. SUFFICES ASSUME NEW v \in Queries(b), new[v] = "waiting"
                   PROVE  \E p \in Parents(b, v) : ~isSettled(new[p])
      BY DEF QueriesWaitForParents
    <2>2. CASE v \in Descendants(b, n)
      <3>1. PICK p \in Parents(b, v) : ~isSettled(st[p]) \/ VisitedBefore(b, n, p, v)
        BY <1>0, <1>1, <1>2, <2>1, <2>2
      <3>2. CASE VisitedBefore(b, n, p, v)
        <4>1. p \in Descendants(b, n)
          BY <3>2 DEF VisitedBefore, Descendants
        <4>. QED BY <1>0, <1>7, <3>1, <4>1
      <3>3. CASE ~isSettled(st[p])
        BY <1>0, <1>7, <3>1, <3>3 DEF Parents
      <3>. QED BY <3>1, <3>2, <3>3
    <2>3. CASE v \notin Descendants(b, n)
      <3>1. st[v] = "waiting"
        BY <1>0, <1>1, <1>2, <2>1, <2>3
      <3>2. PICK p \in Parents(b, v) : ~isSettled(st[p])
        BY <2>1, <3>1 DEF StatesOK, QueriesWaitForParents
      <3>. QED BY <1>0, <1>7, <3>2 DEF Parents
    <2>. QED BY <2>2, <2>3
  <1>9. DynamicsWaitForQueries(b, new) /\ DynamicsAreLast(b, new, vl)
    BY <1>4 DEF DynamicsWaitForQueries, DynamicsAreLast, Active
  <1>10. \A v \in Names : v \notin Descendants(b, n) /\ v \notin Dynamics(b) => new[v] = st[v]
    BY <1>1, <1>2
  <1>11. \A v \in Dynamics(b) : ~isSettled(new[v])
    BY <1>4 DEF isSettled
  <1>. QED BY <1>5, <1>8, <1>9, <1>10, <1>11 DEF StatesOK

\* The end of a fetch releases the dynamic variables when the last query
\* variable has settled; st is what the store holds just before that.
LEMMA UnlockPreserves ==
    ASSUME NEW b \in Boards, NEW st, NEW n \in Names, NEW f, NEW vl,
           Entries(b, st), QueriesWaitForParents(b, st),
           DynamicsAreLast(b, st, vl),
           Type(b, n) # "QUERY" => DynamicsWaitForQueries(b, st)
    PROVE  LET new == UnlockIfSettled(b, n, st, f)
           IN  StatesOK(b, new) /\ DynamicsAreLast(b, new, vl)
  <1> DEFINE new == UnlockIfSettled(b, n, st, f)
  <1>1. CASE ~(Type(b, n) = "QUERY" /\ areAllQueryVariablesSettled(b, st))
    <2>1. new = st
      BY <1>1 DEF UnlockIfSettled
    <2>2. DynamicsWaitForQueries(b, st)
      BY <1>1 DEF DynamicsWaitForQueries
    <2>. QED BY <2>1, <2>2 DEF StatesOK
  <1>2. CASE Type(b, n) = "QUERY" /\ areAllQueryVariablesSettled(b, st)
    <2>0. /\ Vars(b) \subseteq Names
          /\ Queries(b) \subseteq Vars(b)
          /\ Dynamics(b) \subseteq Vars(b)
          /\ Queries(b) \intersect Dynamics(b) = {}
      BY LayoutFacts
    <2>1. new = [v \in Names |-> IF v \in Dynamics(b) /\ st[v] = "waiting"
                                 THEN resolveFetchState(f, v) ELSE st[v]]
      BY <1>2 DEF UnlockIfSettled, unlockWaitingDynamicVariables
    <2>2. \A v \in Names :
             IF v \in Dynamics(b) /\ st[v] = "waiting"
             THEN new[v] \in {"loading", "revalidating"} ELSE new[v] = st[v]
      BY <2>1, ResolvedIsActive
    <2>3. areAllQueryVariablesSettled(b, new)
      BY <1>2, <2>0, <2>2 DEF areAllQueryVariablesSettled
    <2>4. Entries(b, new)
      <3>1. \A v \in Names : new[v] \in FetchStates
        BY <2>2 DEF Entries, FetchStates
      <3>2. new \in [Names -> FetchStates]
        BY <2>1, <3>1
      <3>3. \A v \in Names : new[v] = "none" <=> v \notin Vars(b)
        BY <2>0, <2>2 DEF Entries
      <3>. QED BY <3>2, <3>3 DEF Entries
    <2>6. QueriesWaitForParents(b, new)
      BY <2>3 DEF QueriesWaitForParents, areAllQueryVariablesSettled, isSettled
    <2>7. DynamicsWaitForQueries(b, new)
      BY <2>0, <2>2 DEF DynamicsWaitForQueries
    <2>8. DynamicsAreLast(b, new, vl)
      BY <2>3 DEF DynamicsAreLast
    <2>. QED BY <2>4, <2>6, <2>7, <2>8 DEF StatesOK
  <1>. QED BY <1>1, <1>2

\* A fetch that completes releases every query variable that waits for it
\* alone, and the dynamic ones if it was the last query variable.
LEMMA CompletePreserves ==
    ASSUME NEW b \in Boards, NEW st, StatesOK(b, st),
           NEW vl, DynamicsAreLast(b, st, vl),
           NEW n \in Fetchable(b), st[n] \in Active, NEW f
    PROVE  LET new == onVariableFetchComplete(b, n, st, f)
           IN  StatesOK(b, new) /\ DynamicsAreLast(b, new, vl)
  <1> DEFINE mid == UnblockKids(b, n, [st EXCEPT ![n] = "idle"], f)
  <1>0. /\ Vars(b) \subseteq Names
        /\ Queries(b) \subseteq Vars(b)
        /\ Dynamics(b) \subseteq Vars(b)
        /\ Queries(b) \intersect Dynamics(b) = {}
        /\ n \in Names
        /\ n \in Vars(b)
    BY BoardAssumption DEF IsLayout, Queries, Dynamics, Fetchable
  <1>1. n \notin Kids(b, n) /\ Kids(b, n) \subseteq Queries(b)
    BY <1>0, LayoutFacts
  <1>2. st \in [Names -> FetchStates]
    BY DEF StatesOK, Entries
  <1>3. \A v \in Names :
           IF v = n THEN mid[v] = "idle"
           ELSE IF v \in Kids(b, n) /\ st[v] = "waiting"
           THEN mid[v] \in {"loading", "revalidating"}
           ELSE mid[v] = st[v]
    BY <1>0, <1>1, <1>2, ResolvedIsActive DEF UnblockKids
  <1>4. Entries(b, mid)
    <2>1. \A v \in Names : mid[v] \in FetchStates
      BY <1>2, <1>3 DEF FetchStates
    <2>2. mid = [v \in Names |-> mid[v]]
      BY DEF UnblockKids
    <2>3. \A v \in Names : mid[v] = "none" <=> v \notin Vars(b)
      BY <1>0, <1>1, <1>3 DEF StatesOK, Entries
    <2>. QED BY <2>1, <2>2, <2>3 DEF Entries
  <1>6. QueriesWaitForParents(b, mid)
    <2>1. SUFFICES ASSUME NEW v \in Queries(b), mid[v] = "waiting"
                   PROVE  \E p \in Parents(b, v) : ~isSettled(mid[p])
      BY DEF QueriesWaitForParents
    <2>2. v \notin Kids(b, n) /\ st[v] = "waiting"
      BY <1>0, <1>3, <2>1
    <2>3. PICK p \in Parents(b, v) : ~isSettled(st[p])
      BY <2>1, <2>2 DEF StatesOK, QueriesWaitForParents
    <2>4. p # n
      BY <2>2, <2>3 DEF Parents
    <2>. QED BY <1>0, <1>3, <2>3, <2>4 DEF isSettled, Parents
  <1>7. CASE n \in Queries(b)
    <2>1. Type(b, n) = "QUERY" /\ ~isSettled(st[n])
      BY <1>7 DEF Queries, isSettled, Active
    <2>2. ~areAllQueryVariablesSettled(b, st)
      BY <1>7, <2>1 DEF areAllQueryVariablesSettled
    <2>3. DynamicsAreLast(b, mid, vl)
      BY <1>0, <1>1, <1>3, <1>7, <2>2 DEF DynamicsAreLast
    <2>. QED BY <1>0, <1>4, <1>6, <2>1, <2>3, UnlockPreserves DEF onVariableFetchComplete
  <1>8. CASE n \in Dynamics(b)
    <2>1. areAllQueryVariablesSettled(b, st) => areAllQueryVariablesSettled(b, mid)
      BY <1>0, <1>3, <1>8 DEF areAllQueryVariablesSettled, isSettled
    <2>2. \A v \in Dynamics(b) : v # n => mid[v] = st[v]
      BY <1>0, <1>1, <1>3
    <2>3. mid[n] = "idle"
      BY <1>0, <1>3
    <2>4. DynamicsAreLast(b, mid, vl)
      BY <2>1, <2>2, <2>3 DEF DynamicsAreLast, Active
    <2>5. DynamicsWaitForQueries(b, mid)
      <3>1. CASE MentionsDynamic(b)
        BY <3>1 DEF DynamicsWaitForQueries
      <3>2. CASE ~MentionsDynamic(b)
        <4>1. Kids(b, n) = {}
          BY <1>8, <3>2, DynamicHasNoDescendants
        <4>2. \A v \in Queries(b) : mid[v] = st[v]
          BY <1>0, <1>3, <1>8, <4>1
        <4>3. areAllQueryVariablesSettled(b, mid) => areAllQueryVariablesSettled(b, st)
          BY <4>2 DEF areAllQueryVariablesSettled
        <4>. QED BY <2>2, <2>3, <4>3 DEF DynamicsWaitForQueries, StatesOK
      <3>. QED BY <3>1, <3>2
    <2>. QED BY <1>0, <1>4, <1>6, <2>4, <2>5, UnlockPreserves DEF onVariableFetchComplete
  <1>. QED BY <1>7, <1>8 DEF Fetchable

\* A fetch that fails takes everything that depends on it out of the wait.
LEMMA FailurePreserves ==
    ASSUME NEW b \in Boards, NEW st, StatesOK(b, st),
           NEW vl, DynamicsAreLast(b, st, vl),
           NEW n \in Fetchable(b), st[n] \in Active, NEW f
    PROVE  LET new == onVariableFetchFailure(b, n, st, f)
           IN  StatesOK(b, new) /\ DynamicsAreLast(b, new, vl)
  <1> DEFINE mid == [v \in Names |-> IF v = n THEN "error"
                                     ELSE IF v \in Descendants(b, n) THEN "idle" ELSE st[v]]
  <1>0. /\ Vars(b) \subseteq Names
        /\ Queries(b) \subseteq Vars(b)
        /\ Dynamics(b) \subseteq Vars(b)
        /\ Queries(b) \intersect Dynamics(b) = {}
        /\ n \in Names
        /\ n \in Vars(b)
    BY BoardAssumption DEF IsLayout, Queries, Dynamics, Fetchable
  <1>1. /\ Descendants(b, n) \subseteq Queries(b)
        /\ Kids(b, n) \subseteq Descendants(b, n)
        /\ \A d \in Descendants(b, n) : Kids(b, d) \subseteq Descendants(b, n)
    BY <1>0, LayoutFacts
  <1>2. st \in [Names -> FetchStates]
    BY DEF StatesOK, Entries
  <1>3. Entries(b, mid)
    <2>1. mid \in [Names -> FetchStates]
      BY <1>2 DEF FetchStates
    <2>2. \A v \in Names : mid[v] = "none" <=> v \notin Vars(b)
      BY <1>0, <1>1 DEF StatesOK, Entries
    <2>. QED BY <2>1, <2>2 DEF Entries
  <1>5. QueriesWaitForParents(b, mid)
    <2>1. SUFFICES ASSUME NEW v \in Queries(b), mid[v] = "waiting"
                   PROVE  \E p \in Parents(b, v) : ~isSettled(mid[p])
      BY DEF QueriesWaitForParents
    <2>2. v \notin Descendants(b, n) /\ st[v] = "waiting"
      BY <1>0, <2>1
    <2>3. PICK p \in Parents(b, v) : ~isSettled(st[p])
      BY <2>1, <2>2 DEF StatesOK, QueriesWaitForParents
    <2>4. p # n /\ p \notin Descendants(b, n)
      BY <1>1, <2>2, <2>3 DEF Parents
    <2>5. mid[p] = st[p]
      BY <1>0, <2>3, <2>4 DEF Parents
    <2>. QED BY <2>3, <2>5
  <1>6. CASE n \in Queries(b)
    <2>1. Type(b, n) = "QUERY" /\ ~isSettled(st[n])
      BY <1>6 DEF Queries, isSettled, Active
    <2>2. ~areAllQueryVariablesSettled(b, st)
      BY <1>6, <2>1 DEF areAllQueryVariablesSettled
    <2>3. DynamicsAreLast(b, mid, vl)
      BY <1>0, <1>1, <1>6, <2>2 DEF DynamicsAreLast
    <2>. QED BY <1>0, <1>3, <1>5, <2>1, <2>3, UnlockPreserves DEF onVariableFetchFailure
  <1>7. CASE n \in Dynamics(b)
    <2>1. areAllQueryVariablesSettled(b, st) => areAllQueryVariablesSettled(b, mid)
      BY <1>0, <1>7 DEF areAllQueryVariablesSettled, isSettled
    <2>2. \A v \in Dynamics(b) : v # n => mid[v] = st[v]
      BY <1>0, <1>1
    <2>3. mid[n] = "error"
      BY <1>0
    <2>4. DynamicsAreLast(b, mid, vl)
      BY <2>1, <2>2, <2>3 DEF DynamicsAreLast, Active
    <2>5. DynamicsWaitForQueries(b, mid)
      <3>1. CASE MentionsDynamic(b)
        BY <3>1 DEF DynamicsWaitForQueries
      <3>2. CASE ~MentionsDynamic(b)
        <4>1. Descendants(b, n) = {}
          BY <1>7, <3>2, DynamicHasNoDescendants
        <4>2. \A v \in Queries(b) : mid[v] = st[v]
          BY <1>0, <1>7, <4>1
        <4>3. areAllQueryVariablesSettled(b, mid) => areAllQueryVariablesSettled(b, st)
          BY <4>2 DEF areAllQueryVariablesSettled
        <4>. QED BY <2>2, <2>3, <4>3 DEF DynamicsWaitForQueries, StatesOK
      <3>. QED BY <3>1, <3>2
    <2>. QED BY <1>0, <1>3, <1>5, <2>4, <2>5, UnlockPreserves DEF onVariableFetchFailure
  <1>. QED BY <1>6, <1>7 DEF Fetchable

------------------------------------------------------------------------------
(* Requests.                                                                 *)

SnapshotOf(b, v, vl) == [p \in Names |-> IF p \in Inputs(b, v) THEN vl[p] ELSE NoValue]

\* A request depends on the value of n only if the cascade of n bumps its key.
LEMMA UnbumpedIgnoresValue ==
    ASSUME NEW b \in Boards, NEW n \in Names, NEW v \in Fetchable(b),
           v \notin BumpedBy(b, n)
    PROVE  n \notin Inputs(b, v)
  <1>1. v \in Queries(b)
    BY DEF Fetchable, BumpedBy
  <1>2. v \notin Kids(b, n)
    BY LayoutFacts DEF BumpedBy
  <1>. QED BY <1>1, <1>2 DEF Inputs, Queries, Parents

\* The requests that a cascade leaves alone are those of unchanged inputs.
LEMMA BumpPreserves ==
    ASSUME TypeOK, NoStaleOptions, NEW n \in Names, NEW x \in Values,
           NEW r \in [Names -> {"none", "inflight", "done"}],
           \A v \in Names : r[v] # "none" => req[v] # "none",
           Bump(BumpedBy(board, n), r),
           val' = [val EXCEPT ![n] = x], board' = board
    PROVE  /\ NoStaleOptions'
           /\ req' \in [Names -> {"none", "inflight", "done"}]
           /\ \A v \in Names : req'[v] # "none" => v \in Fetchable(board')
           /\ used' \in [Names -> [Names -> Values]]
  <1>1. /\ board \in Boards
        /\ NoValue \in Values
        /\ val \in [Names -> Values]
        /\ used \in [Names -> [Names -> Values]]
        /\ \A v \in Names : req[v] # "none" => v \in Fetchable(board)
    BY BoardAssumption DEF TypeOK
  <1>2. /\ req' = [v \in Names |-> IF v \in BumpedBy(board, n) THEN "none" ELSE r[v]]
        /\ used' = [v \in Names |-> IF v \in BumpedBy(board, n) THEN Blank ELSE used[v]]
    BY DEF Bump
  <1>3. Blank \in [Names -> Values]
    BY <1>1 DEF Blank
  <1>4. used' \in [Names -> [Names -> Values]]
    BY <1>1, <1>2, <1>3
  <1>5. req' \in [Names -> {"none", "inflight", "done"}]
    BY <1>2
  <1>6. \A v \in Names : req'[v] # "none" =>
            v \notin BumpedBy(board, n) /\ req[v] # "none" /\ v \in Fetchable(board)
    BY <1>1, <1>2
  <1>7. NoStaleOptions'
    <2>1. SUFFICES ASSUME NEW v \in Names, req'[v] # "none"
                   PROVE  used'[v] = SnapshotOf(board, v, val')
      BY DEF NoStaleOptions, Snapshot, SnapshotOf
    <2>2. used'[v] = used[v]
      BY <1>2, <1>6, <2>1
    <2>3. used[v] = SnapshotOf(board, v, val)
      BY <1>6, <2>1 DEF NoStaleOptions, Snapshot, SnapshotOf
    <2>4. SnapshotOf(board, v, val') = SnapshotOf(board, v, val)
      <3>1. v \in Fetchable(board) /\ v \notin BumpedBy(board, n)
        BY <1>6, <2>1
      <3>2. n \notin Inputs(board, v)
        BY <1>1, <3>1, UnbumpedIgnoresValue
      <3>3. \A p \in Inputs(board, v) \intersect Names : val'[p] = val[p]
        BY <1>1, <3>2
      <3>. QED BY <3>3 DEF SnapshotOf
    <2>. QED BY <2>2, <2>3, <2>4
  <1>. QED BY <1>4, <1>5, <1>6, <1>7

------------------------------------------------------------------------------
(* The inductive invariant.                                                  *)

\* The part of TypeOK about the store follows from the entries.
LEMMA TypeOKFromEntries ==
    ASSUME Entries(board, states), board \in Boards
    PROVE  /\ states \in [Names -> FetchStates]
           /\ \A v \in Vars(board) : states[v] # "none"
  BY LayoutFacts, BoardAssumption DEF Entries, IsLayout

\* The store as it is initialised for a dashboard satisfies the invariant
\* (initializeVariableFetchStore).
LEMMA InitIInv ==
    ASSUME Init
    PROVE  IInv
  <1> DEFINE empty == [v \in Names |-> "none"]
             start == initializeStates(board, empty)
  <1>1. board \in Boards /\ val \in [Names -> Values] /\ NoValue \in Values /\ MaxMoves \in Nat
    BY BoardAssumption DEF Init
  <1>2. Entries(board, start)
    BY DEF Entries, initializeStates, FetchStates
  <1>4. states = enqueueFetchOfAllVariables(board, start, {}, val)
    BY DEF Init
  <1>5. StatesOK(board, states) /\ DynamicsAreLast(board, states, val)
    BY <1>1, <1>2, <1>4, CycleEstablishes
  <1>6. /\ states \in [Names -> FetchStates]
        /\ \A v \in Vars(board) : states[v] # "none"
    BY <1>1, <1>5, TypeOKFromEntries DEF StatesOK
  <1>7. NoStaleOptions
    BY DEF NoStaleOptions, Init
  <1>8. Blank \in [Names -> Values]
    BY <1>1 DEF Blank
  <1>9. TypeOK
    BY <1>1, <1>6, <1>8 DEF TypeOK, Init, FetchStates
  <1>. QED BY <1>5, <1>7, <1>9 DEF IInv

\* A full cycle on the board b makes the invariant true, and drops all requests.
LEMMA StartCyclePreserves ==
    ASSUME IInv, NEW b \in Boards,
           board' = b, val' \in [Names -> Values], StartCycle(b, val'),
           message' \subseteq Fetchable(b), moves' \in 0..MaxMoves
    PROVE  IInv'
  <1> DEFINE start == initializeStates(b, states)
  <1>0. /\ board \in Boards
        /\ states \in [Names -> FetchStates]
        /\ used \in [Names -> [Names -> Values]]
        /\ fetched \subseteq Names
        /\ NoValue \in Values
    BY BoardAssumption DEF IInv, TypeOK, FetchStates
  <1>1. Entries(b, start)
    <2>1. \A v \in Names : start[v] \in FetchStates /\ (start[v] = "none" <=> v \notin Vars(b))
      BY <1>0 DEF initializeStates, FetchStates
    <2>2. start \in [Names -> FetchStates]
      BY <2>1 DEF initializeStates
    <2>. QED BY <2>1, <2>2 DEF Entries
  <1>3. states' = enqueueFetchOfAllVariables(b, start, fetched', val')
    BY DEF StartCycle
  <1>4. StatesOK(b, states') /\ DynamicsAreLast(b, states', val')
    BY <1>1, <1>3, CycleEstablishes
  <1>5. /\ req' = [v \in Names |-> "none"]
        /\ used' = [v \in Names |-> Blank]
        /\ fetched' \subseteq Names
    BY <1>0 DEF StartCycle, Bump
  <1>6. Blank \in [Names -> Values]
    BY <1>0 DEF Blank
  <1>7. /\ states' \in [Names -> FetchStates]
        /\ \A v \in Vars(b) : states'[v] # "none"
    BY <1>4, BoardAssumption DEF StatesOK, Entries, IsLayout
  <1>8. TypeOK'
    BY <1>5, <1>6, <1>7 DEF TypeOK, FetchStates
  <1>9. NoStaleOptions'
    BY <1>5 DEF NoStaleOptions
  <1>. QED BY <1>4, <1>8, <1>9 DEF IInv

\* Every step but a silent edit keeps the invariant: one step of the proof per action.
LEMMA NextIInv ==
    ASSUME IInv, [Next]_vars, [~SilentEdit]_vars
    PROVE  IInv'
  <1>0. /\ board \in Boards
        /\ states \in [Names -> FetchStates]
        /\ fetched \subseteq Names
        /\ val \in [Names -> Values]
        /\ req \in [Names -> {"none", "inflight", "done"}]
        /\ \A v \in Names : req[v] # "none" => v \in Fetchable(board)
        /\ used \in [Names -> [Names -> Values]]
        /\ message \subseteq Fetchable(board)
        /\ moves \in 0..MaxMoves
        /\ MaxMoves \in Nat
        /\ NoValue \in Values
    BY BoardAssumption DEF IInv, TypeOK, FetchStates
  <1>1. ASSUME NEW n \in Names, NEW x \in Values, UserChanges(n, x)
        PROVE  IInv'
    <2>1. /\ board' = board
          /\ fetched' = fetched
          /\ message' = message
          /\ moves' \in 0..MaxMoves
          /\ val' = [val EXCEPT ![n] = x]
          /\ states' = enqueueDescendantsOfVariable(board, n, states, fetched)
          /\ Bump(BumpedBy(board, n), req)
      BY <1>0, <1>1 DEF UserChanges, onValueUpdate
    <2>2. StatesOK(board, states') /\ DynamicsAreLast(board, states', val')
      BY <1>0, <2>1, CascadePreserves DEF IInv
    <2>3. /\ NoStaleOptions'
          /\ req' \in [Names -> {"none", "inflight", "done"}]
          /\ \A v \in Names : req'[v] # "none" => v \in Fetchable(board')
          /\ used' \in [Names -> [Names -> Values]]
      BY <1>0, <2>1, BumpPreserves DEF IInv
    <2>4. val' \in [Names -> Values]
      BY <1>0, <2>1
    <2>5. Entries(board, states')
      BY <2>2 DEF StatesOK
    <2>6. TypeOK'
      <3>1. /\ states' \in [Names -> FetchStates]
            /\ \A v \in Vars(board) : states'[v] # "none"
        BY <1>0, <2>5, BoardAssumption DEF Entries, IsLayout
      <3>. QED BY <1>0, <2>1, <2>3, <2>4, <3>1 DEF TypeOK, FetchStates
    <2>. QED BY <2>1, <2>2, <2>3, <2>6 DEF IInv
  <1>2. ASSUME Refresh
        PROVE  IInv'
    <2>1. /\ board' = board
          /\ val' = val
          /\ message' = message
          /\ moves' \in 0..MaxMoves
          /\ StartCycle(board, val)
      BY <1>0, <1>2 DEF Refresh
    <2>2. StartCycle(board, val')
      BY <2>1
    <2>. QED BY <1>0, <2>1, <2>2, StartCyclePreserves
  <1>3. ASSUME NEW b \in Boards, EditDashboard(b)
        PROVE  IInv'
    <2>1. b # board /\ board' = b /\ message' = message \intersect Kept(b) /\ moves' \in 0..MaxMoves
      BY <1>0, <1>3 DEF EditDashboard
    <2>2. val' \in [Names -> Values]
      BY <1>0, <1>3 DEF EditDashboard
    <2>3. variableOrderKey(b) # variableOrderKey(board)
      BY <2>1 DEF SilentEdit, vars
    <2>4. StartCycle(b, val')
      BY <1>3, <2>3 DEF EditDashboard
    <2>5. message' \subseteq Fetchable(b)
      BY <1>0, <2>1 DEF Kept, Fetchable, Queries, Dynamics
    <2>. QED BY <2>1, <2>2, <2>4, <2>5, StartCyclePreserves
  <1>4. ASSUME NEW v \in Names, FetchStart(v)
        PROVE  IInv'
    <2>1. /\ UNCHANGED <<board, states, fetched, val, message, moves>>
          /\ v \in Fetchable(board)
          /\ req' = [req EXCEPT ![v] = "inflight"]
          /\ used' = [used EXCEPT ![v] = Snapshot(v)]
      BY <1>4 DEF FetchStart
    <2>2. Snapshot(v) \in [Names -> Values]
      BY <1>0 DEF Snapshot
    <2>3. TypeOK'
      BY <1>0, <2>1, <2>2 DEF TypeOK, IInv
    <2>4. NoStaleOptions'
      BY <1>0, <2>1 DEF NoStaleOptions, IInv, Snapshot
    <2>. QED BY <2>1, <2>3, <2>4 DEF IInv
  <1>5. ASSUME NEW v \in Names, Retry(v)
        PROVE  IInv'
    <2>1. /\ UNCHANGED <<board, states, fetched, val>>
          /\ v \in Fetchable(board)
          /\ message' = message \ {v}
          /\ moves' \in 0..MaxMoves
          /\ req' = [req EXCEPT ![v] = "inflight"]
          /\ used' = [used EXCEPT ![v] = IF req[v] = "inflight" THEN @ ELSE Snapshot(v)]
      BY <1>0, <1>5 DEF Retry
    <2>2. Snapshot(v) \in [Names -> Values]
      BY <1>0 DEF Snapshot
    <2>3. TypeOK'
      BY <1>0, <2>1, <2>2 DEF TypeOK, IInv
    <2>4. NoStaleOptions'
      BY <1>0, <2>1 DEF NoStaleOptions, IInv, Snapshot
    <2>. QED BY <2>1, <2>3, <2>4 DEF IInv
  <1>6. ASSUME NEW v \in Names, FetchKeepsValue(v)
        PROVE  IInv'
    <2>1. /\ UNCHANGED <<board, val, used, moves>>
          /\ req[v] = "inflight"
          /\ req' = [req EXCEPT ![v] = "done"]
          /\ message' \subseteq Fetchable(board)
          /\ SettleComplete(v, states)
      BY <1>0, <1>6 DEF FetchKeepsValue, ClearMessage
    <2>2. v \in Fetchable(board)
      BY <1>0, <2>1
    <2>3. StatesOK(board, states') /\ DynamicsAreLast(board, states', val)
      <3>1. CASE states[v] \in Active
        <4>1. states' = onVariableFetchComplete(board, v, states, fetched)
          BY <2>1, <3>1 DEF SettleComplete
        <4>. QED BY <1>0, <2>2, <3>1, <4>1, CompletePreserves DEF IInv
      <3>2. CASE states[v] \notin Active
        BY <2>1, <3>2 DEF SettleComplete, IInv
      <3>. QED BY <3>1, <3>2
    <2>4. fetched' \subseteq Names
      BY <1>0, <2>1 DEF SettleComplete
    <2>5. TypeOK'
      <3>1. /\ states' \in [Names -> FetchStates]
            /\ \A w \in Vars(board) : states'[w] # "none"
        BY <1>0, <2>3, BoardAssumption DEF StatesOK, Entries, IsLayout
      <3>. QED BY <1>0, <2>1, <2>2, <2>4, <3>1 DEF TypeOK, FetchStates
    <2>6. NoStaleOptions'
      BY <1>0, <2>1 DEF NoStaleOptions, IInv, Snapshot
    <2>. QED BY <2>1, <2>3, <2>5, <2>6 DEF IInv
  <1>7. ASSUME NEW v \in Names, NEW x \in Values, FetchSetsValue(v, x)
        PROVE  IInv'
    <2> DEFINE queued == enqueueDescendantsOfVariable(board, v, states, fetched)
               r == [req EXCEPT ![v] = "done"]
    <2>1. /\ UNCHANGED <<board, moves>>
          /\ req[v] = "inflight"
          /\ val' = [val EXCEPT ![v] = x]
          /\ SettleComplete(v, queued)
          /\ Bump(BumpedBy(board, v), r)
          /\ message' \subseteq Fetchable(board)
      BY <1>0, <1>7 DEF FetchSetsValue, ClearMessage
    <2>2. v \in Fetchable(board)
      BY <1>0, <2>1
    <2>3. StatesOK(board, queued) /\ DynamicsAreLast(board, queued, val')
      BY <1>0, CascadePreserves DEF IInv
    <2>4. StatesOK(board, states') /\ DynamicsAreLast(board, states', val')
      <3>1. CASE queued[v] \in Active
        <4>1. states' = onVariableFetchComplete(board, v, queued, fetched)
          BY <2>1, <3>1 DEF SettleComplete
        <4>. HIDE DEF queued
        <4>. QED BY <1>0, <2>2, <2>3, <3>1, <4>1, CompletePreserves
      <3>2. CASE queued[v] \notin Active
        BY <2>1, <2>3, <3>2 DEF SettleComplete
      <3>. QED BY <3>1, <3>2
    <2>5. fetched' \subseteq Names
      BY <1>0, <2>1 DEF SettleComplete
    <2>6. /\ NoStaleOptions'
          /\ req' \in [Names -> {"none", "inflight", "done"}]
          /\ \A w \in Names : req'[w] # "none" => w \in Fetchable(board')
          /\ used' \in [Names -> [Names -> Values]]
      <3>1. /\ r \in [Names -> {"none", "inflight", "done"}]
            /\ \A w \in Names : r[w] # "none" => req[w] # "none"
        BY <1>0, <2>1
      <3>. QED BY <2>1, <3>1, BumpPreserves DEF IInv
    <2>7. TypeOK'
      <3>1. /\ states' \in [Names -> FetchStates]
            /\ \A w \in Vars(board) : states'[w] # "none"
        BY <1>0, <2>4, BoardAssumption DEF StatesOK, Entries, IsLayout
      <3>2. val' \in [Names -> Values]
        BY <1>0, <2>1
      <3>. QED BY <1>0, <2>1, <2>5, <2>6, <3>1, <3>2 DEF TypeOK, FetchStates
    <2>. QED BY <2>1, <2>4, <2>6, <2>7 DEF IInv
  <1>8. ASSUME NEW v \in Names, FetchFails(v)
        PROVE  IInv'
    <2>1. /\ UNCHANGED <<board, fetched, val, used, moves>>
          /\ req[v] = "inflight"
          /\ req' = [req EXCEPT ![v] = "done"]
          /\ message' = message \union {v}
          /\ states' = IF states[v] \in Active
                       THEN onVariableFetchFailure(board, v, states, fetched) ELSE states
      BY <1>8 DEF FetchFails
    <2>2. v \in Fetchable(board)
      BY <1>0, <2>1
    <2>3. StatesOK(board, states') /\ DynamicsAreLast(board, states', val)
      <3>1. CASE states[v] \in Active
        <4>1. states' = onVariableFetchFailure(board, v, states, fetched)
          BY <2>1, <3>1
        <4>. QED BY <1>0, <2>2, <3>1, <4>1, FailurePreserves DEF IInv
      <3>2. CASE states[v] \notin Active
        BY <2>1, <3>2 DEF IInv
      <3>. QED BY <3>1, <3>2
    <2>4. TypeOK'
      <3>1. /\ states' \in [Names -> FetchStates]
            /\ \A w \in Vars(board) : states'[w] # "none"
        BY <1>0, <2>3, BoardAssumption DEF StatesOK, Entries, IsLayout
      <3>. QED BY <1>0, <2>1, <2>2, <3>1 DEF TypeOK, FetchStates
    <2>5. NoStaleOptions'
      BY <1>0, <2>1 DEF NoStaleOptions, IInv, Snapshot
    <2>. QED BY <2>1, <2>3, <2>4, <2>5 DEF IInv
  <1>9. CASE UNCHANGED vars
    BY <1>9 DEF vars, IInv, TypeOK, NoStaleOptions, Snapshot
  <1>. QED BY <1>1, <1>2, <1>3, <1>4, <1>5, <1>6, <1>7, <1>8, <1>9 DEF Next, Answer

\* The inductive invariant holds whatever the store and the selectors do, as long as
\* no edit leaves the order key as it was: every action of variableFetchStore, every
\* answer and every other edit of the dashboard preserves it.
THEOREM Invariance ==
    Spec /\ [][~SilentEdit]_vars => []IInv
  <1>1. Init => IInv
    BY InitIInv
  <1>2. IInv /\ [Next]_vars /\ [~SilentEdit]_vars => IInv'
    BY NextIInv
  <1>. QED BY <1>1, <1>2, PTL DEF Spec

------------------------------------------------------------------------------
(* The properties.                                                           *)

\* The fetch store and the requests have their types: every variable of the
\* dashboard has an entry, and only QUERY and DYNAMIC variables have requests, as
\* long as no edit leaves variableOrderKey as it was.
THEOREM TypeCorrect ==
    Spec /\ [][~SilentEdit]_vars => []TypeOK
  <1>1. IInv => TypeOK
    BY DEF IInv
  <1>. QED BY <1>1, Invariance, PTL

\* No query variable of variableFetchStore waits for parents that have settled, on
\* any dashboard, parents of every type and changes of type included.
THEOREM QueriesAreReleased ==
    Spec /\ [][~SilentEdit]_vars => []WaitingQueryHasUnsettledParent
  <1>1. IInv => WaitingQueryHasUnsettledParent
    BY DEF IInv, StatesOK, QueriesWaitForParents, WaitingQueryHasUnsettledParent
  <1>. QED BY <1>1, Invariance, PTL

\* No dynamic variable of variableFetchStore is forgotten when the last query
\* variable completes or fails, unless a query mentions a dynamic variable.
THEOREM DynamicsAreReleased ==
    Spec /\ [][~SilentEdit]_vars => []WaitingDynamicHasUnsettledQuery
  <1>1. IInv => WaitingDynamicHasUnsettledQuery
    BY DEF IInv, StatesOK, DynamicsWaitForQueries, WaitingDynamicHasUnsettledQuery
  <1>. QED BY <1>1, Invariance, PTL

\* Dynamic variables fetch after the query variables, unless these have values
\* (enqueueFetchOfAllVariables, enqueueDescendantsOfVariable).
THEOREM DynamicsComeLast ==
    Spec /\ [][~SilentEdit]_vars => []DynamicsFetchLast
  <1>1. IInv => DynamicsFetchLast
    BY DEF IInv, DynamicsAreLast, DynamicsFetchLast
  <1>. QED BY <1>1, Invariance, PTL

(* Together, for every dashboard, with every edit that starts a fetch cycle  *)
(* (the actions of variableFetchStore.ts).                                   *)
THEOREM WaitingIsSound ==
    Spec /\ [][~SilentEdit]_vars => []FetchInv
  <1>1. TypeOK /\ WaitingQueryHasUnsettledParent /\ WaitingDynamicHasUnsettledQuery
           /\ DynamicsFetchLast => FetchInv
    BY DEF FetchInv
  <1>. QED BY <1>1, TypeCorrect, QueriesAreReleased, DynamicsAreReleased, DynamicsComeLast, PTL

\* The cycle counters in the request keys are bumped often enough: no request or
\* answer that counts was made with values that have changed since.
THEOREM OptionsAreFresh ==
    Spec /\ [][~SilentEdit]_vars => []NoStaleOptions
  <1>1. IInv => NoStaleOptions
    BY DEF IInv
  <1>. QED BY <1>1, Invariance, PTL

------------------------------------------------------------------------------
(* Without a condition on the edits: only a silent edit can leave a query     *)
(* waiting for parents that have all settled.                                *)

StoreOK(b, st) == b \in Boards /\ st \in [Names -> FetchStates]

\* A full cycle leaves a query waiting only for a query it has just enqueued.
LEMMA CycleReleases ==
    ASSUME NEW b, NEW st, StoreOK(b, st), NEW f, NEW vl
    PROVE  LET new == enqueueFetchOfAllVariables(b, initializeStates(b, st), f, vl)
           IN  StoreOK(b, new) /\ QueriesWaitForParents(b, new)
  <1> DEFINE start == initializeStates(b, st)
             new == enqueueFetchOfAllVariables(b, start, f, vl)
  <1>1. b \in Boards /\ st \in [Names -> FetchStates]
    BY DEF StoreOK
  <1>2. Entries(b, start)
    <2>1. \A v \in Names : start[v] \in FetchStates /\ (start[v] = "none" <=> v \notin Vars(b))
      BY <1>1 DEF initializeStates, FetchStates
    <2>2. start \in [Names -> FetchStates]
      BY <2>1 DEF initializeStates
    <2>. QED BY <2>1, <2>2 DEF Entries
  <1>3. StatesOK(b, new)
    <2> HIDE DEF start
    <2>. QED BY <1>1, <1>2, CycleEstablishes
  <1>. QED BY <1>1, <1>3 DEF StatesOK, StoreOK, Entries

\* A change of the value of n makes a query wait only for one that is not settled.
LEMMA CascadeReleases ==
    ASSUME NEW b, NEW st, StoreOK(b, st), NEW n \in Names, NEW f
    PROVE  LET new == enqueueDescendantsOfVariable(b, n, st, f)
           IN  /\ StoreOK(b, new)
               /\ QueriesWaitForParents(b, st) => QueriesWaitForParents(b, new)
  <1> DEFINE queued == EnqueueQueryDescendants(b, n, st, f)
             new == enqueueDescendantsOfVariable(b, n, st, f)
  <1>0. b \in Boards /\ st \in [Names -> FetchStates]
    BY DEF StoreOK
  <1>1. /\ Vars(b) \subseteq Names
        /\ Queries(b) \subseteq Vars(b)
        /\ Queries(b) \intersect Dynamics(b) = {}
        /\ Descendants(b, n) \subseteq Queries(b)
    BY <1>0, LayoutFacts
  <1>2. \A v \in Names :
           IF v \in Descendants(b, n)
           THEN /\ queued[v] \in {"loading", "revalidating", "waiting"}
                /\ queued[v] = "waiting" =>
                      \E p \in Parents(b, v) : ~isSettled(st[p]) \/ VisitedBefore(b, n, p, v)
           ELSE queued[v] = st[v]
    BY ResolvedIsActive DEF EnqueueQueryDescendants
  <1>3. \A v \in Names \ Dynamics(b) : new[v] = queued[v]
    BY DEF enqueueDescendantsOfVariable
  <1>4. \A v \in Names : v \in Dynamics(b) => new[v] \in {"loading", "revalidating", "waiting"}
    BY ResolvedIsActive DEF enqueueDescendantsOfVariable
  <1>5. StoreOK(b, new)
    <2>1. \A v \in Names : new[v] \in FetchStates
      BY <1>0, <1>2, <1>3, <1>4 DEF FetchStates
    <2>2. new = [v \in Names |-> new[v]]
      BY DEF enqueueDescendantsOfVariable
    <2>. QED BY <1>0, <2>1, <2>2 DEF StoreOK
  <1>6. \A p \in Names : p \in Descendants(b, n) \/ ~isSettled(st[p]) => ~isSettled(new[p])
    BY <1>1, <1>2, <1>3, <1>4 DEF isSettled
  <1>7. ASSUME QueriesWaitForParents(b, st)
        PROVE  QueriesWaitForParents(b, new)
    <2>1. SUFFICES ASSUME NEW v \in Queries(b), new[v] = "waiting"
                   PROVE  \E p \in Parents(b, v) : ~isSettled(new[p])
      BY DEF QueriesWaitForParents
    <2>2. \E p \in Parents(b, v) : p \in Descendants(b, n) \/ ~isSettled(st[p])
      <3>1. CASE v \in Descendants(b, n)
        <4>1. PICK p \in Parents(b, v) : ~isSettled(st[p]) \/ VisitedBefore(b, n, p, v)
          BY <1>1, <1>2, <1>3, <2>1, <3>1
        <4>. QED BY <4>1 DEF VisitedBefore, Descendants
      <3>2. CASE v \notin Descendants(b, n)
        <4>1. st[v] = "waiting"
          BY <1>1, <1>2, <1>3, <2>1, <3>2
        <4>. QED BY <1>7, <2>1, <4>1 DEF QueriesWaitForParents
      <3>. QED BY <3>1, <3>2
    <2>. QED BY <1>1, <1>6, <2>2 DEF Parents
  <1>. QED BY <1>5, <1>7

\* Releasing the dynamic variables takes no query's reason to wait away.
LEMMA UnlockReleases ==
    ASSUME NEW b, NEW st, StoreOK(b, st), QueriesWaitForParents(b, st), NEW n, NEW f
    PROVE  LET new == UnlockIfSettled(b, n, st, f)
           IN  QueriesWaitForParents(b, new)
  <1> DEFINE new == UnlockIfSettled(b, n, st, f)
  <1>0. b \in Boards /\ st \in [Names -> FetchStates]
    BY DEF StoreOK
  <1>1. /\ Vars(b) \subseteq Names
        /\ Queries(b) \subseteq Vars(b)
        /\ Queries(b) \intersect Dynamics(b) = {}
    BY <1>0, BoardAssumption DEF IsLayout, Queries, Dynamics
  <1>2. \A v \in Names : new[v] = st[v] \/ (v \in Dynamics(b) /\ new[v] \in {"loading", "revalidating"})
    BY ResolvedIsActive DEF UnlockIfSettled, unlockWaitingDynamicVariables
  <1>3. SUFFICES ASSUME NEW v \in Queries(b), new[v] = "waiting"
                 PROVE  \E p \in Parents(b, v) : ~isSettled(new[p])
    BY DEF QueriesWaitForParents
  <1>4. st[v] = "waiting"
    BY <1>1, <1>2, <1>3
  <1>5. PICK p \in Parents(b, v) : ~isSettled(st[p])
    BY <1>3, <1>4 DEF QueriesWaitForParents
  <1>6. p \in Names
    BY <1>1, <1>5 DEF Parents
  <1>7. ~isSettled(new[p])
    BY <1>2, <1>5, <1>6 DEF isSettled
  <1>. QED BY <1>5, <1>7

\* Neither does it leave the types of the store.
LEMMA UnlockIsTyped ==
    ASSUME NEW b, NEW st, StoreOK(b, st), NEW n, NEW f
    PROVE  StoreOK(b, UnlockIfSettled(b, n, st, f))
  <1>1. b \in Boards /\ st \in [Names -> FetchStates]
    BY DEF StoreOK
  <1>2. \A v \in Names : resolveFetchState(f, v) \in FetchStates
    BY ResolvedIsActive DEF FetchStates
  <1>3. UnlockIfSettled(b, n, st, f) \in [Names -> FetchStates]
    BY <1>1, <1>2 DEF UnlockIfSettled, unlockWaitingDynamicVariables
  <1>. QED BY <1>1, <1>3 DEF StoreOK

\* The variables that wait for n alone are released when it completes.
LEMMA CompleteReleases ==
    ASSUME NEW b, NEW st, StoreOK(b, st), NEW n \in Names, NEW f
    PROVE  LET new == onVariableFetchComplete(b, n, st, f)
           IN  /\ StoreOK(b, new)
               /\ QueriesWaitForParents(b, st) => QueriesWaitForParents(b, new)
  <1> DEFINE mid == UnblockKids(b, n, [st EXCEPT ![n] = "idle"], f)
  <1>0. b \in Boards /\ st \in [Names -> FetchStates]
    BY DEF StoreOK
  <1>1. /\ Vars(b) \subseteq Names
        /\ Queries(b) \subseteq Vars(b)
        /\ n \notin Kids(b, n)
    BY <1>0, LayoutFacts
  <1>2. \A v \in Names :
           IF v = n THEN mid[v] = "idle"
           ELSE IF v \in Kids(b, n) /\ st[v] = "waiting"
           THEN mid[v] \in {"loading", "revalidating"}
           ELSE mid[v] = st[v]
    BY <1>0, <1>1, ResolvedIsActive DEF UnblockKids
  <1>3. StoreOK(b, mid)
    <2>1. \A v \in Names : mid[v] \in FetchStates
      BY <1>0, <1>2 DEF FetchStates
    <2>2. mid = [v \in Names |-> mid[v]]
      BY DEF UnblockKids
    <2>. QED BY <1>0, <2>1, <2>2 DEF StoreOK
  <1>4. ASSUME QueriesWaitForParents(b, st)
        PROVE  QueriesWaitForParents(b, mid)
    <2>1. SUFFICES ASSUME NEW v \in Queries(b), mid[v] = "waiting"
                   PROVE  \E p \in Parents(b, v) : ~isSettled(mid[p])
      BY DEF QueriesWaitForParents
    <2>2. v \notin Kids(b, n) /\ st[v] = "waiting"
      BY <1>1, <1>2, <2>1
    <2>3. PICK p \in Parents(b, v) : ~isSettled(st[p])
      BY <1>4, <2>1, <2>2 DEF QueriesWaitForParents
    <2>4. p # n /\ p \in Names
      BY <1>1, <2>2, <2>3 DEF Parents
    <2>5. ~isSettled(mid[p])
      BY <1>2, <2>3, <2>4 DEF isSettled
    <2>. QED BY <2>3, <2>5
  <1>5. onVariableFetchComplete(b, n, st, f) = UnlockIfSettled(b, n, mid, f)
    BY DEF onVariableFetchComplete
  <1> HIDE DEF mid
  <1>. QED BY <1>3, <1>4, <1>5, UnlockReleases, UnlockIsTyped

\* A failure releases everything below the variable that failed.
LEMMA FailureReleases ==
    ASSUME NEW b, NEW st, StoreOK(b, st), NEW n \in Names, NEW f
    PROVE  LET new == onVariableFetchFailure(b, n, st, f)
           IN  /\ StoreOK(b, new)
               /\ QueriesWaitForParents(b, st) => QueriesWaitForParents(b, new)
  <1> DEFINE mid == [v \in Names |-> IF v = n THEN "error"
                                     ELSE IF v \in Descendants(b, n) THEN "idle" ELSE st[v]]
  <1>0. b \in Boards /\ st \in [Names -> FetchStates]
    BY DEF StoreOK
  <1>1. /\ Vars(b) \subseteq Names
        /\ Queries(b) \subseteq Vars(b)
        /\ Kids(b, n) \subseteq Descendants(b, n)
        /\ \A d \in Descendants(b, n) : Kids(b, d) \subseteq Descendants(b, n)
    BY <1>0, LayoutFacts
  <1>2. StoreOK(b, mid)
    <2>1. mid \in [Names -> FetchStates]
      BY <1>0 DEF FetchStates
    <2>. QED BY <1>0, <2>1 DEF StoreOK
  <1>3. ASSUME QueriesWaitForParents(b, st)
        PROVE  QueriesWaitForParents(b, mid)
    <2>1. SUFFICES ASSUME NEW v \in Queries(b), mid[v] = "waiting"
                   PROVE  \E p \in Parents(b, v) : ~isSettled(mid[p])
      BY DEF QueriesWaitForParents
    <2>2. v \notin Descendants(b, n) /\ st[v] = "waiting"
      BY <1>1, <2>1
    <2>3. PICK p \in Parents(b, v) : ~isSettled(st[p])
      BY <1>3, <2>1, <2>2 DEF QueriesWaitForParents
    <2>4. p # n /\ p \notin Descendants(b, n) /\ p \in Names
      BY <1>1, <2>2, <2>3 DEF Parents
    <2>5. mid[p] = st[p]
      BY <2>4
    <2>. QED BY <2>3, <2>5
  <1>4. onVariableFetchFailure(b, n, st, f) = UnlockIfSettled(b, n, mid, f)
    BY DEF onVariableFetchFailure
  <1> HIDE DEF mid
  <1>. QED BY <1>2, <1>3, <1>4, UnlockReleases, UnlockIsTyped

\* What every step does to the store: it stays typed, and a query is left without an
\* unsettled parent only by a silent edit.
LEMMA StepReleases ==
    ASSUME StoreOK(board, states), [Next]_vars
    PROVE  /\ StoreOK(board, states)'
           /\ QueriesWaitForParents(board, states) /\ ~SilentEdit
                 => QueriesWaitForParents(board', states')
  <1> DEFINE Goal == /\ StoreOK(board, states)'
                     /\ QueriesWaitForParents(board, states) /\ ~SilentEdit
                           => QueriesWaitForParents(board', states')
  <1>1. ASSUME NEW n \in Names, NEW x \in Values, UserChanges(n, x)
        PROVE  Goal
    <2>1. board' = board /\ states' = enqueueDescendantsOfVariable(board, n, states, fetched)
      BY <1>1 DEF UserChanges, onValueUpdate
    <2>. QED BY <2>1, CascadeReleases
  <1>2. ASSUME Refresh
        PROVE  Goal
    <2>1. /\ board' = board
          /\ states' = enqueueFetchOfAllVariables(board, initializeStates(board, states), fetched', val)
      BY <1>2 DEF Refresh, StartCycle
    <2>. QED BY <2>1, CycleReleases
  <1>3. ASSUME NEW b \in Boards, EditDashboard(b)
        PROVE  Goal
    <2>1. board' = b /\ b # board
      BY <1>3 DEF EditDashboard
    <2>2. StoreOK(b, states)
      BY DEF StoreOK
    <2>3. CASE variableOrderKey(b) # variableOrderKey(board)
      <3>1. states' = enqueueFetchOfAllVariables(b, initializeStates(b, states), fetched', val')
        BY <1>3, <2>3 DEF EditDashboard, StartCycle
      <3>. QED BY <2>1, <2>2, <3>1, CycleReleases
    <2>4. CASE variableOrderKey(b) = variableOrderKey(board)
      <3>1. states' = states
        BY <1>3, <2>4 DEF EditDashboard, store
      <3>2. SilentEdit
        BY <2>1, <2>4 DEF SilentEdit
      <3>. QED BY <2>1, <2>2, <3>1, <3>2
    <2>. QED BY <2>3, <2>4
  <1>4. ASSUME NEW v \in Names, FetchStart(v) \/ Retry(v)
        PROVE  Goal
    <2>1. UNCHANGED <<board, states>>
      BY <1>4 DEF FetchStart, Retry
    <2>. QED BY <2>1
  <1>5. ASSUME NEW v \in Names, FetchKeepsValue(v)
        PROVE  Goal
    <2>1. /\ board' = board
          /\ states' = states \/ states' = onVariableFetchComplete(board, v, states, fetched)
      BY <1>5 DEF FetchKeepsValue, SettleComplete
    <2>. QED BY <2>1, CompleteReleases
  <1>6. ASSUME NEW v \in Names, NEW x \in Values, FetchSetsValue(v, x)
        PROVE  Goal
    <2> DEFINE queued == enqueueDescendantsOfVariable(board, v, states, fetched)
    <2>1. /\ board' = board
          /\ states' = queued \/ states' = onVariableFetchComplete(board, v, queued, fetched)
      BY <1>6 DEF FetchSetsValue, SettleComplete
    <2>2. /\ StoreOK(board, queued)
          /\ QueriesWaitForParents(board, states) => QueriesWaitForParents(board, queued)
      BY CascadeReleases
    <2> HIDE DEF queued
    <2>. QED BY <2>1, <2>2, CompleteReleases
  <1>7. ASSUME NEW v \in Names, FetchFails(v)
        PROVE  Goal
    <2>1. /\ board' = board
          /\ states' = states \/ states' = onVariableFetchFailure(board, v, states, fetched)
      BY <1>7 DEF FetchFails
    <2>. QED BY <2>1, FailureReleases
  <1>8. CASE UNCHANGED vars
    <2>1. UNCHANGED <<board, states>>
      BY <1>8 DEF vars
    <2>. QED BY <2>1
  <1>. QED BY <1>1, <1>2, <1>3, <1>4, <1>5, <1>6, <1>7, <1>8 DEF Next, Answer

\* A step that leaves some query variable waiting for parents that have all settled,
\* when there was none before.
StrandsAQuery == WaitingQueryHasUnsettledParent /\ ~WaitingQueryHasUnsettledParent'

\* For every dashboard and without any condition: only an edit that keeps
\* variableOrderKey, so that no fetch cycle starts, can strand a waiting query variable.
\* No order of answers, failures, value changes and other edits does.
THEOREM OnlySilentEditsStrand ==
    Spec => [][StrandsAQuery => SilentEdit]_vars
  <1>1. Init => StoreOK(board, states)
    BY InitIInv DEF IInv, TypeOK, StatesOK, Entries, StoreOK
  <1>2. StoreOK(board, states) /\ [Next]_vars => StoreOK(board, states)'
    BY StepReleases
  <1>3. StoreOK(board, states) /\ [Next]_vars => [StrandsAQuery => SilentEdit]_vars
    BY StepReleases DEF StrandsAQuery, WaitingQueryHasUnsettledParent, QueriesWaitForParents
  <1>. QED BY <1>1, <1>2, <1>3, PTL DEF Spec
=============================================================================
