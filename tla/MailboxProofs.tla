---------------------------- MODULE MailboxProofs ----------------------------
(* PollingService implements ConfigMailbox, for every set of registers and *)
(* values and every size of the queue.                                     *)
EXTENDS PollingServiceProofs, FiniteSetTheorems, WellFoundedInduction

-----------------------------------------------------------------------------
(* Sequences restricted to a register.                                     *)

\* A set of natural numbers has a least one.
LEMMA Least ==
    ASSUME NEW T \in SUBSET Nat, T # {}
    PROVE  \E n \in T : \A m \in T : n <= m
  <1>1. PICK n \in T : \A m \in T : ~ (<<m, n>> \in OpToRel(<, Nat))
    BY NatLessThanWellFounded, WFMin
  <1>2. ASSUME NEW m \in T PROVE n <= m
    <2>1. ~ (m < n)
      BY <1>1 DEF OpToRel
    <2> QED BY <2>1
  <1> QED BY <1>2

\* A sequence has the elements of a set, from the least to the greatest.
Enumerates(f, S) == /\ \A x \in S : \E i \in DOMAIN f : f[i] = x
                    /\ \A i, j \in DOMAIN f : i < j => f[i] < f[j]

\* InOrder is the only such sequence: the elements up to the i-th are i.
LEMMA InOrderIs ==
    ASSUME NEW S \in SUBSET Nat, NEW n \in Nat, NEW f \in [1..n -> S],
           Enumerates(f, S)
    PROVE  InOrder(S) = f
  <1> DEFINE Upto(x) == {y \in S : y <= x}
  <1>1. \A i, j \in 1..n : i < j => f[i] < f[j]
    BY DEF Enumerates
  <1>2. \A i \in 1..n : f[i] \in Nat
    OBVIOUS
  <1>3. \A x \in S : \E i \in 1..n : f[i] = x
    BY DEF Enumerates
  <1>4. ASSUME NEW m \in 0..n, NEW T, \A i \in 1..m : f[i] \in T,
               \A x \in T : \E i \in 1..m : f[i] = x
        PROVE  Cardinality(T) = m
    <2> DEFINE g == [i \in 1..m |-> f[i]]
    <2>1. \A i, j \in 1..m : g[i] = g[j] => i = j
      <3> TAKE i, j \in 1..m
      <3>1. i \in 1..n /\ j \in 1..n /\ g[i] = f[i] /\ g[j] = f[j]
        OBVIOUS
      <3> QED BY <1>1, <1>2, <3>1
    <2>2. g \in [1..m -> T]
      BY <1>4
    <2>3. \A x \in T : \E i \in 1..m : g[i] = x
      BY <1>4
    <2> HIDE DEF g
    <2>4. g \in Bijection(1..m, T)
      BY <2>1, <2>2, <2>3 DEF Bijection, Injection, Surjection, IsInjective
    <2> QED BY <2>4, FS_CountingElements DEF ExistsBijection
  <1>5. Cardinality(S) = n
    <2>1. n \in 0..n /\ \A i \in 1..n : f[i] \in S
      OBVIOUS
    <2> QED BY <1>3, <1>4, <2>1
  <1>6. ASSUME NEW i \in 1..n PROVE Cardinality(Upto(f[i])) = i
    <2>1. \A j \in 1..i : f[j] \in Upto(f[i])
      <3> TAKE j \in 1..i
      <3>1. j \in 1..n /\ (j = i \/ j < i)
        OBVIOUS
      <3>2. f[j] = f[i] \/ f[j] < f[i]
        BY <1>1, <3>1
      <3> QED BY <1>2, <3>1, <3>2
    <2>2. \A x \in Upto(f[i]) : \E j \in 1..i : f[j] = x
      <3> TAKE x \in Upto(f[i])
      <3>1. PICK j \in 1..n : f[j] = x
        BY <1>3
      <3>2. ~(i < j)
        BY <1>1, <1>2, <3>1
      <3> QED BY <3>1, <3>2
    <2> HIDE DEF Upto
    <2> QED BY <1>4, <2>1, <2>2
  <1>7. ASSUME NEW i \in 1..n
        PROVE  (CHOOSE x \in S : Cardinality(Upto(x)) = i) = f[i]
    <2> HIDE DEF Upto
    <2>1. \A x \in S : Cardinality(Upto(x)) = i => x = f[i]
      <3> SUFFICES ASSUME NEW x \in S, Cardinality(Upto(x)) = i PROVE x = f[i]
        OBVIOUS
      <3>1. PICK j \in 1..n : f[j] = x
        BY <1>3
      <3> QED BY <1>6, <3>1
    <2>2. f[i] \in S /\ Cardinality(Upto(f[i])) = i
      BY <1>6
    <2> QED BY <2>1, <2>2
  <1>8. InOrder(S) = [i \in 1..n |-> CHOOSE x \in S : Cardinality(Upto(x)) = i]
    BY <1>5 DEF InOrder
  <1> HIDE DEF Upto
  <1> QED BY <1>7, <1>8

\* A sequence of values is that of the commands for a register in a list.
Lists(w, list, k) ==
    \E f \in [1..Len(w) -> PlacesOf(list, k)] :
        /\ Enumerates(f, PlacesOf(list, k))
        /\ \A i \in 1..Len(w) : w[i] = list[f[i]].value

\* Such a sequence is the one ValuesFor computes.
LEMMA ValuesListed ==
    ASSUME NEW list \in Seq(Command), NEW k, NEW w \in Seq(Values),
           Lists(w, list, k)
    PROVE  ValuesFor(list, k) = w
  <1> DEFINE S == PlacesOf(list, k)
  <1>1. PICK f \in [1..Len(w) -> S] :
            /\ Enumerates(f, S)
            /\ \A i \in 1..Len(w) : w[i] = list[f[i]].value
    BY DEF Lists
  <1>2. S \in SUBSET Nat
    BY DEF PlacesOf
  <1>3. InOrder(S) = f
    BY <1>1, <1>2, InOrderIs
  <1>4. ValuesFor(list, k) = [i \in 1..Len(w) |-> list[f[i]].value]
    BY <1>3 DEF ValuesFor
  <1>5. w = [i \in 1..Len(w) |-> w[i]]
    OBVIOUS
  <1> QED BY <1>1, <1>4, <1>5

\* A command at the end of the list is the newest for its register.
LEMMA AppendLists ==
    ASSUME NEW list \in Seq(Command), NEW k, NEW w \in Seq(Values),
           NEW c \in Command, Lists(w, list, k)
    PROVE  Lists(IF c.key = k THEN Append(w, c.value) ELSE w, Append(list, c), k)
  <1> DEFINE S == PlacesOf(list, k)
             L == Append(list, c)
             n == Len(w)
  <1>1. PICK f \in [1..n -> S] :
            /\ Enumerates(f, S)
            /\ \A i \in 1..n : w[i] = list[f[i]].value
    BY DEF Lists
  <1>2. /\ DOMAIN L = 1..(Len(list) + 1) /\ DOMAIN list = 1..Len(list)
        /\ L[Len(list) + 1] = c /\ \A i \in DOMAIN list : L[i] = list[i]
        /\ Len(list) \in Nat /\ n \in Nat /\ DOMAIN f = 1..n
    OBVIOUS
  <1>3. S \subseteq 1..Len(list)
    BY <1>2 DEF PlacesOf
  <1>4. CASE c.key = k
    <2> DEFINE g == [i \in 1..(n + 1) |->
                        IF i = n + 1 THEN Len(list) + 1 ELSE f[i]]
               v == Append(w, c.value)
    <2>1. PlacesOf(L, k) = S \cup {Len(list) + 1}
      BY <1>2, <1>4 DEF PlacesOf
    <2>2. g \in [1..(n + 1) -> PlacesOf(L, k)]
      BY <1>2, <2>1
    <2>3. \A x \in PlacesOf(L, k) : \E i \in 1..(n + 1) : g[i] = x
      <3> SUFFICES ASSUME NEW x \in S PROVE \E i \in 1..(n + 1) : g[i] = x
        BY <1>2, <2>1
      <3>1. PICK i \in 1..n : f[i] = x
        BY <1>1, <1>2 DEF Enumerates
      <3> QED BY <1>2, <3>1
    <2>4. \A i, j \in 1..(n + 1) : i < j => g[i] < g[j]
      <3> TAKE i, j \in 1..(n + 1)
      <3> HAVE i < j
      <3>0. i \in 1..n /\ g[i] = f[i]
        BY <1>2
      <3>1. i \in 1..n /\ g[i] = f[i] /\ f[i] \in 1..Len(list)
        BY <1>3, <3>0
      <3>2. CASE j = n + 1
        BY <1>2, <3>1, <3>2
      <3>3. CASE j # n + 1
        <4>1. j \in 1..n /\ g[j] = f[j]
          BY <1>2, <3>3
        <4> QED BY <1>1, <1>2, <3>1, <4>1 DEF Enumerates
      <3> QED BY <3>2, <3>3
    <2>5. Enumerates(g, PlacesOf(L, k))
      BY <2>3, <2>4 DEF Enumerates
    <2>6. /\ Len(v) = n + 1 /\ v[n + 1] = c.value
          /\ \A i \in 1..n : v[i] = w[i]
      BY <1>2 DEF Command
    <2>7. \A i \in 1..(n + 1) : v[i] = L[g[i]].value
      <3> TAKE i \in 1..(n + 1)
      <3>1. CASE i = n + 1
        BY <1>2, <2>6, <3>1
      <3>2. CASE i # n + 1
        <4>1. i \in 1..n /\ g[i] = f[i] /\ f[i] \in DOMAIN list
          BY <1>2, <1>3, <3>2
        <4> QED BY <1>1, <1>2, <2>6, <4>1
      <3> QED BY <3>1, <3>2
    <2> HIDE DEF g, v, L
    <2>8. Lists(v, L, k)
      BY <2>2, <2>5, <2>6, <2>7 DEF Lists
    <2> QED BY <1>4, <2>8 DEF v, L
  <1>5. CASE c.key # k
    <2>1. PlacesOf(L, k) = S
      BY <1>2, <1>5 DEF PlacesOf
    <2>2. \A i \in 1..n : w[i] = L[f[i]].value
      BY <1>1, <1>2, <1>3
    <2>3. Lists(w, L, k)
      BY <1>1, <2>1, <2>2 DEF Lists
    <2> QED BY <1>5, <2>3
  <1> QED BY <1>4, <1>5

\* An element of a list that starts before a place and has that place taken
\* out: the places after it move up by one.
Moved(i, p) == IF i < p THEN i ELSE i - 1

\* Taking out a command for another register changes nothing, nor does
\* replacing one for another register.
LEMMA OthersLists ==
    ASSUME NEW list \in Seq(Command), NEW L \in Seq(Command), NEW k,
           NEW w \in Seq(Values), Lists(w, list, k),
           NEW p \in DOMAIN list, list[p].key # k, Len(L) + 1 = Len(list),
           \A i \in 1..Len(L) : i >= p => L[i] = list[i + 1],
           \A i \in 1..Len(L) : i < p => \/ L[i] = list[i]
                                         \/ L[i].key # k /\ list[i].key # k
    PROVE  Lists(w, L, k)
  <1> DEFINE S == PlacesOf(list, k)
             n == Len(w)
  <1>1. PICK f \in [1..n -> S] :
            /\ Enumerates(f, S)
            /\ \A i \in 1..n : w[i] = list[f[i]].value
    BY DEF Lists
  <1>2. /\ DOMAIN L = 1..Len(L) /\ DOMAIN list = 1..Len(list)
        /\ Len(L) \in Nat /\ n \in Nat /\ DOMAIN f = 1..n
        /\ p \in 1..Len(list) /\ Len(list) = Len(L) + 1
    OBVIOUS
  <1> DEFINE g == [i \in 1..n |-> Moved(f[i], p)]
  <1>3. ASSUME NEW x \in S
        PROVE  /\ x \in 1..Len(list) /\ x # p
               /\ Moved(x, p) \in PlacesOf(L, k)
               /\ L[Moved(x, p)] = list[x]
    <2>1. x \in 1..Len(list) /\ x # p /\ list[x].key = k
      BY <1>2 DEF PlacesOf
    <2>2. CASE x < p
      <3>1. Moved(x, p) = x /\ x \in 1..Len(L)
        BY <1>2, <2>1, <2>2 DEF Moved
      <3> QED BY <1>2, <2>1, <2>2, <3>1 DEF PlacesOf
    <2>3. CASE x > p
      <3>1. Moved(x, p) = x - 1 /\ x - 1 \in 1..Len(L) /\ x - 1 >= p
            /\ (x - 1) + 1 = x
        BY <1>2, <2>1, <2>3 DEF Moved
      <3>2. L[x - 1] = list[x]
        BY <3>1
      <3> QED BY <1>2, <2>1, <3>1, <3>2 DEF PlacesOf
    <2> QED BY <1>2, <2>1, <2>2, <2>3
  <1>4. g \in [1..n -> PlacesOf(L, k)]
    BY <1>3
  <1>5. ASSUME NEW y \in PlacesOf(L, k) PROVE \E i \in 1..n : g[i] = y
    <2>1. y \in 1..Len(L) /\ L[y].key = k
      BY <1>2 DEF PlacesOf
    <2> DEFINE x == IF y < p THEN y ELSE y + 1
    <2>2. x \in 1..Len(list) /\ list[x].key = k /\ Moved(x, p) = y
      BY <1>2, <2>1 DEF Moved
    <2>3. x \in S
      BY <1>2, <2>2 DEF PlacesOf
    <2>4. PICK i \in 1..n : f[i] = x
      BY <1>1, <1>2, <2>3 DEF Enumerates
    <2> QED BY <2>2, <2>4
  <1>6. ASSUME NEW i \in 1..n, NEW j \in 1..n, i < j PROVE g[i] < g[j]
    <2>1. f[i] < f[j] /\ f[i] \in S /\ f[j] \in S
      BY <1>1, <1>2, <1>6 DEF Enumerates
    <2>2. f[i] \in 1..Len(list) /\ f[j] \in 1..Len(list) /\ f[i] # p /\ f[j] # p
      BY <1>3, <2>1
    <2>3. Moved(f[i], p) < Moved(f[j], p)
      BY <1>2, <2>1, <2>2 DEF Moved
    <2> QED BY <2>3
  <1>7. Enumerates(g, PlacesOf(L, k))
    BY <1>4, <1>5, <1>6 DEF Enumerates
  <1>8. \A i \in 1..n : w[i] = L[g[i]].value
    BY <1>1, <1>3
  <1> HIDE DEF g
  <1> QED BY <1>4, <1>7, <1>8 DEF Lists

\* Taking out the first of the list, if it is for the register.
LEMMA FirstLists ==
    ASSUME NEW list \in Seq(Command), NEW k, NEW w \in Seq(Values),
           Lists(w, list, k), list # <<>>, Head(list).key = k
    PROVE  /\ w # <<>> /\ Head(w) = Head(list).value
           /\ Lists(Tail(w), Tail(list), k)
  <1> DEFINE S == PlacesOf(list, k)
             L == Tail(list)
             v == Tail(w)
             n == Len(w)
  <1>1. PICK f \in [1..n -> S] :
            /\ Enumerates(f, S)
            /\ \A i \in 1..n : w[i] = list[f[i]].value
    BY DEF Lists
  <1>2. /\ Len(list) \in Nat \ {0} /\ Head(list) = list[1]
        /\ L \in Seq(Command) /\ Len(L) = Len(list) - 1
        /\ \A i \in 1..Len(L) : L[i] = list[i + 1]
        /\ n \in Nat
    BY HeadTailProperties, EmptySeq
  <1>3. DOMAIN L = 1..Len(L) /\ DOMAIN list = 1..Len(list) /\ DOMAIN f = 1..n
    BY <1>2
  <1>4. S \subseteq 1..Len(list) /\ 1 \in S
    BY <1>2, <1>3 DEF PlacesOf
  <1>5. n >= 1 /\ f[1] = 1
    <2>1. PICK i \in 1..n : f[i] = 1
      BY <1>1, <1>3, <1>4 DEF Enumerates
    <2>2. ~(1 < i)
      <3>1. SUFFICES ASSUME 1 < i PROVE FALSE
        OBVIOUS
      <3>2. 1 \in 1..n /\ f[1] < f[i] /\ f[1] \in 1..Len(list)
        BY <1>1, <1>2, <1>3, <1>4, <2>1, <3>1 DEF Enumerates
      <3> QED BY <2>1, <3>2
    <2> QED BY <1>2, <2>1, <2>2
  <1>6. w # <<>>
    BY <1>5, EmptySeq
  <1>7. /\ Head(w) = w[1] /\ v \in Seq(Values) /\ Len(v) = n - 1
        /\ \A i \in 1..Len(v) : v[i] = w[i + 1]
    BY <1>6, HeadTailProperties
  <1> DEFINE g == [i \in 1..(n - 1) |-> f[i + 1] - 1]
  <1> HIDE DEF L, v
  <1>8. ASSUME NEW i \in 1..(n - 1)
        PROVE  /\ i + 1 \in 1..n /\ f[i + 1] \in S /\ f[i + 1] > 1
               /\ f[i + 1] \in 1..Len(list) /\ g[i] = f[i + 1] - 1
               /\ g[i] \in 1..Len(L) /\ L[g[i]] = list[f[i + 1]]
    <2>1. i + 1 \in 1..n /\ 1 \in 1..n /\ 1 < i + 1
      BY <1>2, <1>5
    <2>2. f[i + 1] \in S /\ f[1] < f[i + 1]
      BY <1>1, <1>3, <2>1 DEF Enumerates
    <2>3. f[i + 1] \in 1..Len(list) /\ f[i + 1] > 1
      BY <1>4, <1>5, <2>2
    <2>4. g[i] = f[i + 1] - 1 /\ g[i] \in 1..Len(L) /\ g[i] + 1 = f[i + 1]
      BY <1>2, <2>3
    <2> QED BY <1>2, <2>1, <2>2, <2>3, <2>4
  <1>9. g \in [1..(n - 1) -> PlacesOf(L, k)]
    BY <1>3, <1>8 DEF PlacesOf
  <1>10. ASSUME NEW y \in PlacesOf(L, k) PROVE \E i \in 1..(n - 1) : g[i] = y
    <2>1. y \in 1..Len(L) /\ L[y].key = k
      BY <1>3 DEF PlacesOf
    <2>2. y + 1 \in S /\ y + 1 # 1
      BY <1>2, <1>3, <2>1 DEF PlacesOf
    <2>3. PICK i \in 1..n : f[i] = y + 1
      BY <1>1, <1>3, <2>2 DEF Enumerates
    <2>4. i # 1
      BY <1>5, <2>2, <2>3
    <2>5. i - 1 \in 1..(n - 1) /\ (i - 1) + 1 = i
      BY <1>2, <2>3, <2>4
    <2>6. g[i - 1] = y
      BY <2>1, <2>3, <2>5
    <2> QED BY <2>5, <2>6
  <1>11. ASSUME NEW i \in 1..(n - 1), NEW j \in 1..(n - 1), i < j
         PROVE  g[i] < g[j]
    <2>1. i + 1 \in 1..n /\ j + 1 \in 1..n /\ i + 1 < j + 1
      BY <1>2, <1>11
    <2>2. f[i + 1] < f[j + 1]
      BY <1>1, <1>3, <2>1 DEF Enumerates
    <2>3. /\ g[i] = f[i + 1] - 1 /\ f[i + 1] \in 1..Len(list)
          /\ g[j] = f[j + 1] - 1 /\ f[j + 1] \in 1..Len(list)
      BY <1>8
    <2> HIDE DEF g
    <2> QED BY <1>2, <2>2, <2>3
  <1>12. Enumerates(g, PlacesOf(L, k))
    BY <1>9, <1>10, <1>11 DEF Enumerates
  <1>13. \A i \in 1..(n - 1) : v[i] = L[g[i]].value
    BY <1>1, <1>7, <1>8
  <1> HIDE DEF g
  <1>14. Lists(v, L, k)
    BY <1>7, <1>9, <1>12, <1>13 DEF Lists
  <1>15. Head(w) = Head(list).value
    <2>1. 1 \in 1..n
      BY <1>2, <1>5
    <2> QED BY <1>1, <1>2, <1>5, <1>7, <2>1
  <1> QED BY <1>6, <1>14, <1>15 DEF L, v

\* One list comes from another as Merge does: the first command for a register,
\* at q, is replaced by the second one, at p, which is taken out.
Replaced(list, L, p, q, k) ==
    /\ q < p /\ list[p].key = k /\ list[q].key = k
    /\ \A i \in DOMAIN list : i < p /\ list[i].key = k => i = q
    /\ Len(L) + 1 = Len(list) /\ L[q] = list[p]
    /\ \A i \in 1..Len(L) : i >= p => L[i] = list[i + 1]
    /\ \A i \in 1..Len(L) : i < p /\ i # q => L[i] = list[i]

\* Merging a command into the batch drops the oldest value of its register.
LEMMA SecondLists ==
    ASSUME NEW list \in Seq(Command), NEW L \in Seq(Command), NEW k,
           NEW w \in Seq(Values), Lists(w, list, k),
           NEW p \in DOMAIN list, NEW q \in DOMAIN list,
           Replaced(list, L, p, q, k)
    PROVE  Len(w) >= 2 /\ Lists(Tail(w), L, k)
  <1>0. /\ q < p /\ list[p].key = k /\ list[q].key = k
        /\ \A i \in DOMAIN list : i < p /\ list[i].key = k => i = q
        /\ Len(L) + 1 = Len(list) /\ L[q] = list[p]
        /\ \A i \in 1..Len(L) : i >= p => L[i] = list[i + 1]
        /\ \A i \in 1..Len(L) : i < p /\ i # q => L[i] = list[i]
    BY DEF Replaced
  <1> USE <1>0
  <1> DEFINE S == PlacesOf(list, k)
             v == Tail(w)
             n == Len(w)
  <1>1. PICK f \in [1..n -> S] :
            /\ Enumerates(f, S)
            /\ \A i \in 1..n : w[i] = list[f[i]].value
    BY DEF Lists
  <1>2. /\ DOMAIN L = 1..Len(L) /\ DOMAIN list = 1..Len(list)
        /\ Len(L) \in Nat /\ n \in Nat /\ DOMAIN f = 1..n
        /\ p \in 1..Len(list) /\ q \in 1..Len(list) /\ Len(list) = Len(L) + 1
    OBVIOUS
  <1>3. S \subseteq 1..Len(list) /\ p \in S /\ q \in S
    BY <1>2 DEF PlacesOf
  <1>4. \A x \in S : x < p => x = q
    BY <1>2 DEF PlacesOf
  <1>5. n >= 1 /\ f[1] = q
    <2>1. PICK i \in 1..n : f[i] = q
      BY <1>1, <1>2, <1>3 DEF Enumerates
    <2>2. ~(1 < i)
      <3>1. SUFFICES ASSUME 1 < i PROVE FALSE
        OBVIOUS
      <3>2. 1 \in 1..n
        BY <1>2, <2>1
      <3>3. f[1] < f[i] /\ f[1] \in S
        BY <1>1, <1>2, <2>1, <3>1, <3>2 DEF Enumerates
      <3>4. f[1] \in 1..Len(list)
        BY <1>3, <3>3
      <3> QED BY <1>2, <1>4, <2>1, <3>3, <3>4
    <2> QED BY <1>2, <2>1, <2>2
  <1>6. n >= 2 /\ f[2] = p
    <2>1. PICK i \in 1..n : f[i] = p
      BY <1>1, <1>2, <1>3 DEF Enumerates
    <2>2. i # 1 /\ 1 < i /\ 1 \in 1..n /\ 2 \in 1..n
      BY <1>2, <1>5, <2>1
    <2>3. ~(2 < i)
      <3>1. SUFFICES ASSUME 2 < i PROVE FALSE
        OBVIOUS
      <3>2. f[2] < f[i] /\ f[1] < f[2]
        <4>1. \A x, y \in 1..n : x < y => f[x] < f[y]
          BY <1>1, <1>2 DEF Enumerates
        <4> QED BY <2>2, <3>1, <4>1
      <3>4. f[2] \in S
        BY <2>2
      <3>3. f[2] \in 1..Len(list)
        BY <1>3, <3>4
      <3> QED BY <1>2, <1>4, <1>5, <2>1, <3>2, <3>3, <3>4
    <2> QED BY <1>2, <2>1, <2>2, <2>3
  <1>7. /\ v \in Seq(Values) /\ Len(v) = n - 1
        /\ \A i \in 1..(n - 1) : v[i] = w[i + 1]
    <2>1. w # <<>>
      BY <1>6, EmptySeq
    <2> QED BY <2>1, HeadTailProperties
  <1> DEFINE g == [i \in 1..(n - 1) |-> IF i = 1 THEN q ELSE f[i + 1] - 1]
  <1> HIDE DEF v
  <1>8. ASSUME NEW i \in 2..(n - 1)
        PROVE  /\ i + 1 \in 1..n /\ f[i + 1] \in S /\ f[i + 1] > p
               /\ f[i + 1] \in 1..Len(list) /\ g[i] = f[i + 1] - 1
               /\ g[i] \in 1..Len(L) /\ g[i] >= p /\ L[g[i]] = list[f[i + 1]]
    <2>1. i + 1 \in 1..n /\ 2 \in 1..n /\ 2 < i + 1
      BY <1>2, <1>6
    <2>2. f[i + 1] \in S /\ f[2] < f[i + 1]
      BY <1>1, <1>2, <2>1 DEF Enumerates
    <2>3. f[i + 1] \in 1..Len(list) /\ f[i + 1] > p
      BY <1>2, <1>3, <1>6, <2>2
    <2>4. g[i] = f[i + 1] - 1
      BY <1>2, <1>6
    <2> HIDE DEF g
    <2>5. g[i] \in 1..Len(L) /\ g[i] >= p /\ g[i] + 1 = f[i + 1]
      BY <1>2, <2>3, <2>4
    <2>6. L[g[i]] = list[f[i + 1]]
      BY <2>5
    <2> QED BY <2>1, <2>2, <2>3, <2>4, <2>5, <2>6
  <1>9. /\ g[1] = q /\ q \in 1..Len(L) /\ L[q] = list[f[2]] /\ 1 \in 1..(n - 1)
    BY <1>2, <1>6
  <1>10. \A i \in 1..(n - 1) : i = 1 \/ i \in 2..(n - 1)
    BY <1>2
  <1>11. ASSUME NEW i \in 1..(n - 1)
         PROVE  g[i] \in PlacesOf(L, k) /\ v[i] = L[g[i]].value
    <2>1. CASE i = 1
      <3>1. v[1] = w[2] /\ w[2] = list[f[2]].value
        BY <1>1, <1>2, <1>6, <1>7, <1>9
      <3>2. L[q].key = k /\ q \in DOMAIN L
        BY <1>2, <1>6, <1>9
      <3> HIDE DEF g
      <3>3. q \in PlacesOf(L, k)
        BY <3>2 DEF PlacesOf
      <3> QED BY <1>9, <2>1, <3>1, <3>3
    <2>2. CASE i \in 2..(n - 1)
      <3>1. v[i] = w[i + 1] /\ w[i + 1] = list[f[i + 1]].value
        BY <1>1, <1>7, <1>8, <2>2
      <3> HIDE DEF g
      <3> QED BY <1>2, <1>8, <2>2, <3>1 DEF PlacesOf
    <2> QED BY <1>10, <2>1, <2>2
  <1>12. ASSUME NEW y \in PlacesOf(L, k) PROVE \E i \in 1..(n - 1) : g[i] = y
    <2>1. y \in 1..Len(L) /\ L[y].key = k
      BY <1>2 DEF PlacesOf
    <2>2. CASE y = q
      BY <1>9, <2>2
    <2>3. CASE y # q
      <3>1. ~(y < p)
        <4>1. SUFFICES ASSUME y < p PROVE FALSE
          OBVIOUS
        <4>2. L[y] = list[y] /\ y \in DOMAIN list
          BY <1>2, <2>1, <2>3, <4>1
        <4> QED BY <2>1, <2>3, <4>1, <4>2
      <3>2. L[y] = list[y + 1] /\ y + 1 \in 1..Len(list) /\ y + 1 > p
        BY <1>2, <2>1, <3>1
      <3>3. y + 1 \in S
        BY <1>2, <2>1, <3>2 DEF PlacesOf
      <3>4. PICK i \in 1..n : f[i] = y + 1
        BY <1>1, <1>2, <3>3 DEF Enumerates
      <3>5. i # 1 /\ i # 2
        BY <1>2, <1>5, <1>6, <3>2, <3>4
      <3>6. i - 1 \in 1..(n - 1) /\ (i - 1) + 1 = i /\ i - 1 # 1
        BY <1>2, <3>4, <3>5
      <3>7. g[i - 1] = f[i] - 1
        BY <3>6
      <3>8. g[i - 1] = y
        BY <2>1, <3>4, <3>7
      <3> QED BY <3>6, <3>8
    <2> QED BY <2>2, <2>3
  <1>13. ASSUME NEW i \in 1..(n - 1), NEW j \in 1..(n - 1), i < j
         PROVE  g[i] < g[j]
    <2>1. j \in 2..(n - 1)
      BY <1>2, <1>13
    <2>2. g[j] = f[j + 1] - 1 /\ f[j + 1] \in 1..Len(list) /\ g[j] >= p
          /\ j + 1 \in 1..n
      BY <1>8, <2>1
    <2>3. CASE i = 1
      <3> HIDE DEF g
      <3> QED BY <1>2, <1>9, <2>2, <2>3
    <2>4. CASE i \in 2..(n - 1)
      <3>1. g[i] = f[i + 1] - 1 /\ f[i + 1] \in 1..Len(list) /\ i + 1 \in 1..n
        BY <1>8, <2>4
      <3>2. i + 1 < j + 1
        BY <1>13
      <3>3. f[i + 1] < f[j + 1]
        BY <1>1, <1>2, <2>2, <3>1, <3>2 DEF Enumerates
      <3> HIDE DEF g
      <3> QED BY <1>2, <2>2, <3>1, <3>3
    <2> QED BY <1>10, <2>3, <2>4
  <1>14. g \in [1..(n - 1) -> PlacesOf(L, k)] /\ DOMAIN g = 1..(n - 1)
    BY <1>11
  <1> HIDE DEF g
  <1>15. Enumerates(g, PlacesOf(L, k))
    BY <1>12, <1>13, <1>14 DEF Enumerates
  <1>16. Lists(v, L, k)
    BY <1>7, <1>11, <1>14, <1>15 DEF Lists
  <1> QED BY <1>6, <1>16 DEF v

\* A set that has 0, and n + 1 with every n, has every natural number.
LEMMA Induction ==
    ASSUME NEW T, 0 \in T, \A n \in Nat : n \in T => n + 1 \in T
    PROVE  Nat \subseteq T
  <1> DEFINE U == {n \in Nat : n \notin T}
  <1>1. U \in SUBSET Nat
    OBVIOUS
  <1>2. ASSUME U # {} PROVE FALSE
    <2>1. PICK n \in U : \A m \in U : n <= m
      <3> HIDE DEF U
      <3> QED BY <1>1, <1>2, Least
    <2>2. n \in Nat /\ n # 0
      BY <2>1
    <2>3. n - 1 \in Nat /\ n - 1 \notin U
      BY <2>1, <2>2
    <2>4. (n - 1) + 1 \in T
      BY <2>3
    <2> QED BY <2>1, <2>2, <2>4
  <1> QED BY <1>2

\* Every list of commands has its values for a register in order.
LEMMA AllListed ==
    ASSUME NEW list \in Seq(Command), NEW k \in Keys
    PROVE  /\ ValuesFor(list, k) \in Seq(Values)
           /\ Lists(ValuesFor(list, k), list, k)
  <1> DEFINE Listed(s) == \E w \in Seq(Values) : Lists(w, s, k)
             T == {n \in Nat : \A s \in Seq(Command) : Len(s) = n => Listed(s)}
  <1>1. 0 \in T
    <2> SUFFICES ASSUME NEW s \in Seq(Command), Len(s) = 0 PROVE Listed(s)
      OBVIOUS
    <2> DEFINE f == [i \in 1..0 |-> i]
    <2>1. PlacesOf(s, k) = {} /\ 1..0 = {}
      BY DEF PlacesOf
    <2>2. f \in [1..0 -> PlacesOf(s, k)] /\ Enumerates(f, PlacesOf(s, k))
      BY <2>1 DEF Enumerates
    <2>3. <<>> \in Seq(Values) /\ Len(<<>>) = 0
      OBVIOUS
    <2>4. Lists(<<>>, s, k)
      BY <2>1, <2>2, <2>3 DEF Lists
    <2> QED BY <2>3, <2>4
  <1>2. ASSUME NEW n \in Nat, n \in T PROVE n + 1 \in T
    <2> SUFFICES ASSUME NEW s \in Seq(Command), Len(s) = n + 1 PROVE Listed(s)
      OBVIOUS
    <2> DEFINE t == SubSeq(s, 1, n)
               c == s[n + 1]
    <2>1. t \in Seq(Command) /\ Len(t) = n /\ c \in Command /\ s = Append(t, c)
      <3>1. t \in Seq(Command) /\ Len(t) = n /\ \A i \in 1..n : t[i] = s[i]
        BY <1>2
      <3>2. c \in Command
        BY <1>2
      <3> HIDE DEF t
      <3>3. s = Append(t, c)
        BY <3>1, <3>2
      <3> QED BY <3>1, <3>2, <3>3
    <2> HIDE DEF t, c
    <2>2. PICK w \in Seq(Values) : Lists(w, t, k)
      BY <1>2, <2>1
    <2> DEFINE v == IF c.key = k THEN Append(w, c.value) ELSE w
    <2>3. Lists(v, s, k)
      BY <2>1, <2>2, AppendLists
    <2>4. v \in Seq(Values)
      BY <2>1 DEF Command
    <2> QED BY <2>3, <2>4
  <1> HIDE DEF Listed
  <1>3. Nat \subseteq T
    <2> HIDE DEF T
    <2> QED BY <1>1, <1>2, Induction
  <1>4. Listed(list)
    BY <1>3
  <1>5. PICK w \in Seq(Values) : Lists(w, list, k)
    BY <1>4 DEF Listed
  <1> QED BY <1>5, ValuesListed

\* The values after a command was appended.
LEMMA AfterAppend ==
    ASSUME NEW list \in Seq(Command), NEW c \in Command, NEW k \in Keys
    PROVE  ValuesFor(Append(list, c), k) =
               IF c.key = k THEN Append(ValuesFor(list, k), c.value)
                            ELSE ValuesFor(list, k)
  <1> DEFINE w == ValuesFor(list, k)
             v == IF c.key = k THEN Append(w, c.value) ELSE w
  <1>1. w \in Seq(Values) /\ Lists(w, list, k)
    BY AllListed
  <1> HIDE DEF w
  <1>2. v \in Seq(Values) /\ Append(list, c) \in Seq(Command)
    BY <1>1 DEF Command
  <1>3. Lists(v, Append(list, c), k)
    BY <1>1, AppendLists
  <1> HIDE DEF v
  <1>4. ValuesFor(Append(list, c), k) = v
    BY <1>2, <1>3, ValuesListed
  <1> QED BY <1>4 DEF v, w

\* The values after the first command is gone.
LEMMA AfterTail ==
    ASSUME NEW list \in Seq(Command), list # <<>>, NEW k \in Keys
    PROVE  IF Head(list).key = k
           THEN /\ ValuesFor(list, k) # <<>>
                /\ Head(ValuesFor(list, k)) = Head(list).value
                /\ ValuesFor(Tail(list), k) = Tail(ValuesFor(list, k))
           ELSE ValuesFor(Tail(list), k) = ValuesFor(list, k)
  <1> DEFINE w == ValuesFor(list, k)
             L == Tail(list)
  <1>1. w \in Seq(Values) /\ Lists(w, list, k)
    BY AllListed
  <1> HIDE DEF w
  <1>2. /\ Len(list) \in Nat \ {0} /\ Head(list) = list[1] /\ L \in Seq(Command)
        /\ Len(L) = Len(list) - 1 /\ \A i \in 1..Len(L) : L[i] = list[i + 1]
    BY HeadTailProperties, EmptySeq
  <1>3. CASE Head(list).key = k
    <2>1. w # <<>> /\ Head(w) = Head(list).value /\ Lists(Tail(w), L, k)
      BY <1>1, <1>3, FirstLists
    <2>2. Tail(w) \in Seq(Values)
      BY <1>1, <2>1, HeadTailProperties
    <2> HIDE DEF L
    <2>3. ValuesFor(L, k) = Tail(w)
      BY <1>2, <2>1, <2>2, ValuesListed
    <2> QED BY <1>3, <2>1, <2>3 DEF w, L
  <1>4. CASE Head(list).key # k
    <2>1. 1 \in DOMAIN list /\ list[1].key # k /\ Len(L) + 1 = Len(list)
      BY <1>2, <1>4
    <2>2. /\ \A i \in 1..Len(L) : i >= 1 => L[i] = list[i + 1]
          /\ \A i \in 1..Len(L) : ~(i < 1)
      BY <1>2
    <2> HIDE DEF L
    <2>3. Lists(w, L, k)
      BY <1>1, <1>2, <2>1, <2>2, OthersLists
    <2>4. ValuesFor(L, k) = w
      BY <1>1, <1>2, <2>3, ValuesListed
    <2> QED BY <1>4, <2>4 DEF w, L
  <1> QED BY <1>3, <1>4

\* Each register is in the batch once.
Once(list) == \A i, j \in DOMAIN list : list[i].key = list[j].key => i = j

\* Merging keeps it so.
LEMMA MergedOnce ==
    ASSUME NEW list \in Seq(Command), NEW c \in Command, Once(list)
    PROVE  Once(Merge(list, c))
  <1>1. CASE \E i \in DOMAIN list : list[i].key = c.key
    <2> DEFINE L == [i \in DOMAIN list |->
                        IF list[i].key = c.key THEN c ELSE list[i]]
    <2>1. DOMAIN L = DOMAIN list /\ \A i \in DOMAIN list : L[i].key = list[i].key
      OBVIOUS
    <2>2. Merge(list, c) = L
      BY <1>1 DEF Merge
    <2> HIDE DEF L
    <2> QED BY <2>1, <2>2 DEF Once
  <1>2. CASE ~ \E i \in DOMAIN list : list[i].key = c.key
    <2>1. Merge(list, c) = Append(list, c)
      BY <1>2 DEF Merge
    <2>2. /\ DOMAIN Append(list, c) = DOMAIN list \cup {Len(list) + 1}
          /\ \A i \in DOMAIN list : Append(list, c)[i] = list[i]
          /\ Append(list, c)[Len(list) + 1] = c
      OBVIOUS
    <2> QED BY <1>2, <2>1, <2>2 DEF Once
  <1> QED BY <1>1, <1>2

\* A command for a register not in the batch only moves from the queue to the
\* batch.
LEMMA AfterMove ==
    ASSUME NEW list \in Seq(Command), NEW rest \in Seq(Command), rest # <<>>,
           ~ \E i \in DOMAIN list : list[i].key = Head(rest).key
    PROVE  Merge(list, Head(rest)) \o Tail(rest) = list \o rest
  <1>1. Merge(list, Head(rest)) = Append(list, Head(rest))
    BY DEF Merge
  <1>2. Append(list, Head(rest)) \o Tail(rest) = list \o rest
    OBVIOUS
  <1> QED BY <1>1, <1>2

\* Where the elements of two lists are in both together.
LEMMA Joined ==
    \A s, t \in Seq(Command) :
        /\ s \o t \in Seq(Command) /\ Len(s \o t) = Len(s) + Len(t)
        /\ DOMAIN (s \o t) = 1..(Len(s) + Len(t))
        /\ \A i \in 1..Len(s) : (s \o t)[i] = s[i]
        /\ \A i \in 1..Len(t) : (s \o t)[Len(s) + i] = t[i]
  OBVIOUS

\* A command for a register in the batch takes the place of the older one.
LEMMA AfterMerge ==
    ASSUME NEW list \in Seq(Command), NEW rest \in Seq(Command), rest # <<>>,
           Once(list), NEW k \in Keys,
           \E i \in DOMAIN list : list[i].key = Head(rest).key
    PROVE  /\ Head(rest).key = k =>
                  /\ Len(ValuesFor(list \o rest, k)) >= 2
                  /\ ValuesFor(Merge(list, Head(rest)) \o Tail(rest), k)
                         = Tail(ValuesFor(list \o rest, k))
           /\ Head(rest).key # k =>
                  ValuesFor(Merge(list, Head(rest)) \o Tail(rest), k)
                      = ValuesFor(list \o rest, k)
  <1> DEFINE c == Head(rest)
             t == Tail(rest)
             M == [i \in DOMAIN list |->
                      IF list[i].key = c.key THEN c ELSE list[i]]
             s == list \o rest
             L == M \o t
             p == Len(list) + 1
             w == ValuesFor(s, k)
  <1>1. /\ c \in Command /\ c = rest[1] /\ t \in Seq(Command)
        /\ Len(rest) \in Nat \ {0} /\ Len(t) = Len(rest) - 1
        /\ \A i \in 1..Len(t) : t[i] = rest[i + 1]
    BY HeadTailProperties, EmptySeq
  <1> HIDE DEF c, t
  <1>2. /\ Len(list) \in Nat /\ DOMAIN list = 1..Len(list)
        /\ M \in Seq(Command) /\ Len(M) = Len(list)
        /\ \A i \in 1..Len(list) : M[i] = IF list[i].key = c.key THEN c ELSE list[i]
    <2>1. M \in [1..Len(list) -> Command] /\ Len(list) \in Nat
      BY <1>1
    <2>2. M \in Seq(Command)
      BY <2>1
    <2>3. Len(M) = Len(list)
      BY <2>1, <2>2, LenProperties
    <2> QED BY <2>1, <2>2, <2>3
  <1>3. Merge(list, c) = M
    BY DEF Merge, c
  <1> HIDE DEF M
  <1>4. /\ s \in Seq(Command) /\ Len(s) = Len(list) + Len(rest)
        /\ DOMAIN s = 1..(Len(list) + Len(rest))
        /\ \A i \in 1..Len(list) : s[i] = list[i]
        /\ \A i \in 1..Len(rest) : s[Len(list) + i] = rest[i]
    BY <1>1, <1>2
  <1>5. /\ L \in Seq(Command) /\ Len(L) = Len(list) + Len(t)
        /\ \A i \in 1..Len(list) : L[i] = M[i]
        /\ \A i \in 1..Len(t) : L[Len(list) + i] = t[i]
    <2>1. M \in Seq(Command) /\ t \in Seq(Command) /\ Len(M) = Len(list)
      BY <1>1, <1>2
    <2>2. /\ L \in Seq(Command) /\ Len(L) = Len(M) + Len(t)
          /\ \A i \in 1..Len(M) : L[i] = M[i]
          /\ \A i \in 1..Len(t) : L[Len(M) + i] = t[i]
      BY <2>1, Joined, Zenon
    <2> HIDE DEF L
    <2> QED BY <2>1, <2>2
  <1> HIDE DEF s, L
  <1>6. /\ p \in DOMAIN s /\ s[p] = c /\ Len(L) + 1 = Len(s)
    BY <1>1, <1>2, <1>4, <1>5
  <1>7. ASSUME NEW i \in 1..Len(L), i >= p PROVE L[i] = s[i + 1]
    <2>1. PICK j \in 1..Len(t) : i = Len(list) + j
      <3>1. i - Len(list) \in 1..Len(t) /\ i = Len(list) + (i - Len(list))
        BY <1>1, <1>2, <1>5, <1>7
      <3> QED BY <3>1
    <2>2. L[i] = t[j] /\ t[j] = rest[j + 1]
      BY <1>1, <1>5, <2>1
    <2>3. j + 1 \in 1..Len(rest) /\ i + 1 = Len(list) + (j + 1)
      BY <1>1, <1>2, <2>1
    <2>4. s[Len(list) + (j + 1)] = rest[j + 1]
      BY <1>4, <2>3
    <2> QED BY <2>2, <2>3, <2>4
  <1>8. w \in Seq(Values) /\ Lists(w, s, k)
    BY <1>4, AllListed
  <1> HIDE DEF w
  <1>9. CASE c.key = k
    <2>1. PICK q \in 1..Len(list) : list[q].key = c.key
      BY <1>2 DEF c
    <2>2. \A i \in 1..Len(list) : list[i].key = k => i = q
      BY <1>2, <1>9, <2>1 DEF Once
    <2>3. /\ q \in DOMAIN s /\ q < p /\ s[q].key = k /\ s[p].key = k
          /\ L[q] = s[p]
      BY <1>1, <1>2, <1>4, <1>5, <1>6, <1>9, <2>1
    <2>4. ASSUME NEW i \in DOMAIN s, i < p, s[i].key = k PROVE i = q
      <3>1. i \in 1..Len(list)
        BY <1>1, <1>2, <1>4, <2>4
      <3> QED BY <1>4, <2>2, <2>4, <3>1
    <2>5. ASSUME NEW i \in 1..Len(L), i < p, i # q PROVE L[i] = s[i]
      <3>1. i \in 1..Len(list)
        BY <1>1, <1>2, <1>5, <2>5
      <3>2. list[i].key # c.key
        BY <1>9, <2>2, <2>5, <3>1
      <3> QED BY <1>2, <1>4, <1>5, <3>1, <3>2
    <2> HIDE DEF p
    <2>6. Len(w) >= 2 /\ Lists(Tail(w), L, k)
      <3>1. \A i \in DOMAIN s : i < p /\ s[i].key = k => i = q
        BY <2>4
      <3>2. \A i \in 1..Len(L) : i >= p => L[i] = s[i + 1]
        BY <1>7
      <3>3. \A i \in 1..Len(L) : i < p /\ i # q => L[i] = s[i]
        BY <2>5
      <3>4. /\ s \in Seq(Command) /\ L \in Seq(Command) /\ w \in Seq(Values)
            /\ Lists(w, s, k) /\ p \in DOMAIN s /\ Len(L) + 1 = Len(s)
        BY <1>4, <1>5, <1>6, <1>8
      <3>5. Replaced(s, L, p, q, k)
        BY <2>3, <3>1, <3>2, <3>3, <3>4 DEF Replaced
      <3> QED BY <2>3, <3>4, <3>5, SecondLists
    <2>7. Tail(w) \in Seq(Values)
      <3>1. w # <<>>
        BY <2>6, EmptySeq
      <3> QED BY <1>8, <3>1, HeadTailProperties
    <2>8. ValuesFor(L, k) = Tail(w)
      BY <1>5, <2>6, <2>7, ValuesListed
    <2> QED BY <1>3, <1>9, <2>6, <2>8 DEF w, L, s, t, c
  <1>10. CASE c.key # k
    <2>1. ASSUME NEW i \in 1..Len(L), i < p
          PROVE  L[i] = s[i] \/ (L[i].key # k /\ s[i].key # k)
      <3>1. i \in 1..Len(list)
        BY <1>1, <1>2, <1>5, <2>1
      <3>2. L[i] = (IF list[i].key = c.key THEN c ELSE list[i]) /\ s[i] = list[i]
        BY <1>2, <1>4, <1>5, <3>1
      <3> QED BY <1>10, <3>2
    <2>2. s[p].key # k
      BY <1>6, <1>10
    <2> HIDE DEF p
    <2>3. Lists(w, L, k)
      BY <1>4, <1>5, <1>6, <1>7, <1>8, <2>1, <2>2, OthersLists
    <2>4. ValuesFor(L, k) = w
      BY <1>5, <1>8, <2>3, ValuesListed
    <2> QED BY <1>3, <1>10, <2>4 DEF w, L, s, t, c
  <1> QED BY <1>9, <1>10

-----------------------------------------------------------------------------
(* The steps of the polling service as steps of the mailbox.               *)

\* What is remembered as written was valid.
Written == \A k \in Keys : pendingWrites[k] \notin Invalid

\* The batch has each register once, besides.
MailboxInvariant == Invariant /\ Once(batch) /\ Written

\* The steps that leave the commands and the inverter alone.
Quiet ==
    /\ UNCHANGED <<batch, commands, device>>
    /\ pendingWrites' = pendingWrites \/ pendingWrites' = NoWrites

\* What a step of the polling service does to queue, batch and inverter.
LEMMA MailboxSteps ==
    ASSUME [Next]_vars
    PROVE  \/ Quiet
           \/ \E command \in Command : QueueConfigWrite(command)
           \/ TakeCommand
           \/ SkipCommand \/ RejectCommand \/ WriteConfig \/ WriteFails
           \/ \E k \in Keys, v \in Values : Panel(k, v)
  <1> USE DEF Quiet, shared, local, drain
  <1>1. CASE CallerStep
    <2>1. CASE Setter \/ HandlerWake \/ RequestTimeSync \/ Cancel
               \/ UNCHANGED vars
      BY <2>1 DEF Setter, SetPollingBump, SetPollingWake, HandlerWake,
         RequestTimeSync, Cancel, vars
    <2>2. ASSUME NEW on \in BOOLEAN, SetPollingSwap(on) PROVE Quiet
      BY <2>2 DEF SetPollingSwap
    <2>3. ASSUME NEW d \in Deadlines, Expire(d) PROVE Quiet
      BY <2>3 DEF Expire
    <2> HIDE DEF Quiet
    <2> QED BY <1>1, <2>1, <2>2, <2>3 DEF CallerStep
  <1>2. CASE LoadEnabled \/ LoadVersion \/ Decide \/ Wait \/ Cancelled
             \/ BeginDrain \/ TimeSyncBegin
    BY <1>2 DEF LoadEnabled, LoadVersion, Decide, Wait, Cancelled, BeginDrain,
       TimeSyncBegin
  <1>3. CASE PollConfig \/ TimeSyncEnd \/ PollStatus \/ OperationFails
    BY <1>3 DEF PollConfig, TimeSyncEnd, PollStatus, OperationFails
  <1>4. ASSUME NEW changed \in BOOLEAN, Watchdog(changed) PROVE Quiet
    BY <1>4 DEF Watchdog
  <1> HIDE DEF Quiet
  <1> QED BY <1>1, <1>2, <1>3, <1>4, Steps

\* An iteration of drainCommands takes the first command off.
LEMMA Iterated ==
    ASSUME MailboxInvariant, NEW wrote, Iteration(wrote)
    PROVE  /\ Head(batch) \in Command /\ batch' = Tail(batch)
           /\ commands' = commands
           /\ Head(batch \o commands) = Head(batch)
           /\ batch \o commands # <<>> /\ batch \o commands \in Seq(Command)
           /\ (batch \o commands)' = Tail(batch \o commands)
  <1>1. batch \in Seq(Command) /\ commands \in Seq(Command) /\ batch # <<>>
    BY DEF MailboxInvariant, Invariant, TypeOK, QueueTypeOK, Iteration
  <1>2. batch' = Tail(batch) /\ commands' = commands
    BY DEF Iteration, EndCommand, shared
  <1>3. Head(batch) \in Command
    BY <1>1, Rest
  <1>4. /\ batch \o commands \in Seq(Command) /\ batch \o commands # <<>>
        /\ Head(batch \o commands) = Head(batch)
        /\ Tail(batch \o commands) = Tail(batch) \o commands
    BY <1>1
  <1> QED BY <1>2, <1>3, <1>4

\* What remains of a batch has each register once.
LEMMA TailOnce ==
    ASSUME NEW list \in Seq(Command), list # <<>>, Once(list)
    PROVE  Once(Tail(list))
  <1>1. /\ Len(list) \in Nat \ {0} /\ Tail(list) \in Seq(Command)
        /\ Len(Tail(list)) = Len(list) - 1
        /\ \A i \in 1..Len(Tail(list)) : Tail(list)[i] = list[i + 1]
    BY HeadTailProperties, EmptySeq
  <1>2. /\ DOMAIN list = 1..Len(list)
        /\ DOMAIN Tail(list) = 1..Len(Tail(list))
    BY <1>1
  <1> SUFFICES ASSUME NEW i \in DOMAIN Tail(list), NEW j \in DOMAIN Tail(list),
                      Tail(list)[i].key = Tail(list)[j].key
               PROVE  i = j
    BY DEF Once
  <1>3. i + 1 \in DOMAIN list /\ j + 1 \in DOMAIN list
    BY <1>1, <1>2
  <1>4. list[i + 1].key = list[j + 1].key
    BY <1>1, <1>2
  <1>5. i + 1 = j + 1
    BY <1>3, <1>4 DEF Once
  <1> QED BY <1>1, <1>2, <1>5

\* Every step keeps registers apart in the batch (takeLatestConfigCommands) and
\* remembers as written only what WriteConfig accepted.
LEMMA MailboxStep ==
    ASSUME MailboxInvariant, [Next]_vars PROVE Once(batch)' /\ Written'
  <1>0. /\ Once(batch) /\ Written /\ batch \in Seq(Command)
        /\ commands \in Seq(Command) /\ taking \in Nat /\ Rounds
        /\ pendingWrites \in [Keys -> Values \cup {None}]
    BY DEF MailboxInvariant, Invariant, TypeOK, QueueTypeOK, RegistersTypeOK
  <1>1. CASE Quiet
    <2>1. None \notin Invalid
      BY ValuesAssumption
    <2> QED BY <1>0, <1>1, <2>1 DEF Quiet, Written, NoWrites
  <1>2. ASSUME NEW command \in Command, QueueConfigWrite(command)
        PROVE  Once(batch)' /\ Written'
    BY <1>0, <1>2 DEF QueueConfigWrite, Written, local, drain
  <1>3. CASE TakeCommand
    <2>1. Len(commands) >= 1
      BY <1>0, <1>3 DEF TakeCommand, Rounds
    <2>2. Head(commands) \in Command
      BY <1>0, <2>1, EmptySeq, Rest
    <2>3. batch' = Merge(batch, Head(commands)) /\ pendingWrites' = pendingWrites
      BY <1>3 DEF TakeCommand
    <2> QED BY <1>0, <2>2, <2>3, MergedOnce DEF Written
  <1>4. ASSUME NEW wrote, Iteration(wrote) PROVE Once(batch)'
    <2>1. batch' = Tail(batch) /\ batch # <<>>
      BY <1>4 DEF Iteration, EndCommand
    <2> QED BY <1>0, <2>1, TailOnce
  <1>5. CASE SkipCommand \/ RejectCommand
    <2>1. pendingWrites' = pendingWrites
      BY <1>5, Iterates
    <2> QED BY <1>0, <1>4, <1>5, <2>1, Iterates DEF Written
  <1>6. CASE WriteConfig
    <2>1. Head(batch) \in Command
      BY <1>0, <1>6, Rest DEF WriteConfig
    <2>2. Written'
      BY <1>0, <1>6, <2>1 DEF WriteConfig, Written, Command
    <2> QED BY <1>4, <1>6, <2>2, Iterates
  <1>7. CASE WriteFails
    BY <1>0, <1>7 DEF WriteFails, Written, drain
  <1>8. ASSUME NEW k \in Keys, NEW v \in Values, Panel(k, v)
        PROVE  Once(batch)' /\ Written'
    BY <1>0, <1>8 DEF Panel, Written, local, drain
  <1> QED BY <1>1, <1>2, <1>3, <1>4, <1>5, <1>6, <1>7, <1>8, MailboxSteps

\* The mailbox after the first command of the batch is done with.
LEMMA WaitingAfter ==
    ASSUME MailboxInvariant, NEW wrote, Iteration(wrote)
    PROVE  /\ Head(batch) \in Command
           /\ Head(batch).key \in CommandKeys =>
                  /\ Waiting[Head(batch).key] # <<>>
                  /\ Head(Waiting[Head(batch).key]) = Head(batch).value
                  /\ Waiting' = [Waiting EXCEPT ![Head(batch).key] = Tail(@)]
           /\ Head(batch).key \notin CommandKeys => Waiting' = Waiting
  <1> DEFINE s == batch \o commands
             c == Head(batch)
  <1>1. /\ c \in Command /\ Head(s) = c /\ s # <<>> /\ s \in Seq(Command)
        /\ s' = Tail(s)
    BY Iterated
  <1>2. /\ Waiting = [k \in CommandKeys |-> ValuesFor(s, k)]
        /\ Waiting' = [k \in CommandKeys |-> ValuesFor(s', k)]
    BY DEF Waiting
  <1> HIDE DEF s, c
  <1>3. ASSUME NEW k \in CommandKeys
        PROVE  /\ c.key = k => /\ ValuesFor(s, k) # <<>>
                               /\ Head(ValuesFor(s, k)) = c.value
                               /\ ValuesFor(s', k) = Tail(ValuesFor(s, k))
               /\ c.key # k => ValuesFor(s', k) = ValuesFor(s, k)
    BY <1>1, AfterTail DEF CommandKeys
  <1>4. CASE c.key \in CommandKeys
    BY <1>1, <1>2, <1>3, <1>4 DEF c
  <1>5. CASE c.key \notin CommandKeys
    BY <1>1, <1>2, <1>3, <1>5 DEF c
  <1> QED BY <1>4, <1>5 DEF c

\* A queued command is accepted.
LEMMA Accepts ==
    ASSUME MailboxInvariant, NEW c \in Command, QueueConfigWrite(c)
    PROVE  [Mailbox!Next]_(Mailbox!vars)
  <1> DEFINE s == batch \o commands
  <1>1. s \in Seq(Command) /\ s' = Append(s, c) /\ device' = device
    <2>1. batch \in Seq(Command) /\ commands \in Seq(Command)
      BY DEF MailboxInvariant, Invariant, TypeOK, QueueTypeOK
    <2>2. /\ commands' = Append(commands, c)
          /\ UNCHANGED <<batch, device>>
      BY DEF QueueConfigWrite, local, drain
    <2>3. batch \o Append(commands, c) = Append(batch \o commands, c)
      BY <2>1
    <2> QED BY <2>1, <2>2, <2>3
  <1>2. /\ Waiting = [k \in CommandKeys |-> ValuesFor(s, k)]
        /\ Waiting' = [k \in CommandKeys |-> ValuesFor(s', k)]
        /\ Commanded' = Commanded
    BY <1>1 DEF Waiting, Commanded
  <1> HIDE DEF s
  <1>3. \A k \in CommandKeys : ValuesFor(s', k) =
            IF c.key = k THEN Append(ValuesFor(s, k), c.value) ELSE ValuesFor(s, k)
    BY <1>1, AfterAppend DEF CommandKeys
  <1>4. CASE c.key \in CommandKeys
    <2>1. Waiting' = [Waiting EXCEPT ![c.key] = Append(@, c.value)]
      BY <1>2, <1>3, <1>4
    <2>2. Mailbox!Accept(c.key, c.value)
      BY <1>2, <2>1 DEF Mailbox!Accept
    <2>3. c.value \in Values
      BY DEF Command
    <2> QED BY <1>4, <2>2, <2>3 DEF Mailbox!Next
  <1>5. CASE c.key \notin CommandKeys
    <2>1. Waiting' = Waiting
      BY <1>2, <1>3, <1>5
    <2> QED BY <1>2, <2>1 DEF Mailbox!vars
  <1> QED BY <1>4, <1>5

\* A command taken into the batch supersedes the one that was there.
LEMMA Supersedes ==
    ASSUME MailboxInvariant, TakeCommand
    PROVE  [Mailbox!Next]_(Mailbox!vars)
  <1> DEFINE c == Head(commands)
             old(k) == ValuesFor(batch \o commands, k)
             new(k) == ValuesFor(Merge(batch, c) \o Tail(commands), k)
  <1>1. /\ batch \in Seq(Command) /\ commands \in Seq(Command)
        /\ taking \in Nat /\ Rounds /\ Once(batch)
    BY DEF MailboxInvariant, Invariant, TypeOK, QueueTypeOK
  <1>2. commands # <<>>
    <2>1. Len(commands) >= 1
      BY <1>1 DEF TakeCommand, Rounds
    <2> QED BY <1>1, <2>1, EmptySeq
  <1>3. batch' = Merge(batch, c) /\ commands' = Tail(commands) /\ device' = device
    BY DEF TakeCommand
  <1>4. /\ Waiting = [k \in CommandKeys |-> old(k)]
        /\ Waiting' = [k \in CommandKeys |-> new(k)]
        /\ Commanded' = Commanded
    BY <1>3 DEF Waiting, Commanded
  <1>5. CASE ~ \E i \in DOMAIN batch : batch[i].key = c.key
    <2>1. Merge(batch, c) \o Tail(commands) = batch \o commands
      BY <1>1, <1>2, <1>5, AfterMove
    <2> QED BY <1>4, <2>1 DEF Mailbox!vars
  <1>6. CASE \E i \in DOMAIN batch : batch[i].key = c.key
    <2>1. ASSUME NEW k \in CommandKeys
          PROVE  new(k) \in Seq(Values) /\ Mailbox!Newer(old(k), new(k))
      <3>0. k \in Keys /\ batch \o commands \in Seq(Command)
        BY <1>1 DEF CommandKeys
      <3>1. old(k) \in Seq(Values)
        BY <3>0, AllListed
      <3>2. /\ c.key = k => Len(old(k)) >= 2 /\ new(k) = Tail(old(k))
            /\ c.key # k => new(k) = old(k)
        BY <1>1, <1>2, <1>6, <3>0, AfterMerge
      <3> HIDE DEF c, old, new
      <3>3. CASE c.key = k
        <4>1. /\ new(k) = SubSeq(old(k), 1 + 1, Len(old(k))) /\ new(k) \in Seq(Values)
              /\ 1 \in 0..Len(old(k)) /\ Len(old(k)) # 1
          BY <3>1, <3>2, <3>3
        <4> QED BY <4>1, Zenon DEF Mailbox!Newer
      <3>4. CASE c.key # k
        <4>1. /\ new(k) = SubSeq(old(k), 0 + 1, Len(old(k))) /\ 0 \in 0..Len(old(k))
          BY <3>1, <3>2, <3>4
        <4> QED BY <3>1, <3>2, <3>4, <4>1, Zenon DEF Mailbox!Newer
      <3> QED BY <3>3, <3>4
    <2> HIDE DEF c, old, new
    <2>2. Mailbox!Supersede
      BY <1>4, <2>1 DEF Mailbox!Supersede
    <2> QED BY <2>2 DEF Mailbox!Next
  <1> QED BY <1>5, <1>6

\* A command whose value was written already is as good as applied: the
\* inverter holds its value.  That is why the memory of written values has to
\* be faithful.
LEMMA Skips ==
    ASSUME MailboxInvariant, SkipCommand
    PROVE  [Mailbox!Next]_(Mailbox!vars)
  <1> DEFINE c == Head(batch)
  <1>1. Iteration(FALSE) /\ device' = device
    BY Iterates
  <1>2. /\ c \in Command
        /\ c.key \in CommandKeys =>
               /\ Waiting[c.key] # <<>> /\ Head(Waiting[c.key]) = c.value
               /\ Waiting' = [Waiting EXCEPT ![c.key] = Tail(@)]
        /\ c.key \notin CommandKeys => Waiting' = Waiting
    BY <1>1, WaitingAfter
  <1>3. Commanded' = Commanded
    BY <1>1 DEF Commanded
  <1>4. CASE c.key \in CommandKeys
    <2>1. c.key \in Keys /\ c.value \in Values /\ pendingWrites[c.key] = c.value
          /\ pc # "stopped"
      BY <1>2 DEF Command, SkipCommand, AlreadyWritten
    <2>2. device[c.key] = c.value /\ c.value \notin Invalid
      BY <1>4, <2>1, ValuesAssumption
         DEF MailboxInvariant, Invariant, PendingWritesHeld, Written, CommandKeys
    <2>3. Commanded' = [Commanded EXCEPT ![c.key] = Head(Waiting[c.key])]
      BY <1>2, <1>3, <1>4, <2>2 DEF Commanded
    <2> HIDE DEF c
    <2>4. Mailbox!Apply(c.key, TRUE)
      BY <1>2, <1>4, <2>2, <2>3 DEF Mailbox!Apply
    <2> QED BY <1>4, <2>4 DEF Mailbox!Next
  <1>5. CASE c.key \notin CommandKeys
    BY <1>2, <1>3, <1>5 DEF Mailbox!vars
  <1> QED BY <1>4, <1>5

\* A rejected command is refused.
LEMMA Rejects ==
    ASSUME MailboxInvariant, RejectCommand
    PROVE  [Mailbox!Next]_(Mailbox!vars)
  <1> DEFINE c == Head(batch)
  <1>1. Iteration(FALSE) /\ device' = device
    BY Iterates
  <1>2. /\ c \in Command
        /\ c.key \in CommandKeys =>
               /\ Waiting[c.key] # <<>> /\ Head(Waiting[c.key]) = c.value
               /\ Waiting' = [Waiting EXCEPT ![c.key] = Tail(@)]
        /\ c.key \notin CommandKeys => Waiting' = Waiting
    BY <1>1, WaitingAfter
  <1>3. Commanded' = Commanded /\ c.value \in Invalid
    BY <1>1 DEF Commanded, RejectCommand
  <1> HIDE DEF c
  <1>4. CASE c.key \in CommandKeys
    <2>1. Mailbox!Refuse(c.key)
      BY <1>2, <1>3, <1>4 DEF Mailbox!Refuse
    <2> QED BY <1>4, <2>1 DEF Mailbox!Next
  <1>5. CASE c.key \notin CommandKeys
    BY <1>2, <1>3, <1>5 DEF Mailbox!vars
  <1> QED BY <1>4, <1>5

\* A written command is applied.
LEMMA Writes ==
    ASSUME MailboxInvariant, WriteConfig
    PROVE  [Mailbox!Next]_(Mailbox!vars)
  <1> DEFINE c == Head(batch)
  <1>1. Iteration(TRUE)
    BY Iterates
  <1>2. /\ c \in Command
        /\ c.key \in CommandKeys =>
               /\ Waiting[c.key] # <<>> /\ Head(Waiting[c.key]) = c.value
               /\ Waiting' = [Waiting EXCEPT ![c.key] = Tail(@)]
        /\ c.key \notin CommandKeys => Waiting' = Waiting
    BY <1>1, WaitingAfter
  <1>3. device' = [device EXCEPT ![c.key] = c.value] /\ c.value \notin Invalid
        /\ device \in [Keys -> Values]
    BY DEF WriteConfig, MailboxInvariant, Invariant, TypeOK, RegistersTypeOK
  <1> HIDE DEF c
  <1>4. CASE c.key \in CommandKeys
    <2>1. Commanded' = [Commanded EXCEPT ![c.key] = c.value]
      BY <1>3, <1>4 DEF Commanded, CommandKeys
    <2>2. Mailbox!Apply(c.key, TRUE)
      BY <1>2, <1>3, <1>4, <2>1 DEF Mailbox!Apply
    <2> QED BY <1>4, <2>2 DEF Mailbox!Next
  <1>5. CASE c.key \notin CommandKeys
    <2>1. Commanded' = Commanded
      BY <1>3, <1>5 DEF Commanded, CommandKeys
    <2> QED BY <1>2, <1>5, <2>1 DEF Mailbox!vars
  <1> QED BY <1>4, <1>5

\* A write that failed was applied or not, and the service does not know.
LEMMA Fails ==
    ASSUME MailboxInvariant, WriteFails
    PROVE  [Mailbox!Next]_(Mailbox!vars)
  <1> DEFINE c == Head(batch)
             s == batch \o commands
  <1>1. /\ batch \in Seq(Command) /\ commands \in Seq(Command) /\ batch # <<>>
        /\ device \in [Keys -> Values]
    BY DEF WriteFails, MailboxInvariant, Invariant, TypeOK, QueueTypeOK,
       RegistersTypeOK
  <1>2. /\ s \in Seq(Command) /\ s # <<>> /\ Head(s) = c
    BY <1>1
  <1>3. Waiting' = Waiting
    BY DEF WriteFails, Waiting, drain, shared
  <1>4. /\ device' = device \/ device' = [device EXCEPT ![c.key] = c.value]
        /\ c.value \notin Invalid
    BY DEF WriteFails
  <1>5. Waiting = [k \in CommandKeys |-> ValuesFor(s, k)]
    BY DEF Waiting
  <1> HIDE DEF c, s
  <1>6. CASE device' = device \/ c.key \notin CommandKeys
    <2>1. Commanded' = Commanded
      BY <1>1, <1>4, <1>6 DEF Commanded, CommandKeys
    <2> QED BY <1>3, <2>1 DEF Mailbox!vars
  <1>7. CASE device' = [device EXCEPT ![c.key] = c.value] /\ c.key \in CommandKeys
    <2>1. c.key \in Keys
      BY <1>7 DEF CommandKeys
    <2>2. ValuesFor(s, c.key) # <<>> /\ Head(ValuesFor(s, c.key)) = c.value
      BY <1>2, <2>1, AfterTail
    <2>3. Waiting[c.key] # <<>> /\ Head(Waiting[c.key]) = c.value
      BY <1>5, <1>7, <2>2
    <2>4. Commanded' = [Commanded EXCEPT ![c.key] = c.value]
      BY <1>1, <1>7 DEF Commanded, CommandKeys
    <2>5. Mailbox!Apply(c.key, FALSE)
      BY <1>3, <1>4, <2>3, <2>4 DEF Mailbox!Apply
    <2> QED BY <1>7, <2>5 DEF Mailbox!Next
  <1> QED BY <1>4, <1>6, <1>7

-----------------------------------------------------------------------------
(* The theorem.                                                            *)

\* The queue of QueueConfigWrite, takeLatestConfigCommands and drainCommands
\* implement the mailbox: for every register nobody sets at the front panel,
\* accepted values reach the inverter in order, an older one may be superseded
\* by a newer one, and the newest is applied or refused.
THEOREM MailboxImplemented == Spec => ImplementsMailbox
  <1>1. Init => MailboxInvariant
    <2> SUFFICES ASSUME Init PROVE MailboxInvariant
      OBVIOUS
    <2>1. Once(batch)
      <3>1. batch = <<>>
        BY DEF Init
      <3> QED BY <3>1 DEF Once
    <2>2. Written
      BY ValuesAssumption DEF Init, Written, NoWrites
    <2> QED BY <2>1, <2>2, InitInvariant DEF MailboxInvariant
  <1>2. MailboxInvariant /\ [Next]_vars => MailboxInvariant'
    <2>1. Invariant /\ [Next]_vars => Invariant'
      BY InvariantStep
    <2> QED BY <2>1, MailboxStep DEF MailboxInvariant
  <1>3. Init => Mailbox!Init
    <2> SUFFICES ASSUME Init PROVE Mailbox!Init
      OBVIOUS
    <2>1. ASSUME NEW k \in CommandKeys PROVE ValuesFor(batch \o commands, k) = <<>>
      <3>1. batch \o commands = <<>> /\ <<>> \in Seq(Command) /\ <<>> \in Seq(Values)
        BY DEF Init
      <3>2. PlacesOf(<<>>, k) = {}
        BY DEF PlacesOf
      <3>3. Lists(<<>>, <<>>, k)
        <4> DEFINE f == [i \in 1..0 |-> i]
        <4>1. f \in [1..0 -> {}] /\ Enumerates(f, {}) /\ Len(<<>>) = 0 /\ 1..0 = {}
          BY DEF Enumerates
        <4> QED BY <3>2, <4>1 DEF Lists
      <3> QED BY <3>1, <3>3, ValuesListed
    <2>2. Waiting = [k \in CommandKeys |-> <<>>]
      BY <2>1 DEF Waiting
    <2>3. Commanded \in [CommandKeys -> Values \ Invalid]
      BY DEF Init, Commanded, CommandKeys
    <2> QED BY <2>2, <2>3 DEF Mailbox!Init
  <1>4. MailboxInvariant /\ [Next]_vars => [Mailbox!Next]_(Mailbox!vars)
    <2> SUFFICES ASSUME MailboxInvariant, [Next]_vars
                 PROVE  [Mailbox!Next]_(Mailbox!vars)
      OBVIOUS
    <2>1. CASE Quiet
      BY <2>1 DEF Quiet, Mailbox!vars, Waiting, Commanded
    <2>2. ASSUME NEW k \in Keys, NEW v \in Values, Panel(k, v)
          PROVE  [Mailbox!Next]_(Mailbox!vars)
      <3>1. /\ UNCHANGED <<batch, commands>> /\ k \in PanelKeys
            /\ device' = [device EXCEPT ![k] = v]
        BY <2>2 DEF Panel, local, drain, shared
      <3>2. device \in [Keys -> Values]
        BY DEF MailboxInvariant, Invariant, TypeOK, RegistersTypeOK
      <3>3. Commanded' = Commanded /\ Waiting' = Waiting
        BY <3>1, <3>2 DEF Commanded, Waiting, CommandKeys
      <3> QED BY <3>3 DEF Mailbox!vars
    <2> QED BY <2>1, <2>2, MailboxSteps, Accepts, Supersedes, Skips, Rejects,
              Writes, Fails
  <1> QED BY <1>1, <1>2, <1>3, <1>4, PTL DEF Spec, ImplementsMailbox, Mailbox!Spec

=============================================================================
