---------------------------- MODULE PipelineProofs ----------------------------
(***************************************************************************)
(* What holds of every profile, every fragment and every cache (Pipeline): *)
(* a profile has one expansion, and what was admitted runs through.        *)
(***************************************************************************)
EXTENDS Pipeline, FiniteSetTheorems, SequenceTheorems, WellFoundedInduction, TLAPS

AnyItem == Items(Nat, SUBSET Nat)
AnyDoc  == Docs(Nat, SUBSET Nat)

-----------------------------------------------------------------------------
(* Numbers                                                                  *)

LEMMA LeastNumber ==
  ASSUME NEW T \in SUBSET Nat, T # {}
  PROVE  \E m \in T : \A k \in T : m <= k
<1>1. PICK m \in T : \A k \in T : <<k, m>> \notin OpToRel(<, Nat)
  BY NatLessThanWellFounded, WFMin
<1>2. \A k \in T : ~ (k < m)
  BY <1>1, Zenon DEF OpToRel
<1> QED BY <1>2

\* The ids of items, one after the other.
LEMMA LastIdsExist ==
  ASSUME NEW v, NEW L \in Nat, NEW n \in Nat, v \in [1 .. L -> Nat]
  PROVE  \E last \in [0 .. L -> Nat] :
           last[0] = n /\ \A i \in 1 .. L : last[i] = last[i - 1] + v[i] + 1
<1> DEFINE Upto(m, g) == /\ g \in [0 .. m -> Nat] /\ g[0] = n
                         /\ \A i \in 1 .. m : g[i] = g[i - 1] + v[i] + 1
           Short == {m \in 0 .. L : ~ \E g : Upto(m, g)}
<1>1. Short \subseteq 0 .. L /\ \A m \in 0 .. L : m \in Short <=> ~ \E g : Upto(m, g)
  OBVIOUS
<1>2. Upto(0, [i \in 0 .. 0 |-> n])
  OBVIOUS
<1>3. ASSUME NEW m \in 1 .. L, NEW g, Upto(m - 1, g)
      PROVE  Upto(m, [i \in 0 .. m |-> IF i = m THEN g[m - 1] + v[m] + 1 ELSE g[i]])
  <2> DEFINE h == [i \in 0 .. m |-> IF i = m THEN g[m - 1] + v[m] + 1 ELSE g[i]]
  <2>1. m \in Nat /\ m - 1 \in Nat /\ v[m] \in Nat /\ g[m - 1] \in Nat
    BY <1>3
  <2>2. g \in [0 .. m - 1 -> Nat] /\ g[0] = n /\ \A i \in 1 .. m - 1 : g[i] = g[i - 1] + v[i] + 1
    BY <1>3
  <2>3. h \in [0 .. m -> Nat]
    BY <2>1, <2>2
  <2>4. h[0] = n
    BY <2>1, <2>2
  <2>5. ASSUME NEW i \in 1 .. m PROVE h[i] = h[i - 1] + v[i] + 1
    <3>1. CASE i = m
      BY <2>1, <3>1
    <3>2. CASE i # m
      <4>1. i \in 1 .. m - 1 /\ i \in 0 .. m /\ i - 1 \in 0 .. m /\ i - 1 # m
        BY <2>1, <3>2
      <4> QED BY <2>2, <3>2, <4>1
    <3> QED BY <3>1, <3>2
  <2> HIDE DEF h
  <2>6. Upto(m, h)
    BY <2>3, <2>4, <2>5
  <2> QED BY <2>6 DEF h
<1> HIDE DEF Upto, Short
<1>4. Short = {}
  <2> SUFFICES ASSUME Short # {} PROVE FALSE
    OBVIOUS
  <2>1. Short \in SUBSET Nat
    BY <1>1
  <2>2. PICK m \in Short : \A k \in Short : m <= k
    BY <2>1, LeastNumber
  <2>3. m \in 1 .. L
    BY <1>1, <1>2, <2>2
  <2>4. m - 1 \in 0 .. L /\ m - 1 \notin Short
    BY <2>2, <2>3
  <2>5. PICK g : Upto(m - 1, g)
    BY <1>1, <2>4
  <2> QED BY <1>1, <1>3, <2>2, <2>3, <2>5
<1>5. PICK g : Upto(L, g)
  BY <1>1, <1>4
<1>6. /\ g \in [0 .. L -> Nat] /\ g[0] = n
      /\ \A i \in 1 .. L : g[i] = g[i - 1] + v[i] + 1
  BY <1>5 DEF Upto
<1> QED BY <1>6

LEMMA LastIdsRecursion ==
  ASSUME NEW items \in Seq(AnyItem), NEW n \in Nat
  PROVE  /\ LastIds(items, n) \in [0 .. Len(items) -> Nat]
         /\ LastIds(items, n)[0] = n
         /\ \A i \in 1 .. Len(items) :
              LastIds(items, n)[i] = LastIds(items, n)[i - 1] + items[i].values + 1
<1> DEFINE L == Len(items)
           v == [i \in 1 .. L |-> items[i].values]
           Is(last) == last = [i \in 0 .. L |->
                                 IF i = 0 THEN n ELSE last[i - 1] + items[i].values + 1]
<1>1. \A i \in 1 .. L : items[i].values \in Nat
  BY DEF AnyItem, Items
<1>2. v \in [1 .. L -> Nat] /\ L \in Nat
  BY <1>1
<1>3. PICK g \in [0 .. L -> Nat] :
               g[0] = n /\ \A i \in 1 .. L : g[i] = g[i - 1] + v[i] + 1
  <2> HIDE DEF v, L
  <2> QED BY <1>2, LastIdsExist
<1>4. Is(g)
  <2>1. \A i \in 0 .. L : g[i] = IF i = 0 THEN n ELSE g[i - 1] + items[i].values + 1
    BY <1>2, <1>3
  <2> QED BY <1>3, <2>1
<1>5. LastIds(items, n) = CHOOSE last : Is(last)
  BY DEF LastIds
<1> DEFINE h == LastIds(items, n)
<1>6. Is(h)
  <2> HIDE DEF Is
  <2> QED BY <1>4, <1>5
<1>7. \A i \in 0 .. L : h[i] = IF i = 0 THEN n ELSE h[i - 1] + items[i].values + 1
  BY <1>6
<1>8. DOMAIN h = 0 .. L /\ h[0] = n
  BY <1>2, <1>6, <1>7
<1>9. \A i \in 1 .. L : h[i] = h[i - 1] + items[i].values + 1
  BY <1>2, <1>7
<1> DEFINE Odd == {i \in 0 .. L : h[i] \notin Nat}
<1>10. Odd = {}
  <2> SUFFICES ASSUME Odd # {} PROVE FALSE
    OBVIOUS
  <2>1. /\ Odd \in SUBSET Nat /\ Odd \subseteq 0 .. L
        /\ \A i \in 0 .. L : i \in Odd <=> h[i] \notin Nat
    OBVIOUS
  <2> HIDE DEF Odd, h, L
  <2>2. PICK m \in Odd : \A k \in Odd : m <= k
    BY <2>1, LeastNumber
  <2>3. m \in 1 .. L
    BY <1>2, <1>8, <2>1, <2>2
  <2>4. m - 1 \in 0 .. L /\ m - 1 \notin Odd
    BY <1>2, <2>2, <2>3
  <2> QED BY <1>1, <1>9, <2>1, <2>2, <2>3, <2>4, SMTT(60)
<1>11. h = [i \in 0 .. L |-> h[i]]
  BY <1>6
<1> QED BY <1>8, <1>9, <1>10, <1>11

LEMMA LastIdsGrow ==
  ASSUME NEW items \in Seq(AnyItem), NEW n \in Nat
  PROVE  \A i, j \in 0 .. Len(items) : i < j => LastIds(items, n)[i] < LastIds(items, n)[j]
<1> DEFINE L == Len(items)
           last == LastIds(items, n)
<1>1. /\ L \in Nat /\ last \in [0 .. L -> Nat] /\ last[0] = n
      /\ \A i \in 1 .. L : last[i] = last[i - 1] + items[i].values + 1
      /\ \A i \in 1 .. L : items[i].values \in Nat
  BY LastIdsRecursion DEF AnyItem, Items
<1> HIDE DEF L, last
<1> SUFFICES ASSUME NEW i \in 0 .. L, NEW o \in 0 .. L, i < o, ~ (last[i] < last[o])
             PROVE  FALSE
  BY DEF L, last
<1> DEFINE Low == {j \in 0 .. L : i < j /\ ~ (last[i] < last[j])}
<1>2. Low \in SUBSET Nat /\ Low # {}
  <2>1. o \in Low
    OBVIOUS
  <2>2. \A j \in Low : j \in Nat
    BY <1>1
  <2> QED BY <2>1, <2>2
<1>3. PICK m \in Low : \A k \in Low : m <= k
  BY <1>2, LeastNumber
<1>4. m \in 1 .. L /\ m - 1 \in 0 .. L /\ i < m /\ ~ (last[i] < last[m])
  BY <1>1, <1>3
<1>5. last[m] = last[m - 1] + items[m].values + 1 /\ items[m].values \in Nat
      /\ last[m - 1] \in Nat /\ last[i] \in Nat
  BY <1>1, <1>4
<1>6. CASE i = m - 1
  BY <1>4, <1>5, <1>6
<1>7. CASE i # m - 1
  <2>1. m - 1 \in 0 .. L /\ i < m - 1 /\ ~ (m <= m - 1)
    BY <1>1, <1>4, <1>7
  <2>2. last[i] < last[m - 1]
    BY <1>3, <2>1
  <2> QED BY <1>4, <1>5, <2>2
<1> QED BY <1>6, <1>7

-----------------------------------------------------------------------------
(* Documents: what a parse keeps, and the ids it mints                      *)

Ids(doc) == ItemIds(doc.items) \cup EnvIds(doc) \cup {doc.id}

Bearing(item) == {item.id} \cup item.inner

\* No two nodes of a document bear one id.
Separate(doc) ==
  /\ \A k, l \in DOMAIN doc.env : k # l => doc.env[k].id # doc.env[l].id
  /\ EnvIds(doc) \cap ItemIds(doc.items) = {}
  /\ doc.id \notin EnvIds(doc) \cup ItemIds(doc.items)
  /\ \A i \in DOMAIN doc.items : doc.items[i].id \notin doc.items[i].inner
  /\ \A i, j \in DOMAIN doc.items :
       i # j => Bearing(doc.items[i]) \cap Bearing(doc.items[j]) = {}

\* An item as it was written, whatever ids it bears by now.
AsWritten(item, text) ==
  /\ item.kind = text.kind /\ item.values = text.values
  /\ IsImport(text) => item.src = text.src /\ item.pin = text.pin

LEMMA KeysNumbered ==
  ASSUME NEW S, IsFiniteSet(S)
  PROVE  LET keys == SetToSeq(S)
         IN  /\ Len(keys) \in Nat /\ DOMAIN keys = 1 .. Len(keys)
             /\ \A i \in DOMAIN keys : keys[i] \in S
             /\ \A k \in S : \E i \in DOMAIN keys : keys[i] = k
<1> DEFINE N == Cardinality(S)
           keys == SetToSeq(S)
<1>1. N \in Nat /\ ExistsBijection(1 .. N, S)
  BY FS_CardinalityType
<1>2. keys \in [1 .. N -> S] /\ IsInjective(keys)
  <2>1. PICK f \in [1 .. N -> S] : IsInjective(f)
    BY <1>1 DEF ExistsBijection, Bijection, Injection
  <2> QED BY <2>1 DEF SetToSeq
<1>3. keys \in Injection(1 .. N, S)
  BY <1>2 DEF Injection
<1>4. IsFiniteSet(1 .. N) /\ Cardinality(1 .. N) = N
  BY <1>1, FS_Interval
<1>5. keys \in Surjection(1 .. N, S)
  BY <1>3, <1>4, FS_Injection
<1>6. \A k \in S : \E i \in 1 .. N : keys[i] = k
  BY <1>5 DEF Surjection
<1>7. DOMAIN keys = 1 .. N /\ Len(keys) = N
  <2>1. keys \in Seq(S)
    BY <1>1, <1>2
  <2> QED BY <1>1, <1>2, <2>1
<1> QED BY <1>1, <1>2, <1>6, <1>7

LEMMA EnvOf ==
  ASSUME NEW doc \in AnyDoc
  PROVE  /\ DOMAIN doc.env \in SUBSET Keys /\ IsFiniteSet(DOMAIN doc.env)
         /\ \A k \in DOMAIN doc.env : doc.env[k] \in [value : Words, id : Nat]
         /\ doc.env = [k \in DOMAIN doc.env |-> doc.env[k]]
<1>1. PICK K \in SUBSET Keys : doc.env \in [K -> [value : Words, id : Nat]]
  BY DEF AnyDoc, Docs
<1>2. IsFiniteSet(K)
  BY PipelineAssumption, FS_Subset
<1> QED BY <1>1, <1>2

LEMMA DocOf ==
  ASSUME NEW doc
  PROVE  doc \in AnyDoc <=>
           /\ doc = [kind |-> doc.kind, caps |-> doc.caps, assumes |-> doc.assumes,
                     env |-> doc.env, items |-> doc.items, id |-> doc.id]
           /\ doc.kind \in STRING /\ doc.caps \in SUBSET STRING /\ doc.assumes \in Maps
           /\ doc.env \in UNION {[K -> [value : Words, id : Nat]] : K \in SUBSET Keys}
           /\ doc.items \in Seq(AnyItem) /\ doc.id \in Nat
  BY DEF AnyDoc, Docs, AnyItem

\* What a parse makes of a document: it numbers the values of the environment
\* from above n to m, the items from there, and the root after the last.
Shaped(doc, n, d, m, num, last) ==
  LET L == Len(doc.items)
  IN  /\ m \in Nat /\ n <= m
      /\ \A k \in DOMAIN doc.env : num[k] \in n + 1 .. m
      /\ \A k, l \in DOMAIN doc.env : num[k] = num[l] => k = l
      /\ last \in [0 .. L -> Nat] /\ last[0] = m
      /\ \A i, j \in 0 .. L : i < j => last[i] < last[j]
      /\ d.kind = doc.kind /\ d.caps = doc.caps /\ d.assumes = doc.assumes
      /\ d.id = last[L] + 1
      /\ DOMAIN d.env = DOMAIN doc.env
      /\ \A k \in DOMAIN doc.env : d.env[k] = [doc.env[k] EXCEPT !.id = num[k]]
      /\ d.env = [k \in DOMAIN doc.env |-> d.env[k]]
      /\ Len(d.items) = L /\ DOMAIN d.items = 1 .. L
      /\ \A i \in 1 .. L :
           d.items[i] = [doc.items[i] EXCEPT
                           !.id = last[i], !.inner = last[i - 1] + 1 .. last[i] - 1]
      /\ d.items = [i \in 1 .. L |-> d.items[i]]
      /\ d = [kind |-> d.kind, caps |-> d.caps, assumes |-> d.assumes,
              env |-> d.env, items |-> d.items, id |-> d.id]

LEMMA ParseShape ==
  ASSUME NEW doc \in AnyDoc, NEW n \in Nat, NEW d, d = Parse(doc, n)
  PROVE  \E m, num, last : Shaped(doc, n, d, m, num, last)
<1> DEFINE keys == SetToSeq(DOMAIN doc.env)
           m == n + Len(keys)
           last == LastIds(doc.items, m)
           L == Len(doc.items)
           num == [k \in DOMAIN doc.env |-> n + CHOOSE i \in DOMAIN keys : keys[i] = k]
           E == [k \in DOMAIN doc.env |-> [doc.env[k] EXCEPT !.id = num[k]]]
           I == [i \in DOMAIN doc.items |-> [doc.items[i] EXCEPT
                   !.id = last[i], !.inner = last[i - 1] + 1 .. last[i] - 1]]
<1>1. /\ doc = [kind |-> doc.kind, caps |-> doc.caps, assumes |-> doc.assumes,
                env |-> doc.env, items |-> doc.items, id |-> doc.id]
      /\ doc.items \in Seq(AnyItem) /\ IsFiniteSet(DOMAIN doc.env)
      /\ L \in Nat /\ DOMAIN doc.items = 1 .. L
  BY DocOf, EnvOf
<1>2. /\ Len(keys) \in Nat /\ DOMAIN keys = 1 .. Len(keys)
      /\ \A k \in DOMAIN doc.env : \E i \in DOMAIN keys : keys[i] = k
  BY <1>1, KeysNumbered
<1>3. \A k \in DOMAIN doc.env :
        \E i \in DOMAIN keys : num[k] = n + i /\ keys[i] = k
  <2> HIDE DEF keys
  <2> QED BY <1>2
<1>4. m \in Nat /\ n <= m /\ m = n + Len(keys)
  <2> HIDE DEF keys
  <2> QED BY <1>2
<1>5. d = [doc EXCEPT
             !.id = last[L] + 1,
             !.env = [k \in DOMAIN doc.env |-> [doc.env[k] EXCEPT
                        !.id = n + CHOOSE i \in DOMAIN keys : keys[i] = k]],
             !.items = I]
  BY Zenon DEF Parse
<1> HIDE DEF keys
<1>6. E = [k \in DOMAIN doc.env |-> [doc.env[k] EXCEPT
                        !.id = n + CHOOSE i \in DOMAIN keys : keys[i] = k]]
  OBVIOUS
<1>7. \A k \in DOMAIN doc.env : num[k] \in n + 1 .. m
  <2> HIDE DEF num
  <2> QED BY <1>2, <1>3, <1>4
<1>8. \A k, l \in DOMAIN doc.env : num[k] = num[l] => k = l
  <2> SUFFICES ASSUME NEW k \in DOMAIN doc.env, NEW l \in DOMAIN doc.env, num[k] = num[l]
               PROVE  k = l
    OBVIOUS
  <2>1. PICK i \in DOMAIN keys : num[k] = n + i /\ keys[i] = k
    BY <1>3
  <2>2. PICK j \in DOMAIN keys : num[l] = n + j /\ keys[j] = l
    BY <1>3
  <2> HIDE DEF num
  <2>3. i \in 1 .. Len(keys) /\ j \in 1 .. Len(keys)
    BY <1>2
  <2>4. i \in Nat /\ j \in Nat
    BY <1>2, <2>3
  <2>5. n + i = n + j
    BY <2>1, <2>2
  <2>6. i = j
    BY <2>4, <2>5
  <2> QED BY <2>1, <2>2, <2>6
<1> HIDE DEF m, num
<1>9. /\ last \in [0 .. L -> Nat] /\ last[0] = m
      /\ \A i, j \in 0 .. L : i < j => last[i] < last[j]
  BY <1>1, <1>4, LastIdsRecursion, LastIdsGrow
<1> HIDE DEF last
<1>10. /\ DOMAIN I = 1 .. L /\ Len(I) = L
       /\ \A i \in 1 .. L : I[i] = [doc.items[i] EXCEPT
                   !.id = last[i], !.inner = last[i - 1] + 1 .. last[i] - 1]
       /\ I = [i \in 1 .. L |-> I[i]]
  <2>1. DOMAIN I = 1 .. L
    BY <1>1
  <2>2. Len(I) = L
    BY <1>1, <2>1
  <2> QED BY <1>1, <2>1, <2>2
<1>11. /\ DOMAIN E = DOMAIN doc.env
       /\ \A k \in DOMAIN doc.env : E[k] = [doc.env[k] EXCEPT !.id = num[k]]
       /\ E = [k \in DOMAIN doc.env |-> E[k]]
  OBVIOUS
<1> HIDE DEF E, I, L
<1>12. /\ d.kind = doc.kind /\ d.caps = doc.caps /\ d.assumes = doc.assumes
       /\ d.id = last[L] + 1 /\ d.env = E /\ d.items = I
       /\ d = [kind |-> d.kind, caps |-> d.caps, assumes |-> d.assumes,
               env |-> d.env, items |-> d.items, id |-> d.id]
  BY <1>1, <1>5, <1>6
<1>13. Shaped(doc, n, d, m, num, last)
  BY <1>4, <1>7, <1>8, <1>9, <1>10, <1>11, <1>12 DEF Shaped, L
<1> QED BY <1>13

LEMMA ShapedItem ==
  ASSUME NEW doc \in AnyDoc, NEW n \in Nat, NEW d, NEW m, NEW num, NEW last,
         Shaped(doc, n, d, m, num, last), NEW i \in 1 .. Len(doc.items)
  PROVE  /\ last[i] \in Nat /\ last[i - 1] \in Nat /\ last[i - 1] < last[i]
         /\ m <= last[i - 1] /\ last[i] <= last[Len(doc.items)]
         /\ d.items[i] \in AnyItem /\ AsWritten(d.items[i], doc.items[i])
         /\ d.items[i].id = last[i] /\ d.items[i].inner = last[i - 1] + 1 .. last[i] - 1
<1> DEFINE L == Len(doc.items)
           inner == last[i - 1] + 1 .. last[i] - 1
<1>1. L \in Nat /\ doc.items[i] \in AnyItem
  BY DocOf
<1>2. /\ last \in [0 .. L -> Nat] /\ last[0] = m
      /\ \A h, j \in 0 .. L : h < j => last[h] < last[j]
  BY DEF Shaped
<1>3. d.items[i] = [doc.items[i] EXCEPT !.id = last[i], !.inner = inner]
  BY DEF Shaped
<1>4. i \in 0 .. L /\ i - 1 \in 0 .. L /\ i - 1 < i /\ 0 \in 0 .. L /\ L \in 0 .. L
      /\ (i = L \/ i < L) /\ (i - 1 = 0 \/ 0 < i - 1)
  BY <1>1
<1> HIDE DEF L
<1>5. last[i] \in Nat /\ last[i - 1] \in Nat /\ last[L] \in Nat /\ m \in Nat
  BY <1>2, <1>4
<1>6. last[i - 1] < last[i]
  BY <1>2, <1>4
<1>7. last[i] <= last[L]
  BY <1>2, <1>4, <1>5
<1>8. m <= last[i - 1]
  BY <1>2, <1>4, <1>5
<1>9. inner \in SUBSET Nat
  BY <1>5
<1> HIDE DEF inner
<1>10. /\ d.items[i] \in AnyItem /\ AsWritten(d.items[i], doc.items[i])
       /\ d.items[i].id = last[i] /\ d.items[i].inner = inner
  <2> DEFINE t == doc.items[i]
             u == d.items[i]
             w == last[i]
  <2>1. t \in AnyItem /\ w \in Nat /\ u = [t EXCEPT !.id = w, !.inner = inner]
    BY <1>1, <1>3, <1>5
  <2> HIDE DEF t, u, w
  <2> SUFFICES u \in AnyItem /\ AsWritten(u, t) /\ u.id = w /\ u.inner = inner
    BY DEF t, u, w
  <2>2. CASE t \in [kind : PhaseKinds, values : Nat, id : Nat, inner : SUBSET Nat]
    BY <1>9, <2>1, <2>2 DEF AnyItem, Items, AsWritten, IsImport, PhaseKinds
  <2>3. CASE t \in [kind : {"import"}, src : [form : STRING, name : STRING],
                    pin : Hashes \cup {NoPin, Malformed}, values : Nat, id : Nat,
                    inner : SUBSET Nat]
    BY <1>9, <2>1, <2>3 DEF AnyItem, Items, AsWritten, IsImport
  <2>4. u \in AnyItem /\ AsWritten(u, t) /\ u.id = w /\ u.inner = inner
    BY <2>1, <2>2, <2>3 DEF AnyItem, Items
  <2> QED BY <2>4 DEF t, u, w
<1> QED BY <1>5, <1>6, <1>7, <1>8, <1>10 DEF L, inner

LEMMA ShapedValue ==
  ASSUME NEW doc \in AnyDoc, NEW n \in Nat, NEW d, NEW m, NEW num, NEW last,
         Shaped(doc, n, d, m, num, last), NEW k \in DOMAIN doc.env
  PROVE  /\ d.env[k] \in [value : Words, id : Nat]
         /\ d.env[k].value = doc.env[k].value /\ d.env[k].id = num[k]
         /\ num[k] \in n + 1 .. m
<1>1. doc.env[k] \in [value : Words, id : Nat]
  BY EnvOf
<1>2. d.env[k] = [doc.env[k] EXCEPT !.id = num[k]] /\ num[k] \in n + 1 .. m /\ m \in Nat
  BY DEF Shaped
<1>3. num[k] \in Nat
  BY <1>2
<1> QED BY <1>1, <1>2, <1>3

LEMMA ParseKeeps ==
  ASSUME NEW doc \in AnyDoc, NEW n \in Nat, NEW d, d = Parse(doc, n)
  PROVE  /\ d \in AnyDoc
         /\ d.kind = doc.kind /\ Hash(d) = Hash(doc)
         /\ Len(d.items) = Len(doc.items)
         /\ \A i \in DOMAIN doc.items : AsWritten(d.items[i], doc.items[i])
<1> DEFINE L == Len(doc.items)
<1>1. PICK m, num, last : Shaped(doc, n, d, m, num, last)
  BY ParseShape
<1>2. /\ doc.kind \in STRING /\ doc.caps \in SUBSET STRING /\ doc.assumes \in Maps
      /\ L \in Nat /\ DOMAIN doc.items = 1 .. L /\ DOMAIN doc.env \in SUBSET Keys
  BY DocOf, EnvOf
<1>3. \A k \in DOMAIN doc.env :
        d.env[k] \in [value : Words, id : Nat] /\ d.env[k].value = doc.env[k].value
  BY <1>1, ShapedValue
<1>4. \A i \in 1 .. L : d.items[i] \in AnyItem /\ AsWritten(d.items[i], doc.items[i])
  BY <1>1, ShapedItem
<1>5. /\ d.kind = doc.kind /\ d.caps = doc.caps /\ d.assumes = doc.assumes
      /\ d = [kind |-> d.kind, caps |-> d.caps, assumes |-> d.assumes,
              env |-> d.env, items |-> d.items, id |-> d.id]
  BY <1>1 DEF Shaped
<1>6. DOMAIN d.env = DOMAIN doc.env /\ d.env = [k \in DOMAIN doc.env |-> d.env[k]]
  BY <1>1 DEF Shaped
<1>7. Len(d.items) = L /\ DOMAIN d.items = 1 .. L /\ d.items = [i \in 1 .. L |-> d.items[i]]
  BY <1>1 DEF Shaped
<1>8. d.id \in Nat
  <2>1. last \in [0 .. L -> Nat] /\ d.id = last[L] + 1
    BY <1>1 DEF Shaped
  <2>2. L \in 0 .. L
    BY <1>2
  <2> HIDE DEF L
  <2> QED BY <2>1, <2>2
<1> HIDE DEF L
<1>9. d \in AnyDoc
  <2>1. d.env \in UNION {[K -> [value : Words, id : Nat]] : K \in SUBSET Keys}
    <3>1. d.env \in [DOMAIN doc.env -> [value : Words, id : Nat]]
      BY <1>3, <1>6
    <3> QED BY <1>2, <3>1
  <2>2. d.items \in Seq(AnyItem)
    <3>1. d.items \in [1 .. L -> AnyItem]
      BY <1>4, <1>7
    <3> QED BY <1>2, <3>1
  <2> QED BY <1>2, <1>5, <1>8, <2>1, <2>2, DocOf
<1>10. [k \in DOMAIN d.env |-> d.env[k].value] = [k \in DOMAIN doc.env |-> doc.env[k].value]
  BY <1>3, <1>6
<1>11. [i \in DOMAIN d.items |-> <<d.items[i].kind, d.items[i].values>>]
         = [i \in DOMAIN doc.items |-> <<doc.items[i].kind, doc.items[i].values>>]
  BY <1>2, <1>4, <1>7 DEF AsWritten
<1>12. Hash(d) = Hash(doc)
  BY <1>5, <1>10, <1>11 DEF Hash
<1> QED BY <1>2, <1>4, <1>5, <1>7, <1>9, <1>12 DEF L

LEMMA ParseMints ==
  ASSUME NEW doc \in AnyDoc, NEW n \in Nat, NEW d, d = Parse(doc, n)
  PROVE  Separate(d) /\ d.id > n /\ Ids(d) \subseteq n + 1 .. d.id
<1> DEFINE L == Len(doc.items)
<1>1. PICK m, num, last : Shaped(doc, n, d, m, num, last)
  BY ParseShape
<1>2. /\ L \in Nat /\ DOMAIN doc.items = 1 .. L
  BY DocOf
<1>3. DOMAIN d.items = 1 .. L /\ DOMAIN d.env = DOMAIN doc.env
  BY <1>1 DEF Shaped
<1>4. /\ m \in Nat /\ n <= m /\ last \in [0 .. L -> Nat] /\ last[0] = m
      /\ \A i, j \in 0 .. L : i < j => last[i] < last[j]
      /\ d.id = last[L] + 1
  BY <1>1 DEF Shaped
<1>5. \A k, l \in DOMAIN doc.env : num[k] = num[l] => k = l
  BY <1>1 DEF Shaped
<1>6. \A k \in DOMAIN d.env : d.env[k].id = num[k] /\ num[k] \in n + 1 .. m
  BY <1>1, <1>3, ShapedValue
<1>7. \A i \in 1 .. L :
        /\ last[i] \in Nat /\ last[i - 1] \in Nat /\ last[i - 1] < last[i]
        /\ m <= last[i - 1] /\ last[i] <= last[L]
        /\ d.items[i].id = last[i] /\ d.items[i].inner = last[i - 1] + 1 .. last[i] - 1
  BY <1>1, ShapedItem
<1> HIDE DEF L
<1>8. m <= last[L] /\ last[L] \in Nat
  <2>1. 0 \in 0 .. L /\ L \in 0 .. L /\ (L = 0 \/ 0 < L)
    BY <1>2
  <2> QED BY <1>4, <2>1
<1>9. ASSUME NEW i \in 1 .. L
      PROVE  /\ Bearing(d.items[i]) \subseteq last[i - 1] + 1 .. last[i]
             /\ Bearing(d.items[i]) \subseteq m + 1 .. last[L]
             /\ d.items[i].id \notin d.items[i].inner
  <2>1. Bearing(d.items[i]) = {last[i]} \cup (last[i - 1] + 1 .. last[i] - 1)
    BY <1>7 DEF Bearing
  <2>2. /\ last[i] \in Nat /\ last[i - 1] \in Nat /\ last[i - 1] < last[i]
        /\ m <= last[i - 1] /\ last[i] <= last[L]
        /\ d.items[i].id = last[i] /\ d.items[i].inner = last[i - 1] + 1 .. last[i] - 1
    BY <1>7
  <2> QED BY <1>4, <1>8, <2>1, <2>2, SMTT(60)
<1>10. ItemIds(d.items) \subseteq m + 1 .. last[L]
  <2>1. ItemIds(d.items) = UNION {Bearing(d.items[i]) : i \in 1 .. L}
    BY <1>3 DEF ItemIds, Bearing
  <2> QED BY <1>9, <2>1
<1>11. EnvIds(d) \subseteq n + 1 .. m
  BY <1>6 DEF EnvIds
<1>12. ASSUME NEW i \in 1 .. L, NEW j \in 1 .. L, i < j
       PROVE  Bearing(d.items[i]) \cap Bearing(d.items[j]) = {}
  <2>1. last[i] \in Nat /\ last[i - 1] \in Nat /\ last[j] \in Nat /\ last[j - 1] \in Nat
    BY <1>7
  <2>2. i \in 0 .. L /\ j - 1 \in 0 .. L /\ (i = j - 1 \/ i < j - 1)
    BY <1>2, <1>12
  <2>3. last[i] <= last[j - 1]
    <3>1. i < j - 1 => last[i] < last[j - 1]
      BY <1>4, <2>2
    <3> QED BY <2>1, <2>2, <3>1
  <2>4. /\ Bearing(d.items[i]) \subseteq last[i - 1] + 1 .. last[i]
        /\ Bearing(d.items[j]) \subseteq last[j - 1] + 1 .. last[j]
    BY <1>9
  <2> QED BY <2>1, <2>3, <2>4
<1>13. \A i, j \in 1 .. L : i # j => Bearing(d.items[i]) \cap Bearing(d.items[j]) = {}
  <2> SUFFICES ASSUME NEW i \in 1 .. L, NEW j \in 1 .. L, i # j
               PROVE  Bearing(d.items[i]) \cap Bearing(d.items[j]) = {}
    OBVIOUS
  <2>1. i < j \/ j < i
    BY <1>2
  <2>2. CASE i < j
    BY <1>12, <2>2
  <2>3. CASE j < i
    BY <1>12, <2>3
  <2> QED BY <2>1, <2>2, <2>3
<1>14. d.id = last[L] + 1 /\ d.id \in Nat /\ n < d.id
  BY <1>4, <1>8
<1>15. Separate(d)
  <2>1. EnvIds(d) \cap ItemIds(d.items) = {}
    <3>1. (n + 1 .. m) \cap (m + 1 .. last[L]) = {}
      BY <1>4, <1>8
    <3> QED BY <1>10, <1>11, <3>1
  <2>2. d.id \notin EnvIds(d) \cup ItemIds(d.items)
    <3>1. d.id \notin n + 1 .. m /\ d.id \notin m + 1 .. last[L]
      BY <1>4, <1>8, <1>14
    <3> QED BY <1>10, <1>11, <3>1
  <2>3. \A i \in DOMAIN d.items : d.items[i].id \notin d.items[i].inner
    BY <1>3, <1>9
  <2>4. \A i, j \in DOMAIN d.items :
          i # j => Bearing(d.items[i]) \cap Bearing(d.items[j]) = {}
    BY <1>3, <1>13
  <2>5. \A k, l \in DOMAIN d.env : k # l => d.env[k].id # d.env[l].id
    BY <1>3, <1>5, <1>6
  <2> QED BY <2>1, <2>2, <2>3, <2>4, <2>5 DEF Separate
<1>16. Ids(d) \subseteq n + 1 .. d.id
  <2>1. (m + 1 .. last[L]) \subseteq n + 1 .. d.id
    BY <1>4, <1>8, <1>14
  <2>2. (n + 1 .. m) \subseteq n + 1 .. d.id
    BY <1>4, <1>8, <1>14
  <2>3. d.id \in n + 1 .. d.id
    BY <1>14
  <2> QED BY <1>10, <1>11, <2>1, <2>2, <2>3 DEF Ids
<1> QED BY <1>14, <1>15, <1>16

-----------------------------------------------------------------------------
(* Hashes: what a phase passed and a fragment merged make of them           *)

Opened(doc) == [doc EXCEPT !.items = <<>>]

Passed(hash, item) == [hash EXCEPT !.items = Append(@, <<item.kind, item.values>>)]

Joined(hash, other) ==
  [kind |-> hash.kind, caps |-> hash.caps \cup other.caps,
   assumes |-> Union(hash.assumes, other.assumes),
   env |-> Union(hash.env, other.env), items |-> hash.items \o other.items]

\* What a hash keeps of a list of items.
Marks(items) == [i \in DOMAIN items |-> <<items[i].kind, items[i].values>>]

AnyMark == (PhaseKinds \cup {"import"}) \X Nat

LEMMA MarkTyped ==
  ASSUME NEW item \in AnyItem
  PROVE  item.kind \in PhaseKinds \cup {"import"} /\ item.values \in Nat
         /\ <<item.kind, item.values>> \in AnyMark
<1>1. CASE item \in [kind : PhaseKinds, values : Nat, id : Nat, inner : SUBSET Nat]
  BY <1>1 DEF AnyMark
<1>2. CASE item \in [kind : {"import"}, src : [form : STRING, name : STRING],
                     pin : Hashes \cup {NoPin, Malformed}, values : Nat, id : Nat,
                     inner : SUBSET Nat]
  BY <1>2 DEF AnyMark
<1> QED BY <1>1, <1>2 DEF AnyItem, Items

LEMMA MarksTyped ==
  ASSUME NEW items \in Seq(AnyItem)
  PROVE  /\ Marks(items) \in Seq(AnyMark) /\ Len(Marks(items)) = Len(items)
         /\ \A i \in 1 .. Len(items) : Marks(items)[i] = <<items[i].kind, items[i].values>>
<1>1. Len(items) \in Nat /\ DOMAIN items = 1 .. Len(items)
      /\ \A i \in 1 .. Len(items) : items[i] \in AnyItem
  OBVIOUS
<1>2. \A i \in 1 .. Len(items) : <<items[i].kind, items[i].values>> \in AnyMark
  BY <1>1, MarkTyped
<1>3. Marks(items) = [i \in 1 .. Len(items) |-> <<items[i].kind, items[i].values>>]
  BY <1>1 DEF Marks
<1>4. Marks(items) \in [1 .. Len(items) -> AnyMark]
  BY <1>2, <1>3
<1>5. Marks(items) \in Seq(AnyMark) /\ Len(Marks(items)) = Len(items)
  <2> QED BY <1>1, <1>4
<1> QED BY <1>3, <1>5

LEMMA MarksAppended ==
  ASSUME NEW items \in Seq(AnyItem), NEW item \in AnyItem
  PROVE  Marks(Append(items, item)) = Append(Marks(items), <<item.kind, item.values>>)
<1> DEFINE more == Append(items, item)
           v == <<item.kind, item.values>>
           s == Marks(more)
           t == Append(Marks(items), v)
           L == Len(items)
<1>1. more \in Seq(AnyItem) /\ Len(more) = L + 1 /\ L \in Nat
      /\ \A i \in 1 .. L + 1 : more[i] = IF i = L + 1 THEN item ELSE items[i]
  OBVIOUS
<1>2. v \in AnyMark
  BY MarkTyped
<1> HIDE DEF more, L
<1>3. s \in Seq(AnyMark) /\ Len(s) = L + 1
      /\ \A i \in 1 .. L + 1 : s[i] = <<more[i].kind, more[i].values>>
  BY <1>1, MarksTyped
<1>4. Marks(items) \in Seq(AnyMark) /\ Len(Marks(items)) = L
      /\ \A i \in 1 .. L : Marks(items)[i] = <<items[i].kind, items[i].values>>
  BY MarksTyped DEF L
<1> HIDE DEF v
<1>5. t \in Seq(AnyMark) /\ Len(t) = L + 1
      /\ \A i \in 1 .. L + 1 : t[i] = IF i = L + 1 THEN v ELSE Marks(items)[i]
  BY <1>1, <1>2, <1>4
<1> HIDE DEF s, t
<1>6. \A i \in 1 .. L + 1 : s[i] = t[i]
  <2> SUFFICES ASSUME NEW i \in 1 .. L + 1 PROVE s[i] = t[i]
    OBVIOUS
  <2>1. CASE i = L + 1
    <3>1. more[i] = item /\ s[i] = <<more[i].kind, more[i].values>> /\ t[i] = v
      BY <1>1, <1>3, <1>5, <2>1
    <3> QED BY <3>1 DEF v
  <2>2. CASE i # L + 1
    <3>1. i \in 1 .. L
      BY <1>1, <2>2
    <3>2. more[i] = items[i] /\ t[i] = Marks(items)[i]
      BY <1>1, <1>5, <2>2
    <3>3. s[i] = <<items[i].kind, items[i].values>>
      BY <1>3, <3>2
    <3>4. t[i] = <<items[i].kind, items[i].values>>
      BY <1>4, <3>1, <3>2
    <3> QED BY <3>3, <3>4
  <2> QED BY <2>1, <2>2
<1>7. s = t
  BY <1>3, <1>5, <1>6, SeqEqual
<1> QED BY <1>7 DEF s, t, v, more

LEMMA MarksJoined ==
  ASSUME NEW items \in Seq(AnyItem), NEW more \in Seq(AnyItem)
  PROVE  Marks(items \o more) = Marks(items) \o Marks(more)
<1> DEFINE all == items \o more
           s == Marks(all)
           t == Marks(items) \o Marks(more)
           L == Len(items)
           M == Len(more)
<1>1. all \in Seq(AnyItem) /\ Len(all) = L + M /\ L \in Nat /\ M \in Nat
      /\ \A i \in 1 .. L + M : all[i] = IF i <= L THEN items[i] ELSE more[i - L]
  BY ConcatProperties
<1> HIDE DEF all
<1>2. s \in Seq(AnyMark) /\ Len(s) = L + M
      /\ \A i \in 1 .. L + M : s[i] = <<all[i].kind, all[i].values>>
  BY <1>1, MarksTyped
<1>3. /\ Marks(items) \in Seq(AnyMark) /\ Len(Marks(items)) = L
      /\ \A i \in 1 .. L : Marks(items)[i] = <<items[i].kind, items[i].values>>
      /\ Marks(more) \in Seq(AnyMark) /\ Len(Marks(more)) = M
      /\ \A i \in 1 .. M : Marks(more)[i] = <<more[i].kind, more[i].values>>
  BY MarksTyped
<1> HIDE DEF L, M
<1>4. t \in Seq(AnyMark) /\ Len(t) = L + M
      /\ \A i \in 1 .. L + M : t[i] = IF i <= L THEN Marks(items)[i] ELSE Marks(more)[i - L]
  BY <1>3, ConcatProperties
<1> HIDE DEF s, t
<1>5. \A i \in 1 .. L + M : s[i] = t[i]
  <2> SUFFICES ASSUME NEW i \in 1 .. L + M PROVE s[i] = t[i]
    OBVIOUS
  <2>1. CASE i <= L
    <3>1. i \in 1 .. L
      BY <1>1, <2>1
    <3>2. all[i] = items[i] /\ t[i] = Marks(items)[i]
      BY <1>1, <1>4, <2>1
    <3>3. s[i] = <<items[i].kind, items[i].values>>
      BY <1>2, <3>2
    <3>4. t[i] = <<items[i].kind, items[i].values>>
      BY <1>3, <3>1, <3>2
    <3> QED BY <3>3, <3>4
  <2>2. CASE ~ (i <= L)
    <3>1. i - L \in 1 .. M
      BY <1>1, <2>2
    <3>2. all[i] = more[i - L] /\ t[i] = Marks(more)[i - L]
      BY <1>1, <1>4, <2>2
    <3>3. s[i] = <<more[i - L].kind, more[i - L].values>>
      BY <1>2, <3>2
    <3>4. t[i] = <<more[i - L].kind, more[i - L].values>>
      BY <1>3, <3>1, <3>2
    <3> QED BY <3>3, <3>4
  <2> QED BY <2>1, <2>2
<1>6. s = t
  BY <1>2, <1>4, <1>5, SeqEqual
<1> QED BY <1>6 DEF s, t, all

LEMMA HashIs ==
  ASSUME NEW doc
  PROVE  Hash(doc) = [kind |-> doc.kind, caps |-> doc.caps, assumes |-> doc.assumes,
                      env |-> Values(doc.env), items |-> Marks(doc.items)]
  BY DEF Hash, Values, Marks

LEMMA ValuesTyped ==
  ASSUME NEW doc \in AnyDoc
  PROVE  /\ Values(doc.env) \in Maps /\ DOMAIN Values(doc.env) = DOMAIN doc.env
         /\ \A k \in DOMAIN doc.env : Values(doc.env)[k] = doc.env[k].value
<1>1. \A k \in DOMAIN doc.env : doc.env[k].value \in Words
  BY EnvOf
<1>2. Values(doc.env) \in [DOMAIN doc.env -> Words]
  BY <1>1 DEF Values
<1> QED BY <1>2, EnvOf DEF Maps, Values

LEMMA HashTyped ==
  ASSUME NEW doc \in AnyDoc
  PROVE  Hash(doc) \in Hashes
<1>1. /\ doc.kind \in STRING /\ doc.caps \in SUBSET STRING /\ doc.assumes \in Maps
      /\ doc.items \in Seq(AnyItem)
  BY DocOf
<1>2. Marks(doc.items) \in Seq((PhaseKinds \cup {"import"}) \X Nat)
  BY <1>1, MarksTyped DEF AnyMark
<1> QED BY <1>1, <1>2, HashIs, ValuesTyped DEF Hashes

LEMMA OpenedHash ==
  ASSUME NEW doc \in AnyDoc, NEW d, d = Opened(doc)
  PROVE  /\ d \in AnyDoc /\ d.items = <<>> /\ d.env = doc.env /\ d.id = doc.id
         /\ Hash(d) = [Hash(doc) EXCEPT !.items = <<>>]
<1>1. /\ doc = [kind |-> doc.kind, caps |-> doc.caps, assumes |-> doc.assumes,
                env |-> doc.env, items |-> doc.items, id |-> doc.id]
      /\ doc.kind \in STRING /\ doc.caps \in SUBSET STRING /\ doc.assumes \in Maps
      /\ doc.env \in UNION {[K -> [value : Words, id : Nat]] : K \in SUBSET Keys}
      /\ doc.id \in Nat
  BY DocOf
<1>2. /\ d.kind = doc.kind /\ d.caps = doc.caps /\ d.assumes = doc.assumes
      /\ d.env = doc.env /\ d.items = <<>> /\ d.id = doc.id
      /\ d = [kind |-> d.kind, caps |-> d.caps, assumes |-> d.assumes,
              env |-> d.env, items |-> d.items, id |-> d.id]
  BY <1>1 DEF Opened
<1>3. <<>> \in Seq(AnyItem)
  OBVIOUS
<1>4. d \in AnyDoc
  BY <1>1, <1>2, <1>3, DocOf
<1>5. Marks(<<>>) = <<>>
  <2>1. Marks(<<>>) \in Seq(AnyMark) /\ Len(Marks(<<>>)) = 0
    BY <1>3, MarksTyped, EmptySeq
  <2> QED BY <2>1, EmptySeq
<1>6. /\ Hash(d) = [kind |-> doc.kind, caps |-> doc.caps, assumes |-> doc.assumes,
                    env |-> Values(doc.env), items |-> <<>>]
      /\ Hash(doc) = [kind |-> doc.kind, caps |-> doc.caps, assumes |-> doc.assumes,
                      env |-> Values(doc.env), items |-> Marks(doc.items)]
  BY <1>2, <1>5, HashIs
<1>7. Hash(d) = [Hash(doc) EXCEPT !.items = <<>>]
  BY <1>6
<1> QED BY <1>2, <1>4, <1>7

LEMMA PassedHash ==
  ASSUME NEW doc \in AnyDoc, NEW item \in AnyItem,
         NEW d, d = [doc EXCEPT !.items = Append(@, item)]
  PROVE  /\ d \in AnyDoc /\ Hash(d) = Passed(Hash(doc), item)
         /\ d.items = Append(doc.items, item) /\ d.env = doc.env /\ d.id = doc.id
<1>1. /\ doc = [kind |-> doc.kind, caps |-> doc.caps, assumes |-> doc.assumes,
                env |-> doc.env, items |-> doc.items, id |-> doc.id]
      /\ doc.kind \in STRING /\ doc.caps \in SUBSET STRING /\ doc.assumes \in Maps
      /\ doc.env \in UNION {[K -> [value : Words, id : Nat]] : K \in SUBSET Keys}
      /\ doc.items \in Seq(AnyItem) /\ doc.id \in Nat
  BY DocOf
<1>2. /\ d.kind = doc.kind /\ d.caps = doc.caps /\ d.assumes = doc.assumes
      /\ d.env = doc.env /\ d.items = Append(doc.items, item) /\ d.id = doc.id
      /\ d = [kind |-> d.kind, caps |-> d.caps, assumes |-> d.assumes,
              env |-> d.env, items |-> d.items, id |-> d.id]
  BY <1>1
<1>3. d.items \in Seq(AnyItem)
  BY <1>1, <1>2
<1>4. d \in AnyDoc
  BY <1>1, <1>2, <1>3, DocOf
<1>5. Marks(d.items) = Append(Marks(doc.items), <<item.kind, item.values>>)
  BY <1>1, <1>2, MarksAppended
<1>6. /\ Hash(d) = [kind |-> doc.kind, caps |-> doc.caps, assumes |-> doc.assumes,
                    env |-> Values(doc.env), items |-> Marks(d.items)]
      /\ Hash(doc) = [kind |-> doc.kind, caps |-> doc.caps, assumes |-> doc.assumes,
                      env |-> Values(doc.env), items |-> Marks(doc.items)]
  BY <1>2, HashIs
<1>7. Hash(d) = Passed(Hash(doc), item)
  <2> DEFINE v == <<item.kind, item.values>>
             s == Marks(doc.items)
             e == Values(doc.env)
  <2>1. /\ Hash(d) = [kind |-> doc.kind, caps |-> doc.caps, assumes |-> doc.assumes,
                      env |-> e, items |-> Append(s, v)]
        /\ Hash(doc) = [kind |-> doc.kind, caps |-> doc.caps, assumes |-> doc.assumes,
                        env |-> e, items |-> s]
        /\ Passed(Hash(doc), item) = [Hash(doc) EXCEPT !.items = Append(@, v)]
    BY <1>5, <1>6 DEF Passed
  <2> DEFINE h == Hash(doc)
             g == Append(s, v)
  <2> HIDE DEF v, s, e
  <2>2. h.items = s
    BY <2>1
  <2>3. Passed(h, item) = [h EXCEPT !.items = g]
    BY <2>1, <2>2
  <2>4. h = [kind |-> doc.kind, caps |-> doc.caps, assumes |-> doc.assumes,
             env |-> e, items |-> s]
    BY <2>1
  <2>5. Hash(d) = [kind |-> doc.kind, caps |-> doc.caps, assumes |-> doc.assumes,
                   env |-> e, items |-> g]
    BY <2>1
  <2> HIDE DEF h, g
  <2>6. [h EXCEPT !.items = g] = [kind |-> doc.kind, caps |-> doc.caps,
                                  assumes |-> doc.assumes, env |-> e, items |-> g]
    BY <2>4
  <2>7. Hash(d) = Passed(h, item)
    BY <2>3, <2>5, <2>6
  <2> QED BY <2>7 DEF h
<1> QED BY <1>2, <1>4, <1>7

LEMMA UnionOf ==
  ASSUME NEW f, NEW g
  PROVE  /\ DOMAIN Union(f, g) = DOMAIN f \cup DOMAIN g
         /\ \A k \in DOMAIN f \cup DOMAIN g :
              Union(f, g)[k] = IF k \in DOMAIN f THEN f[k] ELSE g[k]
         /\ Union(f, g) = [k \in DOMAIN f \cup DOMAIN g |-> Union(f, g)[k]]
  BY DEF Union

LEMMA MapsJoined ==
  ASSUME NEW f \in Maps, NEW g \in Maps
  PROVE  Union(f, g) \in Maps
<1>1. PICK F \in SUBSET Keys : f \in [F -> Words]
  BY DEF Maps
<1>2. PICK G \in SUBSET Keys : g \in [G -> Words]
  BY DEF Maps
<1>3. \A k \in F \cup G : (IF k \in F THEN f[k] ELSE g[k]) \in Words
  BY <1>1, <1>2
<1>4. Union(f, g) \in [F \cup G -> Words] /\ F \cup G \in SUBSET Keys
  BY <1>1, <1>2, <1>3 DEF Union
<1> QED BY <1>4 DEF Maps

LEMMA EnvsJoined ==
  ASSUME NEW doc \in AnyDoc, NEW other \in AnyDoc
  PROVE  Union(doc.env, other.env)
           \in UNION {[K -> [value : Words, id : Nat]] : K \in SUBSET Keys}
<1> DEFINE f == doc.env
           g == other.env
           V == [value : Words, id : Nat]
<1>1. DOMAIN f \in SUBSET Keys /\ \A k \in DOMAIN f : f[k] \in V
  BY EnvOf
<1>2. DOMAIN g \in SUBSET Keys /\ \A k \in DOMAIN g : g[k] \in V
  BY EnvOf
<1> HIDE DEF f, g, V
<1>3. Union(f, g) \in [DOMAIN f \cup DOMAIN g -> V] /\ DOMAIN f \cup DOMAIN g \in SUBSET Keys
  BY <1>1, <1>2 DEF Union
<1>4. Union(f, g) \in UNION {[K -> V] : K \in SUBSET Keys}
  BY <1>3
<1> QED BY <1>4 DEF f, g, V

LEMMA MergedHash ==
  ASSUME NEW doc \in AnyDoc, NEW fragment \in AnyDoc, NEW d, d = Merge(doc, fragment)
  PROVE  /\ d \in AnyDoc /\ Hash(d) = Joined(Hash(doc), Hash(fragment))
         /\ d.items = doc.items \o fragment.items
         /\ d.env = Union(doc.env, fragment.env) /\ d.id = doc.id
<1> DEFINE E == UNION {[K -> [value : Words, id : Nat]] : K \in SUBSET Keys}
<1>1. /\ doc = [kind |-> doc.kind, caps |-> doc.caps, assumes |-> doc.assumes,
                env |-> doc.env, items |-> doc.items, id |-> doc.id]
      /\ doc.kind \in STRING /\ doc.caps \in SUBSET STRING /\ doc.assumes \in Maps
      /\ doc.env \in E /\ doc.items \in Seq(AnyItem) /\ doc.id \in Nat
  BY DocOf
<1>2. /\ fragment.caps \in SUBSET STRING /\ fragment.assumes \in Maps
      /\ fragment.env \in E /\ fragment.items \in Seq(AnyItem)
  BY DocOf
<1>3. /\ d.kind = doc.kind /\ d.caps = doc.caps \cup fragment.caps
      /\ d.assumes = Union(doc.assumes, fragment.assumes)
      /\ d.env = Union(doc.env, fragment.env)
      /\ d.items = doc.items \o fragment.items /\ d.id = doc.id
      /\ d = [kind |-> d.kind, caps |-> d.caps, assumes |-> d.assumes,
              env |-> d.env, items |-> d.items, id |-> d.id]
  BY <1>1 DEF Merge
<1>4. d.items \in Seq(AnyItem)
  BY <1>1, <1>2, <1>3, ConcatProperties
<1>5. d.env \in E
  BY <1>3, EnvsJoined, ZenonT(60)
<1>6. d.assumes \in Maps
  BY <1>1, <1>2, <1>3, MapsJoined
<1>7. d \in AnyDoc
  <2> HIDE DEF E
  <2>1. d.caps \in SUBSET STRING
    BY <1>1, <1>2, <1>3
  <2> QED BY <1>1, <1>3, <1>4, <1>5, <1>6, <2>1, DocOf DEF E
<1>8. Marks(d.items) = Marks(doc.items) \o Marks(fragment.items)
  BY <1>1, <1>2, <1>3, MarksJoined
<1>9. Values(d.env) = Union(Values(doc.env), Values(fragment.env))
  <2>1. /\ DOMAIN d.env = DOMAIN doc.env \cup DOMAIN fragment.env
        /\ \A k \in DOMAIN doc.env \cup DOMAIN fragment.env :
             d.env[k] = IF k \in DOMAIN doc.env THEN doc.env[k] ELSE fragment.env[k]
    <3> DEFINE u == Union(doc.env, fragment.env)
    <3>1. /\ DOMAIN u = DOMAIN doc.env \cup DOMAIN fragment.env
          /\ \A k \in DOMAIN doc.env \cup DOMAIN fragment.env :
               u[k] = IF k \in DOMAIN doc.env THEN doc.env[k] ELSE fragment.env[k]
      BY DEF Union
    <3> HIDE DEF u
    <3> QED BY <1>3, <3>1 DEF u
  <2> QED BY <2>1 DEF Values, Union
<1>10. Hash(d) = Joined(Hash(doc), Hash(fragment))
  <2>1. /\ Hash(d) = [kind |-> d.kind, caps |-> d.caps, assumes |-> d.assumes,
                      env |-> Values(d.env), items |-> Marks(d.items)]
        /\ Hash(doc) = [kind |-> doc.kind, caps |-> doc.caps, assumes |-> doc.assumes,
                        env |-> Values(doc.env), items |-> Marks(doc.items)]
        /\ Hash(fragment) = [kind |-> fragment.kind, caps |-> fragment.caps,
                             assumes |-> fragment.assumes,
                             env |-> Values(fragment.env), items |-> Marks(fragment.items)]
    BY HashIs, SMTT(60)
  <2> QED BY <1>3, <1>8, <1>9, <2>1 DEF Joined
<1> QED BY <1>3, <1>7, <1>10

-----------------------------------------------------------------------------
(* The expansion of a file's first items: the least relation of files, *)
(* numbers of items and hashes that is closed under the resolver's steps.   *)

Stages == (DOMAIN Files) \X Nat \X Hashes

\* The nth item of file f takes the stage x to the hash h, if what C says of
\* other files is so.
Takes(x, f, n, h, C) ==
  LET item == Files[f].items[n]
  IN /\ x[1] = f /\ n = x[2] + 1 /\ n <= Len(Files[f].items)
     /\ \/ ~IsImport(item) /\ h = Passed(x[3], item)
        \/ IsImport(item) /\ item.pin \in Hashes /\ h = Joined(x[3], item.pin)
        \/ /\ IsImport(item) /\ item.pin = NoPin
           /\ \E z \in C : /\ z[1] = item.src.name
                           /\ z[2] = Len(Files[z[1]].items)
                           /\ h = Joined(x[3], z[3])

Justified(y, C) ==
  \/ y[2] = 0 /\ y[3] = Hash(Opened(Files[y[1]]))
  \/ \E x \in C : Takes(x, y[1], y[2], y[3], C)

Complete(C) == \A y \in Stages : Justified(y, C) => y \in C

Expansions == {y \in Stages : \A C \in SUBSET Stages : Complete(C) => y \in C}

LEMMA JustifiedGrows ==
  ASSUME NEW y, NEW C, NEW D, C \subseteq D, Justified(y, C)
  PROVE  Justified(y, D)
  BY DEF Justified, Takes

LEMMA ExpansionsComplete == Complete(Expansions)
<1> SUFFICES ASSUME NEW y \in Stages, Justified(y, Expansions),
                    NEW C \in SUBSET Stages, Complete(C)
             PROVE  y \in C
  BY DEF Complete, Expansions
<1>1. Expansions \subseteq C
  BY DEF Expansions
<1>2. Justified(y, C)
  BY <1>1, JustifiedGrows
<1> QED BY <1>2 DEF Complete

LEMMA ExpansionsJustified ==
  ASSUME NEW y \in Expansions
  PROVE  Justified(y, Expansions)
<1> DEFINE J == {x \in Expansions : Justified(x, Expansions)}
<1>1. J \subseteq Expansions /\ Expansions \subseteq Stages
  BY DEF Expansions
<1>2. Complete(J)
  <2> SUFFICES ASSUME NEW x \in Stages, Justified(x, J) PROVE x \in J
    BY DEF Complete
  <2> HIDE DEF J
  <2>1. Justified(x, Expansions)
    BY <1>1, JustifiedGrows
  <2>2. x \in Expansions
    BY <2>1, ExpansionsComplete DEF Complete
  <2> QED BY <2>1, <2>2 DEF J
<1>3. J \in SUBSET Stages
  BY <1>1
<1>4. y \in J
  <2> HIDE DEF J
  <2> QED BY <1>2, <1>3 DEF Expansions
<1> QED BY <1>4

LEMMA StageOf ==
  ASSUME NEW u \in Stages
  PROVE  /\ u[1] \in DOMAIN Files /\ u[2] \in Nat /\ u[3] \in Hashes
         /\ u = <<u[1], u[2], u[3]>>
<1> DEFINE A == DOMAIN Files
<1>1. u \in A \X Nat \X Hashes
  BY DEF Stages
<1> HIDE DEF A
<1>2. u[1] \in A /\ u[2] \in Nat /\ u[3] \in Hashes /\ u = <<u[1], u[2], u[3]>>
  BY <1>1
<1> QED BY <1>2 DEF A

LEMMA NoPinIsNoHash == NoPin \notin Hashes /\ Malformed \notin Hashes /\ NoPin # Malformed
<1>1. DOMAIN NoPin = {"kind"} /\ DOMAIN Malformed = {"kind"}
  BY DEF NoPin, Malformed
<1>2. \A h \in Hashes : "caps" \in DOMAIN h
  BY DEF Hashes
<1>3. NoPin # Malformed
  BY DEF NoPin, Malformed
<1>4. "caps" # "kind"
  OBVIOUS
<1> QED BY <1>1, <1>2, <1>3, <1>4

\* However a file was expanded so far, it came to the same.
LEMMA ExpansionsAgree ==
  ASSUME NEW x \in Expansions, NEW y \in Expansions, x[1] = y[1], x[2] = y[2]
  PROVE  x[3] = y[3]
<1> DEFINE F == {v \in Expansions : \A w \in Expansions :
                   w[1] = v[1] /\ w[2] = v[2] => w[3] = v[3]}
<1>1. F \subseteq Expansions /\ Expansions \subseteq Stages
  BY DEF Expansions
<1>2. \A u \in Stages : u[2] \in Nat
  BY StageOf
<1>3. \A a \in F, b \in Expansions : a[1] = b[1] /\ a[2] = b[2] => a[3] = b[3]
  OBVIOUS
<1>4. ASSUME NEW v \in Stages, Justified(v, F), NEW w \in Expansions,
             w[1] = v[1], w[2] = v[2]
      PROVE  w[3] = v[3]
  <2> HIDE DEF F
  <2> DEFINE item == Files[v[1]].items[v[2]]
  <2>1. Justified(w, Expansions)
    BY <1>4, ExpansionsJustified
  <2>2. CASE v[2] = 0
    <3>1. \A u \in Expansions : u[2] + 1 # 0
      BY <1>1, <1>2
    <3>2. ~ \E u \in Expansions : Takes(u, w[1], w[2], w[3], Expansions)
      BY <1>4, <2>2, <3>1 DEF Takes
    <3>3. ~ \E u \in F : Takes(u, v[1], v[2], v[3], F)
      BY <1>1, <2>2, <3>1 DEF Takes
    <3> QED BY <1>4, <2>1, <3>2, <3>3 DEF Justified
  <2>3. CASE v[2] # 0
    <3>1. PICK a \in F : Takes(a, v[1], v[2], v[3], F)
      BY <1>4, <2>3 DEF Justified
    <3>2. PICK b \in Expansions : Takes(b, v[1], v[2], w[3], Expansions)
      BY <1>4, <2>1, <2>3, SMTT(60) DEF Justified
    <3>3. a[1] = b[1] /\ v[2] = a[2] + 1 /\ v[2] = b[2] + 1
      BY <3>1, <3>2 DEF Takes
    <3>4. a[2] \in Nat /\ b[2] \in Nat
      BY <1>1, <1>2
    <3>5. a[2] = b[2]
      BY <3>3, <3>4
    <3>6. a[3] = b[3]
      BY <1>3, <3>3, <3>5, SMTT(60)
    <3>7. CASE ~IsImport(item)
      BY <3>1, <3>2, <3>6, <3>7 DEF Takes
    <3>8. CASE IsImport(item) /\ item.pin \in Hashes
      <4>1. item.pin # NoPin
        BY <3>8, NoPinIsNoHash, SMTT(60)
      <4>2. v[3] = Joined(a[3], item.pin)
        BY <3>1, <3>8, <4>1, SMTT(60) DEF Takes
      <4>3. w[3] = Joined(b[3], item.pin)
        BY <3>2, <3>8, <4>1, SMTT(60) DEF Takes
      <4> QED BY <3>6, <4>2, <4>3
    <3>9. CASE IsImport(item) /\ item.pin = NoPin
      <4>1. PICK z \in F : /\ z[1] = item.src.name /\ z[2] = Len(Files[z[1]].items)
                           /\ v[3] = Joined(a[3], z[3])
        BY <3>1, <3>9, NoPinIsNoHash, SMTT(60) DEF Takes
      <4>2. PICK t \in Expansions : /\ t[1] = item.src.name /\ t[2] = Len(Files[t[1]].items)
                                    /\ w[3] = Joined(b[3], t[3])
        BY <3>2, <3>9, NoPinIsNoHash, SMTT(60) DEF Takes
      <4>3. z[1] = t[1] /\ z[2] = t[2]
        BY <4>1, <4>2
      <4>4. z[3] = t[3]
        BY <1>3, <4>3, SMTT(60)
      <4> QED BY <3>6, <4>1, <4>2, <4>4, SMTT(60)
    <3>10. (IsImport(item) /\ item.pin \in Hashes) \/ (IsImport(item) /\ item.pin = NoPin)
           \/ ~IsImport(item)
      BY <3>1 DEF Takes
    <3> QED BY <3>7, <3>8, <3>9, <3>10
  <2> QED BY <2>2, <2>3
<1>5. Complete(F)
  <2> SUFFICES ASSUME NEW v \in Stages, Justified(v, F) PROVE v \in F
    BY DEF Complete
  <2>1. Justified(v, Expansions)
    <3> HIDE DEF F
    <3> QED BY <1>1, JustifiedGrows
  <2>2. v \in Expansions
    BY <2>1, ExpansionsComplete DEF Complete
  <2>3. \A w \in Expansions : w[1] = v[1] /\ w[2] = v[2] => w[3] = v[3]
    <3> HIDE DEF F
    <3> QED BY <1>4
  <2> QED BY <2>2, <2>3
<1>6. F \in SUBSET Stages
  BY <1>1
<1>7. x \in F
  <2> HIDE DEF F
  <2> QED BY <1>5, <1>6 DEF Expansions
<1> QED BY <1>7

LEMMA StageBegun ==
  ASSUME NEW f \in DOMAIN Files, Files[f] \in AnyDoc
  PROVE  <<f, 0, Hash(Opened(Files[f]))>> \in Expansions
<1> DEFINE y == <<f, 0, Hash(Opened(Files[f]))>>
<1>1. Hash(Opened(Files[f])) \in Hashes
  BY OpenedHash, HashTyped
<1>2. y \in Stages
  <2> HIDE DEF y
  <2> QED BY <1>1 DEF Stages, y
<1>3. Justified(y, Expansions)
  BY DEF Justified
<1> HIDE DEF y
<1>4. y \in Expansions
  BY <1>2, <1>3, ExpansionsComplete DEF Complete
<1> QED BY <1>4 DEF y

LEMMA StageTaken ==
  ASSUME NEW f \in DOMAIN Files, NEW k \in Nat, NEW h, NEW g \in Hashes,
         <<f, k, h>> \in Expansions,
         Takes(<<f, k, h>>, f, k + 1, g, Expansions)
  PROVE  <<f, k + 1, g>> \in Expansions
<1> DEFINE y == <<f, k + 1, g>>
<1>1. y \in Stages
  BY DEF Stages
<1>2. Justified(y, Expansions)
  BY DEF Justified
<1> HIDE DEF y
<1>3. y \in Expansions
  BY <1>1, <1>2, ExpansionsComplete DEF Complete
<1> QED BY <1>3 DEF y

LEMMA TextsTyped == Texts \subseteq AnyDoc
<1>1. Items({0}, {{}}) \subseteq AnyItem
  BY DEF Items, AnyItem
<1>2. Seq(Items({0}, {{}})) \subseteq Seq(AnyItem)
  BY <1>1, SeqMonotonic
<1>3. UNION {[K -> [value : Words, id : {0}]] : K \in SUBSET Keys}
        \subseteq UNION {[K -> [value : Words, id : Nat]] : K \in SUBSET Keys}
  <2>1. [value : Words, id : {0}] \subseteq [value : Words, id : Nat]
    OBVIOUS
  <2>2. \A K : [K -> [value : Words, id : {0}]] \subseteq [K -> [value : Words, id : Nat]]
    BY <2>1
  <2> QED BY <2>2
<1> QED BY <1>2, <1>3 DEF Texts, AnyDoc, Docs, AnyItem

LEMMA FilesTyped ==
  ASSUME NEW f \in DOMAIN Files
  PROVE  Files[f] \in AnyDoc /\ Len(Files[f].items) \in Nat
         /\ \A i \in 1 .. Len(Files[f].items) : Files[f].items[i] \in AnyItem
  BY TextsTyped, DocOf, PipelineAssumption DEF Documents

-----------------------------------------------------------------------------
(* Open documents                                                           *)

AnyFrame ==
  [loc : [remote : BOOLEAN, name : STRING], pin : Hashes \cup {NoPin},
   doc : AnyDoc, todo : Seq(AnyItem)]

\* A local document has its file's first items done and the others ahead.
Traced(frame) ==
  ~frame.loc.remote =>
    /\ frame.loc.name \in DOMAIN Files
    /\ \E k \in 0 .. Len(Files[frame.loc.name].items) :
         /\ <<frame.loc.name, k, Hash(frame.doc)>> \in Expansions
         /\ Len(frame.todo) = Len(Files[frame.loc.name].items) - k
         /\ \A j \in 1 .. Len(frame.todo) :
              AsWritten(frame.todo[j], Files[frame.loc.name].items[k + j])

\* A document is open for the import that is next in the one below it.
Imported(frame, below) ==
  /\ below.todo # <<>> /\ IsImport(below.todo[1])
  /\ frame.pin = below.todo[1].pin
  /\ frame.loc = Target(below.todo[1].src, below.loc)
  /\ frame.loc.remote => frame.pin # NoPin

Open(st) ==
  /\ st \in Seq(AnyFrame)
  /\ \A i \in 1 .. Len(st) : Traced(st[i])
  /\ \A i \in 2 .. Len(st) : Imported(st[i], st[i - 1])

LEMMA OpenReplaced ==
  ASSUME NEW st, Open(st), st # <<>>, NEW frame \in AnyFrame, Traced(frame),
         frame.loc = st[Len(st)].loc, frame.pin = st[Len(st)].pin
  PROVE  LET new == [st EXCEPT ![Len(st)] = frame]
         IN  Open(new) /\ Len(new) = Len(st) /\ new[1].loc = st[1].loc
<1> DEFINE L == Len(st)
           new == [st EXCEPT ![L] = frame]
<1>1. st \in Seq(AnyFrame) /\ L \in Nat /\ L >= 1 /\ L \in 1 .. L /\ 1 \in 1 .. L
  BY DEF Open
<1>2. new \in Seq(AnyFrame) /\ Len(new) = L
      /\ \A j \in 1 .. L : new[j] = IF j = L THEN frame ELSE st[j]
  <2> HIDE DEF L
  <2>1. L \in 1 .. Len(st)
    BY <1>1 DEF L
  <2> QED BY <1>1, <2>1, ExceptSeq DEF L
<1> HIDE DEF new
<1>3. \A i \in 1 .. L : Traced(new[i])
  BY <1>1, <1>2 DEF Open
<1>4. \A i \in 2 .. L : Imported(new[i], new[i - 1])
  <2> SUFFICES ASSUME NEW i \in 2 .. L PROVE Imported(new[i], new[i - 1])
    OBVIOUS
  <2>1. Imported(st[i], st[i - 1])
    BY DEF Open
  <2>2. new[i - 1] = st[i - 1]
    BY <1>1, <1>2
  <2>3. new[i].loc = st[i].loc /\ new[i].pin = st[i].pin
    BY <1>1, <1>2
  <2> QED BY <2>1, <2>2, <2>3 DEF Imported
<1>5. Open(new)
  BY <1>2, <1>3, <1>4 DEF Open
<1>6. new[1].loc = st[1].loc
  BY <1>1, <1>2
<1> QED BY <1>2, <1>5, <1>6 DEF new

LEMMA OpenPushed ==
  ASSUME NEW st, Open(st), st # <<>>, NEW frame \in AnyFrame, Traced(frame),
         Imported(frame, st[Len(st)])
  PROVE  LET new == Append(st, frame)
         IN  /\ Open(new) /\ Len(new) = Len(st) + 1 /\ new[1] = st[1]
             /\ new[Len(st) + 1] = frame /\ \A i \in 1 .. Len(st) : new[i] = st[i]
<1> DEFINE L == Len(st)
           new == Append(st, frame)
<1>1. st \in Seq(AnyFrame) /\ L \in Nat /\ L >= 1 /\ 1 \in 1 .. L
  BY DEF Open
<1>2. new \in Seq(AnyFrame) /\ Len(new) = L + 1
      /\ \A j \in 1 .. L + 1 : new[j] = IF j = L + 1 THEN frame ELSE st[j]
  BY <1>1
<1> HIDE DEF new
<1>3. \A i \in 1 .. L + 1 : Traced(new[i])
  BY <1>1, <1>2 DEF Open
<1>4. \A i \in 2 .. L + 1 : Imported(new[i], new[i - 1])
  <2> SUFFICES ASSUME NEW i \in 2 .. L + 1 PROVE Imported(new[i], new[i - 1])
    OBVIOUS
  <2>1. CASE i = L + 1
    <3>1. new[i] = frame /\ new[i - 1] = st[L]
      BY <1>1, <1>2, <2>1
    <3> QED BY <3>1
  <2>2. CASE i # L + 1
    <3>1. i \in 2 .. L /\ new[i] = st[i] /\ new[i - 1] = st[i - 1]
      BY <1>1, <1>2, <2>2
    <3> QED BY <3>1 DEF Open
  <2> QED BY <2>1, <2>2
<1>5. Open(new)
  BY <1>2, <1>3, <1>4 DEF Open
<1> QED BY <1>1, <1>2, <1>5 DEF new

LEMMA OpenPopped ==
  ASSUME NEW st, Open(st), Len(st) > 1, NEW new, new = SubSeq(st, 1, Len(st) - 1)
  PROVE  /\ Open(new) /\ Len(new) = Len(st) - 1 /\ new # <<>> /\ new[1] = st[1]
         /\ \A i \in 1 .. Len(new) : new[i] = st[i]
<1> DEFINE L == Len(st) - 1
<1>1. st \in Seq(AnyFrame) /\ Len(st) = L + 1 /\ L \in Nat /\ L >= 1 /\ 1 \in 1 .. L
  BY DEF Open
<1>2. new \in Seq(AnyFrame) /\ Len(new) = L /\ \A j \in 1 .. L : new[j] = st[j]
  <2> HIDE DEF L
  <2> QED BY <1>1
<1>3. \A i \in 1 .. L : Traced(new[i])
  BY <1>1, <1>2 DEF Open
<1>4. \A i \in 2 .. L : Imported(new[i], new[i - 1])
  <2> SUFFICES ASSUME NEW i \in 2 .. L PROVE Imported(new[i], new[i - 1])
    OBVIOUS
  <2>1. new[i] = st[i] /\ new[i - 1] = st[i - 1] /\ i \in 2 .. Len(st)
    BY <1>1, <1>2
  <2> QED BY <2>1 DEF Open
<1>5. new # <<>>
  <2>1. Len(new) # 0
    BY <1>1, <1>2
  <2> QED BY <2>1, EmptySeq
<1>6. Open(new)
  <2> HIDE DEF L
  <2> QED BY <1>2, <1>3, <1>4, Zenon DEF Open
<1> QED BY <1>1, <1>2, <1>5, <1>6

LEMMA FrameTyped ==
  ASSUME NEW loc \in [remote : BOOLEAN, name : STRING], NEW pin \in Hashes \cup {NoPin},
         NEW doc \in AnyDoc, NEW todo \in Seq(AnyItem)
  PROVE  [loc |-> loc, pin |-> pin, doc |-> doc, todo |-> todo] \in AnyFrame
  BY DEF AnyFrame

LEMMA FrameOpened ==
  ASSUME NEW loc, loc \in [remote : BOOLEAN, name : STRING],
         NEW pin, pin \in Hashes \cup {NoPin}, NEW doc, doc \in AnyDoc,
         NEW frame, frame = Frame(loc, pin, doc)
  PROVE  /\ frame \in AnyFrame /\ frame.loc = loc /\ frame.pin = pin
         /\ frame.todo = doc.items /\ frame.doc = Opened(doc)
<1>1. frame = [loc |-> loc, pin |-> pin, doc |-> Opened(doc), todo |-> doc.items]
  BY DEF Frame, Opened
<1>2. Opened(doc) \in AnyDoc /\ doc.items \in Seq(AnyItem)
  BY OpenedHash, DocOf
<1> QED BY <1>1, <1>2 DEF AnyFrame

\* A file just parsed and opened.
LEMMA TracedStart ==
  ASSUME NEW name \in DOMAIN Files, NEW n \in Nat, NEW frame \in AnyFrame,
         NEW doc, doc = Parse(Files[name], n),
         ~frame.loc.remote, frame.loc.name = name,
         frame.doc = Opened(doc), frame.todo = doc.items
  PROVE  Traced(frame)
<1> DEFINE items == Files[name].items
<1>1. Files[name] \in AnyDoc /\ Len(items) \in Nat /\ DOMAIN items = 1 .. Len(items)
  BY FilesTyped, DocOf
<1>2. /\ doc \in AnyDoc /\ Hash(doc) = Hash(Files[name])
      /\ Len(doc.items) = Len(items)
      /\ \A i \in 1 .. Len(items) : AsWritten(doc.items[i], items[i])
  BY <1>1, ParseKeeps
<1>3. Hash(frame.doc) = Hash(Opened(Files[name]))
  BY <1>1, <1>2, OpenedHash
<1>4. <<name, 0, Hash(frame.doc)>> \in Expansions
  BY <1>1, <1>3, StageBegun
<1> HIDE DEF items
<1>5. /\ 0 \in 0 .. Len(items) /\ Len(frame.todo) = Len(items) - 0
      /\ \A j \in 1 .. Len(frame.todo) : AsWritten(frame.todo[j], items[0 + j])
  BY <1>1, <1>2
<1> QED BY <1>4, <1>5 DEF Traced, items

\* A local document's first item ahead is its file's next one, and whatever
\* expansion that item takes it to, it has the rest ahead then.
LEMMA TracedNext ==
  ASSUME NEW frame \in AnyFrame, Traced(frame), ~frame.loc.remote, frame.todo # <<>>,
         NEW new \in AnyFrame, new.loc = frame.loc, new.todo = Tail(frame.todo),
         \A n \in Nat : n >= 1 /\ n <= Len(Files[frame.loc.name].items)
                    /\ AsWritten(frame.todo[1], Files[frame.loc.name].items[n])
                    => Takes(<<frame.loc.name, n - 1, Hash(frame.doc)>>,
                             frame.loc.name, n, Hash(new.doc), Expansions)
  PROVE  Traced(new)
<1> DEFINE f == frame.loc.name
           items == Files[f].items
           L == Len(items)
           todo == frame.todo
<1>1. f \in DOMAIN Files
  BY DEF Traced
<1>2. L \in Nat
  BY <1>1, FilesTyped
<1>3. PICK k \in 0 .. L :
        /\ <<f, k, Hash(frame.doc)>> \in Expansions
        /\ Len(todo) = L - k
        /\ \A j \in 1 .. Len(todo) : AsWritten(todo[j], items[k + j])
  BY DEF Traced
<1>4. /\ todo \in Seq(AnyItem) /\ Len(todo) \in Nat /\ Len(todo) >= 1
      /\ Tail(todo) \in Seq(AnyItem) /\ Len(Tail(todo)) = Len(todo) - 1
      /\ \A i \in 1 .. Len(Tail(todo)) : Tail(todo)[i] = todo[i + 1]
  <2>1. todo \in Seq(AnyItem) /\ todo # <<>>
    BY DEF AnyFrame
  <2> HIDE DEF todo
  <2> QED BY <2>1, HeadTailProperties, EmptySeq
<1>5. frame.todo = todo /\ new.todo = Tail(todo) /\ new.loc = frame.loc
  OBVIOUS
<1> HIDE DEF L, todo, items
<1>6. k \in Nat /\ k + 1 >= 1 /\ k + 1 <= L /\ 1 \in 1 .. Len(todo)
      /\ k + 1 \in 0 .. L /\ k + 1 \in Nat
  BY <1>2, <1>3, <1>4
<1>7. AsWritten(todo[1], items[k + 1])
  BY <1>3, <1>6
<1>8. Takes(<<f, k, Hash(frame.doc)>>, f, k + 1, Hash(new.doc), Expansions)
  <2>1. Takes(<<f, (k + 1) - 1, Hash(frame.doc)>>, f, k + 1, Hash(new.doc), Expansions)
    BY <1>5, <1>6, <1>7 DEF L, items
  <2>2. (k + 1) - 1 = k
    BY <1>6
  <2> QED BY <2>1, <2>2
<1>9. Hash(new.doc) \in Hashes
  BY HashTyped DEF AnyFrame
<1>10. <<f, k + 1, Hash(new.doc)>> \in Expansions
  <2> HIDE DEF f
  <2> QED BY <1>1, <1>3, <1>6, <1>8, <1>9, StageTaken
<1>11. Len(new.todo) = L - (k + 1)
  BY <1>2, <1>3, <1>4, <1>5, <1>6
<1>12. \A j \in 1 .. Len(new.todo) : AsWritten(new.todo[j], items[(k + 1) + j])
  <2> SUFFICES ASSUME NEW j \in 1 .. Len(new.todo)
               PROVE  AsWritten(new.todo[j], items[(k + 1) + j])
    OBVIOUS
  <2>1. new.todo[j] = todo[j + 1] /\ j + 1 \in 1 .. Len(todo) /\ (k + 1) + j = k + (j + 1)
    BY <1>4, <1>5, <1>6
  <2> QED BY <1>3, <2>1
<1> QED BY <1>1, <1>5, <1>6, <1>10, <1>11, <1>12 DEF Traced, f, items, L

LEMMA FrameIs ==
  ASSUME NEW frame \in AnyFrame
  PROVE  /\ frame = [loc |-> frame.loc, pin |-> frame.pin, doc |-> frame.doc,
                     todo |-> frame.todo]
         /\ frame.loc \in [remote : BOOLEAN, name : STRING]
         /\ frame.pin \in Hashes \cup {NoPin}
         /\ frame.doc \in AnyDoc /\ frame.todo \in Seq(AnyItem)
  BY DEF AnyFrame

LEMMA TracedPass ==
  ASSUME NEW frame \in AnyFrame, Traced(frame), frame.todo # <<>>, ~IsImport(frame.todo[1]),
         NEW new, new = [loc |-> frame.loc, pin |-> frame.pin,
                         doc |-> [frame.doc EXCEPT !.items = Append(@, frame.todo[1])],
                         todo |-> Tail(frame.todo)]
  PROVE  /\ new \in AnyFrame /\ Traced(new) /\ new.loc = frame.loc /\ new.pin = frame.pin
         /\ new.doc = [frame.doc EXCEPT !.items = Append(@, frame.todo[1])]
         /\ new.todo = Tail(frame.todo)
<1> DEFINE item == frame.todo[1]
           doc == [frame.doc EXCEPT !.items = Append(@, item)]
<1>1. /\ frame.loc \in [remote : BOOLEAN, name : STRING] /\ frame.pin \in Hashes \cup {NoPin}
      /\ frame.doc \in AnyDoc /\ frame.todo \in Seq(AnyItem)
  BY FrameIs
<1>2. item \in AnyItem /\ Tail(frame.todo) \in Seq(AnyItem)
  <2> DEFINE todo == frame.todo
  <2>1. todo \in Seq(AnyItem) /\ todo # <<>>
    BY <1>1
  <2> HIDE DEF todo
  <2>2. todo[1] \in AnyItem /\ Tail(todo) \in Seq(AnyItem)
    BY <2>1
  <2> QED BY <2>2 DEF todo
<1> HIDE DEF item
<1>3. doc \in AnyDoc /\ Hash(doc) = Passed(Hash(frame.doc), item)
  BY <1>1, <1>2, PassedHash
<1>4. new = [loc |-> frame.loc, pin |-> frame.pin, doc |-> doc, todo |-> Tail(frame.todo)]
  BY DEF item
<1> HIDE DEF doc
<1>5. /\ new \in AnyFrame /\ new.loc = frame.loc /\ new.pin = frame.pin
      /\ new.doc = doc /\ new.todo = Tail(frame.todo)
  <2> DEFINE loc == frame.loc
             pin == frame.pin
             todo == Tail(frame.todo)
  <2>1. /\ loc \in [remote : BOOLEAN, name : STRING] /\ pin \in Hashes \cup {NoPin}
        /\ todo \in Seq(AnyItem) /\ new = [loc |-> loc, pin |-> pin, doc |-> doc, todo |-> todo]
    BY <1>1, <1>2, <1>4
  <2> HIDE DEF loc, pin, todo
  <2>2. [loc |-> loc, pin |-> pin, doc |-> doc, todo |-> todo] \in AnyFrame
    BY <1>3, <2>1, FrameTyped
  <2>3. new \in AnyFrame
    BY <2>1, <2>2
  <2>4. new.loc = loc /\ new.pin = pin /\ new.doc = doc /\ new.todo = todo
    BY <2>1
  <2> QED BY <2>3, <2>4 DEF loc, pin, todo
<1>6. Traced(new)
  <2>1. CASE frame.loc.remote
    BY <1>5, <2>1 DEF Traced
  <2>2. CASE ~frame.loc.remote
    <3>1. ASSUME NEW n \in Nat, n >= 1, n <= Len(Files[frame.loc.name].items),
                 AsWritten(frame.todo[1], Files[frame.loc.name].items[n])
          PROVE  Takes(<<frame.loc.name, n - 1, Hash(frame.doc)>>,
                       frame.loc.name, n, Hash(new.doc), Expansions)
      <4> DEFINE text == Files[frame.loc.name].items[n]
      <4>1. item.kind = text.kind /\ item.values = text.values /\ ~IsImport(text)
        BY <3>1 DEF AsWritten, IsImport, item
      <4>2. Passed(Hash(frame.doc), text) = Passed(Hash(frame.doc), item)
        BY <4>1 DEF Passed
      <4>3. Hash(new.doc) = Passed(Hash(frame.doc), text)
        BY <1>3, <1>5, <4>2
      <4>4. n = (n - 1) + 1
        BY <3>1
      <4> QED BY <3>1, <4>1, <4>3, <4>4 DEF Takes
    <3> QED BY <1>5, <2>2, <3>1, TracedNext
  <2> QED BY <2>1, <2>2
<1> QED BY <1>5, <1>6 DEF doc, item

\* A fragment an import may be replaced by: it is what the pin says or, where
\* none is asked for, what the file comes to.
Lands(import, fragment, loc) ==
  \/ import.pin \in Hashes /\ Hash(fragment) = import.pin
  \/ /\ import.pin = NoPin
     /\ ~loc.remote =>
          <<import.src.name, Len(Files[import.src.name].items), Hash(fragment)>> \in Expansions

LEMMA TracedSplice ==
  ASSUME NEW frame \in AnyFrame, Traced(frame), frame.todo # <<>>, IsImport(frame.todo[1]),
         NEW fragment \in AnyDoc, Lands(frame.todo[1], fragment, frame.loc),
         NEW new, new = [loc |-> frame.loc, pin |-> frame.pin,
                         doc |-> Merge(frame.doc, fragment), todo |-> Tail(frame.todo)]
  PROVE  /\ new \in AnyFrame /\ Traced(new) /\ new.loc = frame.loc /\ new.pin = frame.pin
         /\ new.doc = Merge(frame.doc, fragment) /\ new.todo = Tail(frame.todo)
<1> DEFINE item == frame.todo[1]
           doc == Merge(frame.doc, fragment)
<1>1. /\ frame.loc \in [remote : BOOLEAN, name : STRING] /\ frame.pin \in Hashes \cup {NoPin}
      /\ frame.doc \in AnyDoc /\ frame.todo \in Seq(AnyItem)
  BY FrameIs
<1>2. Tail(frame.todo) \in Seq(AnyItem)
  <2> DEFINE todo == frame.todo
  <2>1. todo \in Seq(AnyItem) /\ todo # <<>>
    BY <1>1
  <2> HIDE DEF todo
  <2>2. Tail(todo) \in Seq(AnyItem)
    BY <2>1
  <2> QED BY <2>2 DEF todo
<1>3. doc \in AnyDoc /\ Hash(doc) = Joined(Hash(frame.doc), Hash(fragment))
  BY <1>1, MergedHash, ZenonT(60)
<1>4. new = [loc |-> frame.loc, pin |-> frame.pin, doc |-> doc, todo |-> Tail(frame.todo)]
  OBVIOUS
<1> HIDE DEF doc
<1>5. /\ new \in AnyFrame /\ new.loc = frame.loc /\ new.pin = frame.pin
      /\ new.doc = doc /\ new.todo = Tail(frame.todo)
  <2> DEFINE loc == frame.loc
             pin == frame.pin
             todo == Tail(frame.todo)
  <2>1. /\ loc \in [remote : BOOLEAN, name : STRING] /\ pin \in Hashes \cup {NoPin}
        /\ todo \in Seq(AnyItem) /\ new = [loc |-> loc, pin |-> pin, doc |-> doc, todo |-> todo]
    BY <1>1, <1>2, <1>4
  <2> HIDE DEF loc, pin, todo
  <2>2. [loc |-> loc, pin |-> pin, doc |-> doc, todo |-> todo] \in AnyFrame
    BY <1>3, <2>1, FrameTyped
  <2>3. new \in AnyFrame
    BY <2>1, <2>2
  <2>4. new.loc = loc /\ new.pin = pin /\ new.doc = doc /\ new.todo = todo
    BY <2>1
  <2> QED BY <2>3, <2>4 DEF loc, pin, todo
<1>6. Traced(new)
  <2>1. CASE frame.loc.remote
    BY <1>5, <2>1 DEF Traced
  <2>2. CASE ~frame.loc.remote
    <3>1. ASSUME NEW n \in Nat, n >= 1, n <= Len(Files[frame.loc.name].items),
                 AsWritten(frame.todo[1], Files[frame.loc.name].items[n])
          PROVE  Takes(<<frame.loc.name, n - 1, Hash(frame.doc)>>,
                       frame.loc.name, n, Hash(new.doc), Expansions)
      <4> DEFINE text == Files[frame.loc.name].items[n]
                 x == <<frame.loc.name, n - 1, Hash(frame.doc)>>
      <4>1. IsImport(text) /\ item.src = text.src /\ item.pin = text.pin
        BY <3>1 DEF AsWritten, IsImport
      <4>2. Hash(new.doc) = Joined(x[3], Hash(fragment))
        BY <1>3, <1>5
      <4>3. x[1] = frame.loc.name /\ n = x[2] + 1
        BY <3>1
      <4> HIDE DEF x
      <4>4. CASE item.pin \in Hashes /\ Hash(fragment) = item.pin
        BY <3>1, <4>1, <4>2, <4>3, <4>4, ZenonT(60) DEF Takes, x
      <4>5. CASE /\ item.pin = NoPin
                 /\ <<item.src.name, Len(Files[item.src.name].items), Hash(fragment)>>
                      \in Expansions
        <5> DEFINE z == <<text.src.name, Len(Files[text.src.name].items), Hash(fragment)>>
        <5>1. z \in Expansions /\ text.pin = NoPin
          BY <4>1, <4>5, ZenonT(60)
        <5>2. z[1] = text.src.name /\ z[2] = Len(Files[z[1]].items) /\ z[3] = Hash(fragment)
          OBVIOUS
        <5> HIDE DEF z
        <5> QED BY <3>1, <4>1, <4>2, <4>3, <5>1, <5>2, ZenonT(60) DEF Takes, x
      <4> QED BY <2>2, <4>4, <4>5 DEF Lands
    <3> QED BY <1>5, <2>2, <3>1, TracedNext
  <2> QED BY <2>1, <2>2
<1> QED BY <1>5, <1>6 DEF doc

-----------------------------------------------------------------------------
(* The ids of the open documents                                            *)

\* An open document with what is ahead of it.
Whole(frame) == [frame.doc EXCEPT !.items = @ \o frame.todo]

Keyed(st, top) ==
  /\ \A i \in 1 .. Len(st) : Separate(Whole(st[i])) /\ Ids(Whole(st[i])) \subseteq 0 .. top
  /\ \A i, j \in 1 .. Len(st) :
       i # j => Ids(Whole(st[i])) \cap Ids(Whole(st[j])) = {}

LEMMA WholeIs ==
  ASSUME NEW frame \in AnyFrame
  PROVE  /\ Whole(frame) \in AnyDoc /\ Whole(frame).items = frame.doc.items \o frame.todo
         /\ Whole(frame).env = frame.doc.env /\ Whole(frame).id = frame.doc.id
         /\ frame.doc.items \in Seq(AnyItem) /\ frame.todo \in Seq(AnyItem)
<1> DEFINE doc == frame.doc
           all == doc.items \o frame.todo
           d == Whole(frame)
<1>1. doc \in AnyDoc /\ frame.todo \in Seq(AnyItem)
  BY FrameIs
<1>2. /\ doc = [kind |-> doc.kind, caps |-> doc.caps, assumes |-> doc.assumes,
                env |-> doc.env, items |-> doc.items, id |-> doc.id]
      /\ doc.kind \in STRING /\ doc.caps \in SUBSET STRING /\ doc.assumes \in Maps
      /\ doc.env \in UNION {[K -> [value : Words, id : Nat]] : K \in SUBSET Keys}
      /\ doc.items \in Seq(AnyItem) /\ doc.id \in Nat
  BY <1>1, DocOf
<1>3. all \in Seq(AnyItem)
  BY <1>1, <1>2, ConcatProperties
<1>4. d = [doc EXCEPT !.items = all]
  BY DEF Whole
<1> HIDE DEF doc, all, d
<1>5. /\ d.kind = doc.kind /\ d.caps = doc.caps /\ d.assumes = doc.assumes
      /\ d.env = doc.env /\ d.items = all /\ d.id = doc.id
      /\ d = [kind |-> d.kind, caps |-> d.caps, assumes |-> d.assumes,
              env |-> d.env, items |-> d.items, id |-> d.id]
  BY <1>2, <1>4
<1>6. d \in AnyDoc
  BY <1>2, <1>3, <1>5, DocOf
<1> QED BY <1>1, <1>2, <1>5, <1>6 DEF d, doc, all

\* Two documents with the same items, values and root bear the same ids.
LEMMA SameIds ==
  ASSUME NEW d, NEW e, d.items = e.items, d.env = e.env, d.id = e.id
  PROVE  Ids(d) = Ids(e) /\ (Separate(d) <=> Separate(e))
  BY DEF Ids, Separate, ItemIds, EnvIds, Bearing

\* A document that had an import replaced by a fragment's items, and took over
\* the values it lacks, bears ids of the two of them.
LEMMA ReplacedIds ==
  ASSUME NEW A \in Seq(AnyItem), NEW item \in AnyItem, NEW B \in Seq(AnyItem),
         NEW d, d.items = (A \o <<item>>) \o B, Separate(d),
         NEW g \in AnyDoc, Separate(g), Ids(d) \cap Ids(g) = {},
         NEW e, e.items = (A \o g.items) \o B, e.env = Union(d.env, g.env), e.id = d.id
  PROVE  Separate(e) /\ Ids(e) \subseteq Ids(d) \cup Ids(g)
<1> DEFINE a == Len(A)
           b == Len(B)
           m == Len(g.items)
           D == d.items
           E == e.items
           G == g.items
<1>1. g.items \in Seq(AnyItem) /\ a \in Nat /\ b \in Nat /\ m \in Nat
      /\ <<item>> \in Seq(AnyItem) /\ Len(<<item>>) = 1
  BY DocOf
<1>2. /\ DOMAIN D = 1 .. a + 1 + b
      /\ \A i \in 1 .. a : D[i] = A[i]
      /\ \A i \in 1 .. b : D[a + 1 + i] = B[i]
  <2>1. A \o <<item>> \in Seq(AnyItem) /\ Len(A \o <<item>>) = a + 1
        /\ \A i \in 1 .. a + 1 : (A \o <<item>>)[i] = IF i <= a THEN A[i] ELSE <<item>>[i - a]
    BY <1>1, ConcatProperties
  <2> DEFINE C == A \o <<item>>
  <2> HIDE DEF C
  <2>2. C \in Seq(AnyItem) /\ Len(C) = a + 1 /\ D = C \o B /\ \A i \in 1 .. a : C[i] = A[i]
    BY <1>1, <2>1 DEF C
  <2>3. D \in Seq(AnyItem) /\ Len(D) = a + 1 + b
        /\ \A i \in 1 .. a + 1 + b : D[i] = IF i <= a + 1 THEN C[i] ELSE B[i - (a + 1)]
    BY <1>1, <2>2, ConcatProperties
  <2> HIDE DEF a, b, D
  <2>4. \A i \in 1 .. b : D[a + 1 + i] = B[i]
    <3> SUFFICES ASSUME NEW i \in 1 .. b PROVE D[a + 1 + i] = B[i]
      OBVIOUS
    <3>1. a + 1 + i \in 1 .. a + 1 + b /\ ~ (a + 1 + i <= a + 1) /\ (a + 1 + i) - (a + 1) = i
      BY <1>1
    <3> QED BY <2>3, <3>1
  <2>5. \A i \in 1 .. a : D[i] = A[i]
    <3> SUFFICES ASSUME NEW i \in 1 .. a PROVE D[i] = A[i]
      OBVIOUS
    <3>1. i \in 1 .. a + 1 + b /\ i <= a + 1
      BY <1>1
    <3> QED BY <2>2, <2>3, <3>1
  <2>6. DOMAIN D = 1 .. a + 1 + b
    BY <2>3
  <2> QED BY <2>4, <2>5, <2>6
<1>3. /\ DOMAIN E = 1 .. a + m + b
      /\ \A i \in 1 .. a : E[i] = A[i]
      /\ \A i \in 1 .. m : E[a + i] = G[i]
      /\ \A i \in 1 .. b : E[a + m + i] = B[i]
  <2>1. A \o G \in Seq(AnyItem) /\ Len(A \o G) = a + m
        /\ \A i \in 1 .. a + m : (A \o G)[i] = IF i <= a THEN A[i] ELSE G[i - a]
    BY <1>1, ConcatProperties
  <2> DEFINE C == A \o G
  <2> HIDE DEF C
  <2>2. C \in Seq(AnyItem) /\ Len(C) = a + m /\ E = C \o B /\ Len(B) = b
        /\ \A i \in 1 .. a + m : C[i] = IF i <= a THEN A[i] ELSE G[i - a]
    BY <1>1, <2>1 DEF C
  <2> HIDE DEF a, b, m, E, G
  <2>3. E \in Seq(AnyItem) /\ Len(E) = a + m + b
        /\ \A i \in 1 .. a + m + b : E[i] = IF i <= a + m THEN C[i] ELSE B[i - (a + m)]
    <3>1. /\ C \o B \in Seq(AnyItem) /\ Len(C \o B) = Len(C) + Len(B)
          /\ \A i \in 1 .. Len(C) + Len(B) :
               (C \o B)[i] = IF i <= Len(C) THEN C[i] ELSE B[i - Len(C)]
      BY <2>2, ConcatProperties
    <3>2. Len(C) = a + m /\ Len(B) = b /\ E = C \o B
      BY <2>2
    <3> HIDE DEF C
    <3> QED BY <3>1, <3>2
  <2>4. \A i \in 1 .. b : E[a + m + i] = B[i]
    <3> SUFFICES ASSUME NEW i \in 1 .. b PROVE E[a + m + i] = B[i]
      OBVIOUS
    <3>1. a + m + i \in 1 .. a + m + b /\ ~ (a + m + i <= a + m) /\ (a + m + i) - (a + m) = i
      BY <1>1
    <3> QED BY <2>3, <3>1
  <2>5. \A i \in 1 .. m : E[a + i] = G[i]
    <3> SUFFICES ASSUME NEW i \in 1 .. m PROVE E[a + i] = G[i]
      OBVIOUS
    <3>1. /\ a + i \in 1 .. a + m + b /\ a + i <= a + m /\ a + i \in 1 .. a + m
          /\ ~ (a + i <= a) /\ (a + i) - a = i
      BY <1>1
    <3> QED BY <2>2, <2>3, <3>1
  <2>6. \A i \in 1 .. a : E[i] = A[i]
    <3> SUFFICES ASSUME NEW i \in 1 .. a PROVE E[i] = A[i]
      OBVIOUS
    <3>1. i \in 1 .. a + m + b /\ i <= a + m /\ i \in 1 .. a + m /\ i <= a
      BY <1>1
    <3> QED BY <2>2, <2>3, <3>1
  <2>7. DOMAIN E = 1 .. a + m + b
    BY <2>3
  <2> QED BY <2>4, <2>5, <2>6, <2>7
<1> HIDE DEF a, b, m, D, E, G
<1> DEFINE Inner == a + 1 .. a + m
           Outer == (1 .. a + m + b) \ Inner
           Old(i) == IF i <= a THEN i ELSE (i - m) + 1
<1>4. \A i \in Inner : i - a \in DOMAIN G /\ E[i] = G[i - a] /\ i \in Nat
  <2>1. DOMAIN G = 1 .. m
    BY <1>1 DEF G, m
  <2> SUFFICES ASSUME NEW i \in Inner PROVE i - a \in DOMAIN G /\ E[i] = G[i - a] /\ i \in Nat
    OBVIOUS
  <2>2. i - a \in 1 .. m /\ a + (i - a) = i /\ i \in Nat
    BY <1>1
  <2> QED BY <1>3, <2>1, <2>2
<1>5. \A i \in Outer : Old(i) \in DOMAIN D /\ E[i] = D[Old(i)] /\ i \in Nat
  <2> SUFFICES ASSUME NEW i \in Outer
               PROVE  Old(i) \in DOMAIN D /\ E[i] = D[Old(i)] /\ i \in Nat
    OBVIOUS
  <2>1. CASE i <= a
    BY <1>1, <1>2, <1>3, <2>1
  <2>2. CASE ~ (i <= a)
    <3>1. i - (a + m) \in 1 .. b /\ a + m + (i - (a + m)) = i /\ i \in Nat
          /\ (i - m) + 1 = a + 1 + (i - (a + m)) /\ (i - m) + 1 \in 1 .. a + 1 + b
      BY <1>1, <2>2
    <3>2. E[i] = B[i - (a + m)] /\ D[a + 1 + (i - (a + m))] = B[i - (a + m)]
      BY <1>2, <1>3, <3>1
    <3> QED BY <1>2, <2>2, <3>1, <3>2
  <2> QED BY <2>1, <2>2
<1>6. \A i, j \in Outer : i # j => Old(i) # Old(j)
  BY <1>1
<1>7. DOMAIN E = Inner \cup Outer
  BY <1>1, <1>3
<1> HIDE DEF Inner, Outer, Old
<1>8. /\ \A i \in DOMAIN D : Bearing(D[i]) \subseteq ItemIds(D)
      /\ \A i \in DOMAIN G : Bearing(G[i]) \subseteq ItemIds(G)
  BY DEF ItemIds, Bearing
<1>9. ItemIds(E) = UNION {Bearing(E[i]) : i \in DOMAIN E}
  BY DEF ItemIds, Bearing
<1>10. ItemIds(E) \subseteq ItemIds(D) \cup ItemIds(G)
  <2>1. \A i \in DOMAIN E : Bearing(E[i]) \subseteq ItemIds(D) \cup ItemIds(G)
    <3> SUFFICES ASSUME NEW i \in DOMAIN E
                 PROVE  Bearing(E[i]) \subseteq ItemIds(D) \cup ItemIds(G)
      OBVIOUS
    <3>1. CASE i \in Inner
      BY <1>4, <1>8, <3>1
    <3>2. CASE i \in Outer
      BY <1>5, <1>8, <3>2
    <3> QED BY <1>7, <3>1, <3>2
  <2> QED BY <1>9, <2>1
<1>11. /\ ItemIds(D) \cap ItemIds(G) = {} /\ ItemIds(D) \cap EnvIds(g) = {}
       /\ EnvIds(d) \cap ItemIds(G) = {} /\ EnvIds(d) \cap EnvIds(g) = {}
       /\ d.id \notin ItemIds(G) /\ d.id \notin EnvIds(g)
  BY DEF Ids, D, G
<1>12. /\ \A k, l \in DOMAIN d.env : k # l => d.env[k].id # d.env[l].id
       /\ EnvIds(d) \cap ItemIds(D) = {} /\ d.id \notin EnvIds(d) \cup ItemIds(D)
       /\ \A i \in DOMAIN D : D[i].id \notin D[i].inner
       /\ \A i, j \in DOMAIN D : i # j => Bearing(D[i]) \cap Bearing(D[j]) = {}
  BY DEF Separate, D
<1>13. /\ \A k, l \in DOMAIN g.env : k # l => g.env[k].id # g.env[l].id
       /\ EnvIds(g) \cap ItemIds(G) = {}
       /\ \A i \in DOMAIN G : G[i].id \notin G[i].inner
       /\ \A i, j \in DOMAIN G : i # j => Bearing(G[i]) \cap Bearing(G[j]) = {}
  BY DEF Separate, G
<1>14. \A i \in DOMAIN E : E[i].id \notin E[i].inner
  BY <1>4, <1>5, <1>7, <1>12, <1>13
<1>15. \A i, j \in DOMAIN E : i # j => Bearing(E[i]) \cap Bearing(E[j]) = {}
  <2> SUFFICES ASSUME NEW i \in DOMAIN E, NEW j \in DOMAIN E, i # j
               PROVE  Bearing(E[i]) \cap Bearing(E[j]) = {}
    OBVIOUS
  <2>1. CASE i \in Inner /\ j \in Inner
    <3>1. i - a # j - a
      BY <1>1, <1>4, <2>1
    <3> QED BY <1>4, <1>13, <2>1, <3>1
  <2>2. CASE i \in Outer /\ j \in Outer
    BY <1>5, <1>6, <1>12, <2>2
  <2>3. CASE i \in Inner /\ j \in Outer
    <3>1. Bearing(E[i]) \subseteq ItemIds(G) /\ Bearing(E[j]) \subseteq ItemIds(D)
      BY <1>4, <1>5, <1>8, <2>3
    <3> QED BY <1>11, <3>1
  <2>4. CASE i \in Outer /\ j \in Inner
    <3>1. Bearing(E[j]) \subseteq ItemIds(G) /\ Bearing(E[i]) \subseteq ItemIds(D)
      BY <1>4, <1>5, <1>8, <2>4
    <3> QED BY <1>11, <3>1
  <2> QED BY <1>7, <2>1, <2>2, <2>3, <2>4
<1>16. /\ DOMAIN e.env = DOMAIN d.env \cup DOMAIN g.env
       /\ \A k \in DOMAIN e.env :
            \/ k \in DOMAIN d.env /\ e.env[k] = d.env[k]
            \/ k \in DOMAIN g.env /\ e.env[k] = g.env[k]
  BY DEF Union
<1>17. /\ \A k \in DOMAIN d.env : d.env[k].id \in EnvIds(d)
       /\ \A k \in DOMAIN g.env : g.env[k].id \in EnvIds(g)
  BY DEF EnvIds
<1>18. EnvIds(e) \subseteq EnvIds(d) \cup EnvIds(g)
  BY <1>16, <1>17 DEF EnvIds
<1>19. \A k, l \in DOMAIN e.env : k # l => e.env[k].id # e.env[l].id
  BY <1>11, <1>12, <1>13, <1>16, <1>17
<1>20. EnvIds(e) \cap ItemIds(E) = {} /\ e.id \notin EnvIds(e) \cup ItemIds(E)
  BY <1>10, <1>11, <1>12, <1>13, <1>18
<1>21. Separate(e)
  BY <1>14, <1>15, <1>19, <1>20 DEF Separate, E
<1>22. Ids(e) \subseteq Ids(d) \cup Ids(g)
  BY <1>10, <1>18, SMTT(60) DEF Ids, D, E, G
<1> QED BY <1>21, <1>22

LEMMA KeyedReplaced ==
  ASSUME NEW st \in Seq(AnyFrame), st # <<>>, NEW n \in Nat, NEW m \in Nat, n <= m,
         Keyed(st, n), NEW X, X \subseteq 0 .. m,
         \A i \in 1 .. Len(st) : Ids(Whole(st[i])) \cap X = {},
         NEW frame \in AnyFrame, Separate(Whole(frame)),
         Ids(Whole(frame)) \subseteq Ids(Whole(st[Len(st)])) \cup X,
         NEW new, new = [st EXCEPT ![Len(st)] = frame]
  PROVE  Keyed(new, m)
<1> DEFINE L == Len(st)
           Of(f) == Ids(Whole(f))
<1>1. L \in Nat /\ L >= 1 /\ L \in 1 .. L
  OBVIOUS
<1>2. Len(new) = L /\ \A j \in 1 .. L : new[j] = IF j = L THEN frame ELSE st[j]
  <2> HIDE DEF L
  <2>1. L \in 1 .. Len(st)
    BY <1>1 DEF L
  <2> QED BY <1>1, <2>1, ExceptSeq DEF L
<1>3. /\ \A i \in 1 .. L : Separate(Whole(st[i])) /\ Of(st[i]) \subseteq 0 .. n
      /\ \A i, j \in 1 .. L : i # j => Of(st[i]) \cap Of(st[j]) = {}
      /\ \A i \in 1 .. L : Of(st[i]) \cap X = {}
      /\ Of(frame) \subseteq Of(st[L]) \cup X
  BY DEF Keyed
<1> HIDE DEF L, Of
<1>4. 0 .. n \subseteq 0 .. m
  OBVIOUS
<1>5. \A i \in 1 .. L : Separate(Whole(new[i])) /\ Of(new[i]) \subseteq 0 .. m
  <2> SUFFICES ASSUME NEW i \in 1 .. L
               PROVE  Separate(Whole(new[i])) /\ Of(new[i]) \subseteq 0 .. m
    OBVIOUS
  <2>1. CASE i = L
    BY <1>1, <1>2, <1>3, <1>4, <2>1
  <2>2. CASE i # L
    BY <1>2, <1>3, <1>4, <2>2
  <2> QED BY <2>1, <2>2
<1>6. \A i, j \in 1 .. L : i # j => Of(new[i]) \cap Of(new[j]) = {}
  <2> SUFFICES ASSUME NEW i \in 1 .. L, NEW j \in 1 .. L, i # j
               PROVE  Of(new[i]) \cap Of(new[j]) = {}
    OBVIOUS
  <2>1. CASE i = L
    <3>1. new[i] = frame /\ new[j] = st[j] /\ j # L
      BY <1>2, <2>1
    <3> QED BY <1>1, <1>3, <3>1
  <2>2. CASE j = L
    <3>1. new[j] = frame /\ new[i] = st[i] /\ i # L
      BY <1>2, <2>2
    <3> QED BY <1>1, <1>3, <3>1
  <2>3. CASE i # L /\ j # L
    BY <1>2, <1>3, <2>3
  <2> QED BY <2>1, <2>2, <2>3
<1> QED BY <1>2, <1>5, <1>6 DEF Keyed, Of, L

LEMMA KeyedPushed ==
  ASSUME NEW st \in Seq(AnyFrame), NEW n \in Nat, NEW m \in Nat, n <= m,
         Keyed(st, n), NEW frame \in AnyFrame, Separate(Whole(frame)),
         Ids(Whole(frame)) \subseteq n + 1 .. m
  PROVE  Keyed(Append(st, frame), m)
<1> DEFINE L == Len(st)
           new == Append(st, frame)
           Of(f) == Ids(Whole(f))
<1>1. L \in Nat
  OBVIOUS
<1>2. Len(new) = L + 1 /\ \A j \in 1 .. L + 1 : new[j] = IF j = L + 1 THEN frame ELSE st[j]
  OBVIOUS
<1>3. /\ \A i \in 1 .. L : Separate(Whole(st[i])) /\ Of(st[i]) \subseteq 0 .. n
      /\ \A i, j \in 1 .. L : i # j => Of(st[i]) \cap Of(st[j]) = {}
      /\ Of(frame) \subseteq n + 1 .. m
  BY DEF Keyed
<1> HIDE DEF L, new, Of
<1>4. 0 .. n \subseteq 0 .. m /\ n + 1 .. m \subseteq 0 .. m /\ 0 .. n \cap n + 1 .. m = {}
  OBVIOUS
<1>5. \A i \in 1 .. L + 1 : Separate(Whole(new[i])) /\ Of(new[i]) \subseteq 0 .. m
  <2> SUFFICES ASSUME NEW i \in 1 .. L + 1
               PROVE  Separate(Whole(new[i])) /\ Of(new[i]) \subseteq 0 .. m
    OBVIOUS
  <2>1. CASE i = L + 1
    BY <1>2, <1>3, <1>4, <2>1
  <2>2. CASE i # L + 1
    <3>1. i \in 1 .. L /\ new[i] = st[i]
      BY <1>1, <1>2, <2>2
    <3> QED BY <1>3, <1>4, <3>1
  <2> QED BY <2>1, <2>2
<1>6. \A i, j \in 1 .. L + 1 : i # j => Of(new[i]) \cap Of(new[j]) = {}
  <2> SUFFICES ASSUME NEW i \in 1 .. L + 1, NEW j \in 1 .. L + 1, i # j
               PROVE  Of(new[i]) \cap Of(new[j]) = {}
    OBVIOUS
  <2>1. CASE i = L + 1
    <3>1. new[i] = frame /\ new[j] = st[j] /\ j \in 1 .. L
      BY <1>1, <1>2, <2>1
    <3> QED BY <1>3, <1>4, <3>1
  <2>2. CASE j = L + 1
    <3>1. new[j] = frame /\ new[i] = st[i] /\ i \in 1 .. L
      BY <1>1, <1>2, <2>2
    <3> QED BY <1>3, <1>4, <3>1
  <2>3. CASE i # L + 1 /\ j # L + 1
    <3>1. i \in 1 .. L /\ j \in 1 .. L /\ new[i] = st[i] /\ new[j] = st[j]
      BY <1>1, <1>2, <2>3
    <3> QED BY <1>3, <3>1
  <2> QED BY <2>1, <2>2, <2>3
<1> QED BY <1>2, <1>5, <1>6 DEF Keyed, Of, new, L

LEMMA KeyedPopped ==
  ASSUME NEW st, NEW n \in Nat, Keyed(st, n), NEW new, Len(st) \in Nat, Len(new) \in Nat,
         Len(new) <= Len(st), \A i \in 1 .. Len(new) : new[i] = st[i]
  PROVE  Keyed(new, n)
<1>1. \A i \in 1 .. Len(new) : i \in 1 .. Len(st)
  OBVIOUS
<1> QED BY <1>1 DEF Keyed

\* What is done and what is ahead make the same whole before and after an
\* item is passed, and before an import gives way to its fragment.
LEMMA HeadAndRest ==
  ASSUME NEW done \in Seq(AnyItem), NEW todo \in Seq(AnyItem), todo # <<>>
  PROVE  /\ todo[1] \in AnyItem /\ Tail(todo) \in Seq(AnyItem)
         /\ done \o todo = (done \o <<todo[1]>>) \o Tail(todo)
         /\ done \o todo = Append(done, todo[1]) \o Tail(todo)
<1> DEFINE x == todo[1]
           rest == Tail(todo)
           one == <<x>>
<1>1. x \in AnyItem /\ rest \in Seq(AnyItem) /\ one \in Seq(AnyItem)
  OBVIOUS
<1>2. todo = one \o rest
  <2>1. Len(one) = 1 /\ one[1] = x /\ Len(rest) = Len(todo) - 1 /\ Len(todo) >= 1
        /\ Len(todo) \in Nat /\ \A i \in 1 .. Len(rest) : rest[i] = todo[i + 1]
    OBVIOUS
  <2>2. /\ one \o rest \in Seq(AnyItem) /\ Len(one \o rest) = Len(one) + Len(rest)
        /\ \A i \in 1 .. Len(one) + Len(rest) :
             (one \o rest)[i] = IF i <= Len(one) THEN one[i] ELSE rest[i - Len(one)]
    <3> HIDE DEF one, rest
    <3> QED BY <1>1, ConcatProperties
  <2> DEFINE s == one \o rest
  <2>3. todo[1] = x
    OBVIOUS
  <2> HIDE DEF s, one, rest, x
  <2>4. s \in Seq(AnyItem) /\ Len(s) = Len(todo)
    BY <2>1, <2>2 DEF s
  <2>5. \A i \in 1 .. Len(s) : s[i] = todo[i]
    <3> SUFFICES ASSUME NEW i \in 1 .. Len(s) PROVE s[i] = todo[i]
      OBVIOUS
    <3>1. CASE i = 1
      BY <2>1, <2>2, <2>3, <2>4, <3>1 DEF s
    <3>2. CASE i # 1
      <4>1. i \in Nat /\ i - 1 \in 1 .. Len(rest) /\ (i - 1) + 1 = i /\ ~ (i <= 1)
            /\ i \in 1 .. Len(one) + Len(rest)
        BY <2>1, <2>4, <3>2
      <4>2. rest[i - 1] = todo[i]
        BY <2>1, <4>1
      <4>3. s[i] = rest[i - 1]
        BY <2>1, <2>2, <4>1 DEF s
      <4> QED BY <4>2, <4>3
    <3> QED BY <3>1, <3>2
  <2>6. s = todo
    BY <2>4, <2>5, SeqEqual
  <2> QED BY <2>6 DEF s
<1>3. Append(done, x) = done \o one
  <2> HIDE DEF x
  <2> QED BY <1>1, AppendIsConcat
<1> HIDE DEF x, rest, one
<1>4. done \o (one \o rest) = (done \o one) \o rest
  BY <1>1, ConcatAssociative, SMTT(60)
<1> QED BY <1>1, <1>2, <1>3, <1>4 DEF x, rest, one

LEMMA WholePassed ==
  ASSUME NEW frame \in AnyFrame, frame.todo # <<>>, NEW new \in AnyFrame,
         new.doc = [frame.doc EXCEPT !.items = Append(@, frame.todo[1])],
         new.todo = Tail(frame.todo)
  PROVE  Ids(Whole(new)) = Ids(Whole(frame)) /\ (Separate(Whole(frame)) => Separate(Whole(new)))
<1> DEFINE done == frame.doc.items
           todo == frame.todo
           item == todo[1]
<1>1. done \in Seq(AnyItem) /\ todo \in Seq(AnyItem) /\ todo # <<>> /\ frame.doc \in AnyDoc
  BY WholeIs, FrameIs
<1>2. done \o todo = Append(done, item) \o Tail(todo)
  <2> HIDE DEF done, todo
  <2> QED BY <1>1, HeadAndRest
<1>3. /\ new.doc.items = Append(done, item) /\ new.doc.env = frame.doc.env
      /\ new.doc.id = frame.doc.id
  <2> DEFINE doc == frame.doc
             d == new.doc
  <2>1. doc \in AnyDoc /\ d = [doc EXCEPT !.items = Append(doc.items, item)]
    BY <1>1
  <2> HIDE DEF d, doc, item
  <2>2. doc = [kind |-> doc.kind, caps |-> doc.caps, assumes |-> doc.assumes,
               env |-> doc.env, items |-> doc.items, id |-> doc.id]
    BY <2>1, DocOf
  <2>3. d.items = Append(doc.items, item) /\ d.env = doc.env /\ d.id = doc.id
    BY <2>1, <2>2
  <2> QED BY <2>3 DEF d, doc
<1>4. Whole(new).items = Whole(frame).items
  BY <1>2, <1>3, WholeIs
<1>5. Whole(new).env = Whole(frame).env /\ Whole(new).id = Whole(frame).id
  BY <1>3, WholeIs
<1> QED BY <1>4, <1>5, SameIds

LEMMA WholeSpliced ==
  ASSUME NEW frame \in AnyFrame, frame.todo # <<>>, Separate(Whole(frame)),
         NEW g \in AnyDoc, Separate(g), Ids(Whole(frame)) \cap Ids(g) = {},
         NEW new \in AnyFrame, new.doc = Merge(frame.doc, g), new.todo = Tail(frame.todo)
  PROVE  Separate(Whole(new)) /\ Ids(Whole(new)) \subseteq Ids(Whole(frame)) \cup Ids(g)
<1> DEFINE done == frame.doc.items
           todo == frame.todo
           item == todo[1]
           rest == Tail(todo)
           d == Whole(frame)
           e == Whole(new)
<1>1. done \in Seq(AnyItem) /\ todo \in Seq(AnyItem) /\ todo # <<>> /\ frame.doc \in AnyDoc
  BY WholeIs, FrameIs
<1>2. /\ done \o todo = (done \o <<item>>) \o rest
      /\ item \in AnyItem /\ rest \in Seq(AnyItem)
  <2> HIDE DEF done, todo
  <2> QED BY <1>1, HeadAndRest
<1>3. d.items = (done \o <<item>>) \o rest
  BY <1>2, WholeIs
<1>4. /\ new.doc.items = done \o g.items /\ new.doc.env = Union(frame.doc.env, g.env)
      /\ new.doc.id = frame.doc.id
  <2> DEFINE doc == frame.doc
             nd == new.doc
  <2>1. doc \in AnyDoc /\ nd = Merge(doc, g)
    BY <1>1
  <2> HIDE DEF doc, nd
  <2>2. nd.items = doc.items \o g.items /\ nd.env = Union(doc.env, g.env) /\ nd.id = doc.id
    BY <2>1, MergedHash
  <2> QED BY <2>2 DEF doc, nd
<1>5. e.items = (done \o g.items) \o rest /\ e.env = Union(d.env, g.env) /\ e.id = d.id
  BY <1>4, WholeIs
<1> HIDE DEF d, e, done, item, rest
<1> QED BY <1>1, <1>2, <1>3, <1>5, ReplacedIds DEF d, e

LEMMA WholeOpened ==
  ASSUME NEW doc \in AnyDoc, NEW frame \in AnyFrame,
         frame.doc = Opened(doc), frame.todo = doc.items
  PROVE  Ids(Whole(frame)) = Ids(doc) /\ (Separate(Whole(frame)) <=> Separate(doc))
<1>1. doc.items \in Seq(AnyItem)
  BY DocOf
<1>2. frame.doc.items = <<>> /\ frame.doc.env = doc.env /\ frame.doc.id = doc.id
  BY OpenedHash
<1>3. Whole(frame).items = doc.items
  <2>1. Whole(frame).items = <<>> \o doc.items
    BY <1>2, WholeIs
  <2> QED BY <1>1, <2>1, ConcatEmptySeq
<1>4. Whole(frame).env = doc.env /\ Whole(frame).id = doc.id
  BY <1>2, WholeIs
<1> QED BY <1>3, <1>4, SameIds

LEMMA WholeDone ==
  ASSUME NEW frame \in AnyFrame, frame.todo = <<>>
  PROVE  Ids(Whole(frame)) = Ids(frame.doc) /\ (Separate(Whole(frame)) <=> Separate(frame.doc))
<1>1. Whole(frame).items = frame.doc.items
  BY WholeIs, ConcatEmptySeq
<1> QED BY <1>1, WholeIs, SameIds

-----------------------------------------------------------------------------
(* A process's open documents from step to step                            *)

\* The documents open, the root first, with ids up to the next one's.
Sound(st, next) == next \in Nat /\ Open(st) /\ st # <<>> /\ Keyed(st, next)

LEMMA SoundTop ==
  ASSUME NEW st, NEW n, Sound(st, n)
  PROVE  /\ st \in Seq(AnyFrame) /\ Len(st) \in Nat /\ Len(st) >= 1 /\ n \in Nat
         /\ Len(st) \in 1 .. Len(st) /\ \A i \in 1 .. Len(st) : st[i] \in AnyFrame /\ Traced(st[i])
         /\ Separate(Whole(st[Len(st)])) /\ Ids(Whole(st[Len(st)])) \subseteq 0 .. n
<1>1. st \in Seq(AnyFrame) /\ st # <<>> /\ n \in Nat
  BY DEF Sound, Open
<1>2. Len(st) \in Nat /\ Len(st) >= 1 /\ Len(st) \in 1 .. Len(st)
  BY <1>1
<1>3. \A i \in 1 .. Len(st) : st[i] \in AnyFrame
  BY <1>1
<1> QED BY <1>1, <1>2, <1>3 DEF Sound, Open, Keyed

LEMMA FramePassed ==
  ASSUME NEW f, NEW item,
         f = [loc |-> f.loc, pin |-> f.pin, doc |-> f.doc, todo |-> f.todo]
  PROVE  [f EXCEPT !.doc.items = Append(@, item), !.todo = Tail(@)]
           = [loc |-> f.loc, pin |-> f.pin,
              doc |-> [f.doc EXCEPT !.items = Append(@, item)], todo |-> Tail(f.todo)]
<1> SUFFICES ASSUME NEW g, g = [f EXCEPT !.doc.items = Append(@, item), !.todo = Tail(@)]
             PROVE  g = [loc |-> f.loc, pin |-> f.pin,
                         doc |-> [f.doc EXCEPT !.items = Append(@, item)],
                         todo |-> Tail(f.todo)]
  OBVIOUS
<1>1. g = [loc |-> g.loc, pin |-> g.pin, doc |-> g.doc, todo |-> g.todo]
  OBVIOUS
<1>2. g.loc = f.loc /\ g.pin = f.pin /\ g.todo = Tail(f.todo)
  OBVIOUS
<1>3. g.doc = [f.doc EXCEPT !.items = Append(@, item)]
  OBVIOUS
<1> QED BY <1>1, <1>2, <1>3

LEMMA FrameSpliced ==
  ASSUME NEW f, NEW g,
         f = [loc |-> f.loc, pin |-> f.pin, doc |-> f.doc, todo |-> f.todo]
  PROVE  [f EXCEPT !.doc = Merge(@, g), !.todo = Tail(@)]
           = [loc |-> f.loc, pin |-> f.pin, doc |-> Merge(f.doc, g), todo |-> Tail(f.todo)]
<1> SUFFICES ASSUME NEW h, h = [f EXCEPT !.doc = Merge(@, g), !.todo = Tail(@)]
             PROVE  h = [loc |-> f.loc, pin |-> f.pin, doc |-> Merge(f.doc, g),
                         todo |-> Tail(f.todo)]
  OBVIOUS
<1>1. h = [loc |-> h.loc, pin |-> h.pin, doc |-> h.doc, todo |-> h.todo]
  OBVIOUS
<1>2. h.loc = f.loc /\ h.pin = f.pin /\ h.doc = Merge(f.doc, g) /\ h.todo = Tail(f.todo)
  OBVIOUS
<1> QED BY <1>1, <1>2

LEMMA StackPassed ==
  ASSUME NEW st, NEW n \in DOMAIN st, NEW item
  PROVE  [st EXCEPT ![n].doc.items = Append(@, item), ![n].todo = Tail(@)]
           = [st EXCEPT ![n] = [st[n] EXCEPT !.doc.items = Append(@, item), !.todo = Tail(@)]]
  OBVIOUS

LEMMA StackSpliced ==
  ASSUME NEW st, NEW n \in DOMAIN st, NEW g
  PROVE  [st EXCEPT ![n].doc = Merge(@, g), ![n].todo = Tail(@)]
           = [st EXCEPT ![n] = [st[n] EXCEPT !.doc = Merge(@, g), !.todo = Tail(@)]]
  OBVIOUS

LEMMA SoundPass ==
  ASSUME NEW st, NEW n, Sound(st, n), NEW top, top = st[Len(st)],
         top.todo # <<>>, ~IsImport(top.todo[1]), NEW new,
         new = Passing(st)
  PROVE  Sound(new, n) /\ Len(new) = Len(st) /\ new[1].loc = st[1].loc
<1> DEFINE L == Len(st)
           frame == [loc |-> top.loc, pin |-> top.pin,
                     doc |-> [top.doc EXCEPT !.items = Append(@, top.todo[1])],
                     todo |-> Tail(top.todo)]
<1>1. top \in AnyFrame /\ Traced(top) /\ n \in Nat /\ st \in Seq(AnyFrame) /\ st # <<>>
      /\ Separate(Whole(top)) /\ Ids(Whole(top)) \subseteq 0 .. n /\ Len(st) >= 1
      /\ Open(st) /\ Keyed(st, n) /\ L \in DOMAIN st
  BY SoundTop DEF Sound
<1>2. top = [loc |-> top.loc, pin |-> top.pin, doc |-> top.doc, todo |-> top.todo]
  BY <1>1, FrameIs
<1>3. frame = [top EXCEPT !.doc.items = Append(@, top.todo[1]), !.todo = Tail(@)]
  <2> DEFINE item == top.todo[1]
  <2> HIDE DEF item
  <2> QED BY <1>2, FramePassed, ZenonT(60) DEF item
<1>4. new = [st EXCEPT ![L] = frame]
  <2> HIDE DEF frame
  <2> QED BY <1>1, <1>3, StackPassed DEF Passing
<1>5. /\ frame \in AnyFrame /\ Traced(frame) /\ frame.loc = top.loc /\ frame.pin = top.pin
      /\ frame.doc = [top.doc EXCEPT !.items = Append(@, top.todo[1])]
      /\ frame.todo = Tail(top.todo)
  <2> DEFINE f == frame
  <2>1. f = [loc |-> top.loc, pin |-> top.pin,
             doc |-> [top.doc EXCEPT !.items = Append(@, top.todo[1])],
             todo |-> Tail(top.todo)]
    OBVIOUS
  <2> HIDE DEF f
  <2> QED BY <1>1, <2>1, TracedPass DEF f
<1> HIDE DEF frame
<1>6. Ids(Whole(frame)) = Ids(Whole(top)) /\ Separate(Whole(frame))
  <2>1. top \in AnyFrame /\ frame \in AnyFrame /\ top.todo # <<>> /\ Separate(Whole(top))
    BY <1>1, <1>5
  <2>2. frame.doc = [top.doc EXCEPT !.items = Append(@, top.todo[1])]
        /\ frame.todo = Tail(top.todo)
    BY <1>5
  <2>3. Ids(Whole(frame)) = Ids(Whole(top)) /\ (Separate(Whole(top)) => Separate(Whole(frame)))
    BY Zenon, <2>1, <2>2, WholePassed
  <2> QED BY <2>1, <2>3
<1>7. Open(new) /\ Len(new) = Len(st) /\ new[1].loc = st[1].loc
  <2>1. /\ Open(st) /\ st # <<>> /\ frame \in AnyFrame /\ Traced(frame)
        /\ frame.loc = st[Len(st)].loc /\ frame.pin = st[Len(st)].pin
        /\ new = [st EXCEPT ![Len(st)] = frame]
    BY <1>1, <1>4, <1>5
  <2> QED BY <2>1, OpenReplaced, ZenonT(60)
<1>8. Keyed(new, n)
  <2>1. Ids(Whole(frame)) \subseteq Ids(Whole(st[Len(st)])) \cup {}
    BY <1>6
  <2>2. {} \subseteq 0 .. n /\ \A i \in 1 .. Len(st) : Ids(Whole(st[i])) \cap {} = {}
    OBVIOUS
  <2>3. n <= n
    <3>1. n \in Nat
      BY <1>1
    <3> QED BY <3>1
  <2>4. frame \in AnyFrame /\ Separate(Whole(frame)) /\ Keyed(st, n) /\ n \in Nat
        /\ st \in Seq(AnyFrame) /\ st # <<>> /\ new = [st EXCEPT ![Len(st)] = frame]
    BY <1>1, <1>4, <1>5, <1>6
  <2> DEFINE X == {}
  <2> HIDE DEF X
  <2>5. X \subseteq 0 .. n /\ (\A i \in 1 .. Len(st) : Ids(Whole(st[i])) \cap X = {})
        /\ Ids(Whole(frame)) \subseteq Ids(Whole(st[Len(st)])) \cup X
    BY <2>1, <2>2 DEF X
  <2> QED BY <2>3, <2>4, <2>5, KeyedReplaced
<1>9. new # <<>>
  BY <1>1, <1>7, EmptySeq DEF Open
<1> QED BY <1>1, <1>7, <1>8, <1>9 DEF Sound

LEMMA SoundSplice ==
  ASSUME NEW st, NEW n, Sound(st, n), NEW home, home = st[Len(st)],
         home.todo # <<>>, IsImport(home.todo[1]),
         NEW g \in AnyDoc, Lands(home.todo[1], g, home.loc),
         Separate(g), NEW m \in Nat, n <= m, Ids(g) \subseteq 0 .. m,
         \A i \in 1 .. Len(st) : Ids(Whole(st[i])) \cap Ids(g) = {},
         NEW new,
         new = Spliced(st, g)
  PROVE  Sound(new, m) /\ Len(new) = Len(st) /\ new[1].loc = st[1].loc
<1> DEFINE L == Len(st)
           frame == [loc |-> home.loc, pin |-> home.pin,
                     doc |-> Merge(home.doc, g), todo |-> Tail(home.todo)]
<1>1. home \in AnyFrame /\ Traced(home) /\ n \in Nat /\ st \in Seq(AnyFrame) /\ st # <<>>
      /\ Separate(Whole(home)) /\ Ids(Whole(home)) \subseteq 0 .. n /\ L >= 1
      /\ Open(st) /\ Keyed(st, n) /\ L \in 1 .. Len(st) /\ DOMAIN st = 1 .. Len(st)
  BY SoundTop DEF Sound
<1>2. home = [loc |-> home.loc, pin |-> home.pin, doc |-> home.doc, todo |-> home.todo]
  BY <1>1, FrameIs
<1>3. frame = [home EXCEPT !.doc = Merge(@, g), !.todo = Tail(@)]
  BY <1>2, FrameSpliced
<1>4. new = [st EXCEPT ![L] = frame]
  <2> HIDE DEF frame
  <2> QED BY <1>1, <1>3, StackSpliced DEF Spliced
<1>5. /\ frame \in AnyFrame /\ Traced(frame) /\ frame.loc = home.loc /\ frame.pin = home.pin
      /\ frame.doc = Merge(home.doc, g) /\ frame.todo = Tail(home.todo)
  <2> DEFINE f == frame
  <2>1. f = [loc |-> home.loc, pin |-> home.pin, doc |-> Merge(home.doc, g),
             todo |-> Tail(home.todo)]
    OBVIOUS
  <2> HIDE DEF f
  <2> QED BY <1>1, <2>1, TracedSplice DEF f
<1> HIDE DEF frame
<1>6. Separate(Whole(frame)) /\ Ids(Whole(frame)) \subseteq Ids(Whole(home)) \cup Ids(g)
  <2>1. home \in AnyFrame /\ frame \in AnyFrame /\ home.todo # <<>> /\ Separate(Whole(home))
        /\ frame.doc = Merge(home.doc, g) /\ frame.todo = Tail(home.todo)
        /\ g \in AnyDoc /\ Separate(g)
    BY <1>1, <1>5
  <2>2. Ids(Whole(home)) \cap Ids(g) = {}
    BY <1>1
  <2> QED BY <2>1, <2>2, WholeSpliced
<1>7. Open(new) /\ Len(new) = Len(st) /\ new[1].loc = st[1].loc
  <2>1. /\ Open(st) /\ st # <<>> /\ frame \in AnyFrame /\ Traced(frame)
        /\ frame.loc = st[Len(st)].loc /\ frame.pin = st[Len(st)].pin
        /\ new = [st EXCEPT ![Len(st)] = frame]
    BY <1>1, <1>4, <1>5
  <2> QED BY <2>1, OpenReplaced, ZenonT(60)
<1>8. Keyed(new, m)
  <2>1. frame \in AnyFrame /\ Separate(Whole(frame)) /\ Keyed(st, n) /\ n \in Nat
        /\ st \in Seq(AnyFrame) /\ st # <<>> /\ new = [st EXCEPT ![Len(st)] = frame]
    BY <1>1, <1>4, <1>5, <1>6
  <2> DEFINE X == Ids(g)
  <2>2. X \subseteq 0 .. m /\ (\A i \in 1 .. Len(st) : Ids(Whole(st[i])) \cap X = {})
        /\ Ids(Whole(frame)) \subseteq Ids(Whole(st[Len(st)])) \cup X
    BY <1>6
  <2> HIDE DEF X
  <2> QED BY <2>1, <2>2, KeyedReplaced
<1>9. new # <<>>
  BY <1>1, <1>7, EmptySeq DEF Open
<1> QED BY <1>7, <1>8, <1>9 DEF Sound

\* A document just parsed, opened for the import that is next.
Opens(frame, top, text, doc, n) ==
  /\ frame \in AnyFrame /\ Imported(frame, top) /\ text \in AnyDoc
  /\ ~frame.loc.remote => frame.loc.name \in DOMAIN Files /\ text = Files[frame.loc.name]
  /\ doc = Parse(text, n) /\ frame.doc = Opened(doc) /\ frame.todo = doc.items

LEMMA SoundPush ==
  ASSUME NEW st, NEW n, Sound(st, n), NEW frame, NEW text, NEW doc,
         Opens(frame, st[Len(st)], text, doc, n)
  PROVE  Sound(Append(st, frame), doc.id) /\ Append(st, frame)[1] = st[1]
<1> DEFINE loc == frame.loc
           top == st[Len(st)]
           new == Append(st, frame)
<1>1. top \in AnyFrame /\ n \in Nat /\ st \in Seq(AnyFrame) /\ st # <<>>
      /\ Open(st) /\ Keyed(st, n)
  BY SoundTop DEF Sound
<1>2. /\ frame \in AnyFrame /\ Imported(frame, top) /\ text \in AnyDoc
      /\ ~loc.remote => loc.name \in DOMAIN Files /\ text = Files[loc.name]
      /\ doc = Parse(text, n) /\ frame.doc = Opened(doc) /\ frame.todo = doc.items
  BY DEF Opens
<1>3. doc \in AnyDoc
  BY <1>2, <1>1, ParseKeeps
<1>4. Separate(doc) /\ doc.id > n /\ Ids(doc) \subseteq n + 1 .. doc.id
  BY <1>2, <1>1, ParseMints
<1>5. loc.remote \in BOOLEAN
  BY <1>2 DEF AnyFrame
<1>6. Traced(frame)
  <2>1. CASE loc.remote
    BY <1>2, <1>5, <2>1 DEF Traced
  <2>2. CASE ~loc.remote
    <3> DEFINE name == loc.name
    <3>1. name \in DOMAIN Files /\ doc = Parse(Files[name], n) /\ frame.loc.name = name
          /\ ~frame.loc.remote
      BY <1>2, <1>5, <2>2
    <3> HIDE DEF name
    <3> QED BY <1>2, <1>1, <1>5, <3>1, TracedStart
  <2> QED BY <2>1, <2>2
<1>7. Ids(Whole(frame)) = Ids(doc) /\ Separate(Whole(frame))
  BY <1>2, <1>3, <1>4, <1>5, WholeOpened
<1>8. Open(new) /\ Len(new) = Len(st) + 1 /\ new[1] = st[1]
  BY <1>2, <1>1, <1>5, <1>6, OpenPushed
<1>9. doc.id \in Nat /\ n <= doc.id
  <2>1. doc.id \in Nat
    BY <1>2, <1>3, DocOf
  <2> QED BY <1>2, <1>1, <1>4, <2>1
<1>10. Keyed(new, doc.id)
  BY <1>2, <1>1, <1>4, <1>5, <1>7, <1>9, KeyedPushed
<1>11. new # <<>>
  <2>1. Len(st) \in Nat /\ new \in Seq(AnyFrame)
    BY <1>2, <1>1, <1>8 DEF Open
  <2> QED BY <1>2, <1>8, <2>1, EmptySeq
<1> QED BY <1>2, <1>8, <1>9, <1>10, <1>11 DEF Sound

\* A command begins with its profile open.
LEMMA SoundStart ==
  ASSUME NEW name \in DOMAIN Files, NEW doc, doc = Parse(Files[name], 0),
         NEW new, new = <<Frame([remote |-> FALSE, name |-> name], NoPin, doc)>>
  PROVE  /\ Sound(new, doc.id) /\ new[1].loc = [remote |-> FALSE, name |-> name]
         /\ MaxId(doc) = doc.id
<1> DEFINE loc == [remote |-> FALSE, name |-> name]
           frame == Frame(loc, NoPin, doc)
<1>1. loc \in [remote : BOOLEAN, name : STRING] /\ ~loc.remote /\ loc.name = name
  BY PipelineAssumption
<1>2. Files[name] \in AnyDoc /\ 0 \in Nat
  BY FilesTyped
<1>3. doc \in AnyDoc
  BY <1>2, ParseKeeps
<1>4. Separate(doc) /\ doc.id > 0 /\ Ids(doc) \subseteq 0 + 1 .. doc.id
  BY <1>2, ParseMints
<1>5. /\ frame \in AnyFrame /\ frame.loc = loc /\ frame.pin = NoPin
      /\ frame.todo = doc.items /\ frame.doc = Opened(doc)
  <2> DEFINE f == frame
  <2>1. f = Frame(loc, NoPin, doc)
    OBVIOUS
  <2> HIDE DEF f, loc
  <2>2. /\ f \in AnyFrame /\ f.loc = loc /\ f.pin = NoPin /\ f.todo = doc.items
        /\ f.doc = Opened(doc)
    BY <1>1, <1>3, <2>1, FrameOpened
  <2> QED BY <2>2 DEF f
<1>6. new = <<frame>>
  OBVIOUS
<1> HIDE DEF frame, loc
<1>7. Traced(frame)
  BY <1>1, <1>2, <1>5, TracedStart
<1>8. Ids(Whole(frame)) = Ids(doc) /\ Separate(Whole(frame))
  BY <1>3, <1>4, <1>5, WholeOpened
<1>9. new \in Seq(AnyFrame) /\ Len(new) = 1 /\ new[1] = frame /\ new # <<>>
  BY <1>5, <1>6
<1>10. Open(new)
  BY <1>7, <1>9 DEF Open
<1>11. doc.id \in Nat /\ doc.id \in Ids(doc)
  BY <1>3, DocOf DEF Ids
<1>12. 0 + 1 .. doc.id \subseteq 0 .. doc.id
  BY <1>11
<1>13. Keyed(new, doc.id)
  <2>1. \A i \in 1 .. Len(new) : i = 1
    BY <1>9
  <2> QED BY <1>4, <1>8, <1>9, <1>12, <2>1 DEF Keyed
<1>14. MaxId(doc) = doc.id
  <2> DEFINE S == Ids(doc)
  <2>1. \A id \in S : id <= doc.id /\ id \in Nat
    BY <1>4, <1>11
  <2>2. MaxId(doc) = CHOOSE top \in S : \A id \in S : id <= top
    BY DEF MaxId, Highest, Ids
  <2>3. doc.id \in S
    BY <1>11
  <2> HIDE DEF S
  <2>4. ASSUME NEW top \in S, \A id \in S : id <= top PROVE top = doc.id
    <3>1. doc.id <= top /\ top <= doc.id /\ top \in Nat /\ doc.id \in Nat
      BY <2>1, <2>3, <2>4
    <3> QED BY <3>1
  <2> QED BY <2>1, <2>2, <2>3, <2>4
<1> QED BY <1>5, <1>9, <1>10, <1>11, <1>13, <1>14 DEF Sound, loc

LEMMA SoundLater ==
  ASSUME NEW st, NEW n, Sound(st, n), NEW m \in Nat, n <= m
  PROVE  Sound(st, m)
<1>1. n \in Nat
  BY DEF Sound
<1>2. 0 .. n \subseteq 0 .. m
  BY <1>1
<1> QED BY <1>2 DEF Sound, Keyed

\* A local document that has nothing ahead came to one of its file's
\* expansions.
LEMMA ThroughIsExpanded ==
  ASSUME NEW frame \in AnyFrame, Traced(frame), ~frame.loc.remote, frame.todo = <<>>
  PROVE  <<frame.loc.name, Len(Files[frame.loc.name].items), Hash(frame.doc)>> \in Expansions
<1> DEFINE f == frame.loc.name
           L == Len(Files[f].items)
<1>1. f \in DOMAIN Files
  BY DEF Traced
<1>2. L \in Nat
  BY <1>1, FilesTyped
<1>3. PICK k \in 0 .. L :
        <<f, k, Hash(frame.doc)>> \in Expansions /\ Len(frame.todo) = L - k
  BY DEF Traced
<1>4. Len(frame.todo) = 0
  OBVIOUS
<1> HIDE DEF L
<1>5. k = L
  BY <1>2, <1>3, <1>4
<1> QED BY <1>3, <1>5 DEF L

\* A fragment is through, and the document below it is the next.
Closes(st, n, frame, below, home) ==
  /\ Sound(st, n) /\ Len(st) > 1 /\ frame = st[Len(st)] /\ frame.todo = <<>>
  /\ frame.pin = NoPin \/ Hash(frame.doc) = frame.pin
  /\ below = SubSeq(st, 1, Len(st) - 1) /\ home = below[Len(below)]

\* It lands there.
LEMMA SoundPop ==
  ASSUME NEW st, NEW n, NEW frame, NEW below, NEW home, Closes(st, n, frame, below, home)
  PROVE  /\ Sound(below, n) /\ below[1] = st[1]
         /\ home.todo # <<>> /\ IsImport(home.todo[1])
         /\ frame.doc \in AnyDoc /\ Lands(home.todo[1], frame.doc, home.loc)
         /\ Separate(frame.doc) /\ Ids(frame.doc) \subseteq 0 .. n
         /\ \A i \in 1 .. Len(below) : Ids(Whole(below[i])) \cap Ids(frame.doc) = {}
<1> USE DEF Closes
<1> DEFINE L == Len(st)
<1>1. /\ st \in Seq(AnyFrame) /\ L \in Nat /\ L > 1 /\ n \in Nat /\ L \in 1 .. L
      /\ Open(st) /\ Keyed(st, n) /\ L \in 2 .. L /\ L - 1 \in 1 .. L
  BY SoundTop DEF Sound
<1>2. /\ Open(below) /\ Len(below) = L - 1 /\ below # <<>> /\ below[1] = st[1]
      /\ \A i \in 1 .. Len(below) : below[i] = st[i]
  <2>1. Open(st) /\ Len(st) > 1 /\ below = SubSeq(st, 1, Len(st) - 1)
    BY <1>1
  <2> QED BY <2>1, OpenPopped, ZenonT(60)
<1>3. Keyed(below, n)
  <2>1. Len(st) \in Nat /\ Len(below) \in Nat /\ Len(below) <= Len(st)
    BY <1>1, <1>2
  <2> QED BY <1>1, <1>2, <2>1, KeyedPopped
<1>4. Sound(below, n)
  BY <1>1, <1>2, <1>3 DEF Sound
<1>5. home = st[L - 1] /\ home \in AnyFrame
  BY <1>1, <1>2
<1>6. Imported(frame, home)
  BY <1>1, <1>5 DEF Open
<1>7. frame \in AnyFrame /\ Traced(frame)
  BY <1>1 DEF Open
<1>8. Ids(Whole(frame)) = Ids(frame.doc) /\ (Separate(Whole(frame)) <=> Separate(frame.doc))
  BY <1>7, WholeDone
<1>9. Separate(Whole(frame)) /\ Ids(Whole(frame)) \subseteq 0 .. n
  BY <1>1 DEF Keyed
<1>10. \A i \in 1 .. Len(below) : Ids(Whole(below[i])) \cap Ids(frame.doc) = {}
  <2> SUFFICES ASSUME NEW i \in 1 .. Len(below)
               PROVE  Ids(Whole(below[i])) \cap Ids(frame.doc) = {}
    OBVIOUS
  <2>1. below[i] = st[i] /\ i \in 1 .. L /\ i # L
    BY <1>1, <1>2
  <2> QED BY <1>1, <1>8, <2>1 DEF Keyed
<1>11. frame.doc \in AnyDoc /\ frame.pin \in Hashes \cup {NoPin}
  BY <1>7, FrameIs
<1>12. Lands(home.todo[1], frame.doc, home.loc)
  <2> DEFINE import == home.todo[1]
  <2>1. frame.pin = import.pin /\ frame.loc = Target(import.src, home.loc)
        /\ (frame.loc.remote => frame.pin # NoPin)
    BY <1>6, SMTT(60) DEF Imported
  <2>2. CASE frame.pin # NoPin
    <3>1. import.pin \in Hashes /\ Hash(frame.doc) = import.pin
      BY <1>11, <2>1, <2>2, SMTT(60)
    <3> QED BY <3>1 DEF Lands
  <2>3. CASE frame.pin = NoPin
    <3>1. ~frame.loc.remote
      BY <2>1, <2>3
    <3>2. frame.loc.name = import.src.name
      BY <2>1, SMTT(60) DEF Target
    <3>3. <<import.src.name, Len(Files[import.src.name].items), Hash(frame.doc)>> \in Expansions
      <4>1. <<frame.loc.name, Len(Files[frame.loc.name].items), Hash(frame.doc)>> \in Expansions
        BY <1>7, <3>1, ThroughIsExpanded
      <4> QED BY <3>2, <4>1
    <3> QED BY <2>1, <2>3, <3>3 DEF Lands
  <2> QED BY <2>2, <2>3
<1> QED BY <1>2, <1>4, <1>6, <1>8, <1>9, <1>10, <1>11, <1>12 DEF Imported

-----------------------------------------------------------------------------
(* What runs depends on the hash alone                                      *)

\* The phases with what is implied at their end.
All(doc) == doc.items \o Inserted(doc)

LEMMA InsertedOf ==
  ASSUME NEW doc
  PROVE  /\ Implied(Kinds(doc.items)) \in Seq(PhaseKinds)
         /\ Len(Inserted(doc)) = Len(Implied(Kinds(doc.items)))
         /\ Inserted(doc) \in Seq([kind : PhaseKinds, values : {0}, inner : {{}},
                                   id : {MaxId(doc) + i : i \in Nat}])
         /\ \A i \in 1 .. Len(Inserted(doc)) :
              Inserted(doc)[i] = [kind |-> Implied(Kinds(doc.items))[i], values |-> 0,
                                  inner |-> {}, id |-> MaxId(doc) + i]
<1> DEFINE implied == Implied(Kinds(doc.items))
           I == [i \in DOMAIN implied |->
                   [kind |-> implied[i], values |-> 0, inner |-> {}, id |-> MaxId(doc) + i]]
           R == [kind : PhaseKinds, values : {0}, inner : {{}}, id : {MaxId(doc) + i : i \in Nat}]
<1>1. implied \in Seq(PhaseKinds)
  <2>1. \A kind \in PhaseKinds : Unless(Kinds(doc.items), kind) \in Seq(PhaseKinds)
    BY DEF Unless
  <2>2. {"toolchain", "restart", "health"} \subseteq PhaseKinds
    BY DEF PhaseKinds
  <2> QED BY <2>1, <2>2, ConcatProperties DEF Implied
<1>2. Inserted(doc) = I
  BY DEF Inserted
<1> HIDE DEF implied
<1>3. Len(implied) \in Nat /\ DOMAIN implied = 1 .. Len(implied)
      /\ \A i \in 1 .. Len(implied) : implied[i] \in PhaseKinds
  BY <1>1
<1>4. \A i \in 1 .. Len(implied) :
        [kind |-> implied[i], values |-> 0, inner |-> {}, id |-> MaxId(doc) + i] \in R
  BY <1>3
<1> HIDE DEF R
<1>5. I \in [1 .. Len(implied) -> R]
  BY <1>3, <1>4
<1>6. I \in Seq(R) /\ Len(I) = Len(implied)
  BY <1>3, <1>5
<1>7. \A i \in 1 .. Len(I) :
        I[i] = [kind |-> implied[i], values |-> 0, inner |-> {}, id |-> MaxId(doc) + i]
  BY <1>3, <1>6
<1> HIDE DEF I
<1> QED BY <1>1, <1>2, <1>6, <1>7 DEF implied, R

\* A place in the phases and what is implied holds the kind the hash says.
LEMMA KindsOfAll ==
  ASSUME NEW doc \in AnyDoc
  PROVE  /\ DOMAIN All(doc) = 1 .. Len(Marks(doc.items)) + Len(Implied(Kinds(doc.items)))
         /\ Kinds(doc.items) = {Marks(doc.items)[i][1] : i \in DOMAIN Marks(doc.items)}
         /\ \A i \in DOMAIN All(doc) :
              All(doc)[i].kind = IF i <= Len(Marks(doc.items)) THEN Marks(doc.items)[i][1]
                                 ELSE Implied(Kinds(doc.items))[i - Len(Marks(doc.items))]
<1> DEFINE items == doc.items
           more == Inserted(doc)
           implied == Implied(Kinds(doc.items))
           marks == Marks(doc.items)
           a == Len(items)
           b == Len(more)
<1>1. items \in Seq(AnyItem) /\ a \in Nat /\ DOMAIN items = 1 .. a
  BY DocOf
<1>2. marks \in Seq(AnyMark) /\ Len(marks) = a /\ DOMAIN marks = 1 .. a
      /\ \A i \in 1 .. a : marks[i] = <<items[i].kind, items[i].values>>
  <2> HIDE DEF items
  <2>1. Marks(items) \in Seq(AnyMark) /\ Len(Marks(items)) = a
    BY <1>1, MarksTyped
  <2> QED BY <1>1, <2>1 DEF Marks, items
<1>3. b \in Nat /\ b = Len(implied)
      /\ \A i \in 1 .. b : more[i].kind = implied[i]
  <2>1. Len(Inserted(doc)) = Len(Implied(Kinds(doc.items)))
        /\ Implied(Kinds(doc.items)) \in Seq(PhaseKinds)
        /\ \A i \in 1 .. Len(Inserted(doc)) :
              Inserted(doc)[i] = [kind |-> Implied(Kinds(doc.items))[i], values |-> 0,
                                  inner |-> {}, id |-> MaxId(doc) + i]
    BY InsertedOf
  <2>2. implied \in Seq(PhaseKinds) /\ b = Len(implied)
        /\ \A i \in 1 .. b : more[i] = [kind |-> implied[i], values |-> 0,
                                        inner |-> {}, id |-> MaxId(doc) + i]
    BY <2>1
  <2> HIDE DEF more, implied, b
  <2>3. b \in Nat
    BY <2>2
  <2>4. ASSUME NEW i \in 1 .. b PROVE more[i].kind = implied[i]
    <3>1. more[i] = [kind |-> implied[i], values |-> 0, inner |-> {}, id |-> MaxId(doc) + i]
      BY <2>2
    <3> QED BY <3>1
  <2> QED BY <2>2, <2>3, <2>4
<1>4. /\ Len(items \o more) = a + b /\ DOMAIN (items \o more) = 1 .. a + b
      /\ \A i \in 1 .. a + b : (items \o more)[i] = IF i <= a THEN items[i] ELSE more[i - a]
  <2> DEFINE S == AnyItem \cup [kind : PhaseKinds, values : {0}, inner : {{}},
                                id : {MaxId(doc) + i : i \in Nat}]
  <2>1. items \in Seq(S)
    BY <1>1
  <2>2. more \in Seq(S)
    <3> DEFINE R == [kind : PhaseKinds, values : {0}, inner : {{}},
                     id : {MaxId(doc) + i : i \in Nat}]
    <3>1. more \in Seq(R) /\ R \subseteq S
      BY InsertedOf
    <3> HIDE DEF R, S, more
    <3> QED BY <3>1
  <2> HIDE DEF S, items, more
  <2>3. /\ items \o more \in Seq(S) /\ Len(items \o more) = Len(items) + Len(more)
        /\ \A i \in 1 .. Len(items) + Len(more) :
             (items \o more)[i] = IF i <= Len(items) THEN items[i] ELSE more[i - Len(items)]
    BY <2>1, <2>2, ConcatProperties
  <2> QED BY <2>3
<1>5. All(doc) = items \o more
  BY DEF All
<1>6. Kinds(items) = {marks[i][1] : i \in DOMAIN marks}
  BY <1>1, <1>2 DEF Kinds
<1> DEFINE all == All(doc)
<1> HIDE DEF items, more, implied, marks, a, b, all
<1>7. \A i \in 1 .. a + b :
        all[i].kind = IF i <= a THEN marks[i][1] ELSE implied[i - a]
  <2> SUFFICES ASSUME NEW i \in 1 .. a + b
               PROVE  all[i].kind = IF i <= a THEN marks[i][1] ELSE implied[i - a]
    OBVIOUS
  <2>1. CASE i <= a
    <3>1. i \in 1 .. a /\ all[i] = items[i]
      BY <1>1, <1>3, <1>4, <1>5, <2>1 DEF all
    <3> QED BY <1>2, <2>1, <3>1
  <2>2. CASE ~ (i <= a)
    <3>1. i - a \in 1 .. b /\ all[i] = more[i - a]
      BY <1>1, <1>3, <1>4, <1>5, <2>2 DEF all
    <3> QED BY <1>3, <2>2, <3>1
  <2> QED BY <2>1, <2>2
<1>8. DOMAIN all = 1 .. a + b
  BY <1>4, <1>5 DEF all
<1> QED BY <1>2, <1>3, <1>6, <1>7, <1>8 DEF items, more, implied, marks, a, b, all

\* What the run of a document looks at.
LEMMA RunOf ==
  ASSUME NEW doc \in AnyDoc
  PROVE  /\ Normalize(doc).items = [i \in Kept(All(doc)) |-> All(doc)[i]]
         /\ Normalize(doc).caps = doc.caps /\ Normalize(doc).assumes = doc.assumes
         /\ Normalize(doc).env = doc.env /\ Normalize(doc).id = doc.id
         /\ DOMAIN Normalize(doc).items = Kept(All(doc))
         /\ \A i \in Kept(All(doc)) : Normalize(doc).items[i] = All(doc)[i]
<1> DEFINE I == [i \in Kept(All(doc)) |-> All(doc)[i]]
           d == Normalize(doc)
<1>1. d = [doc EXCEPT !.items = I]
  BY DEF Normalize, All
<1>2. doc = [kind |-> doc.kind, caps |-> doc.caps, assumes |-> doc.assumes,
             env |-> doc.env, items |-> doc.items, id |-> doc.id]
  BY DocOf
<1>3. DOMAIN I = Kept(All(doc)) /\ \A i \in Kept(All(doc)) : I[i] = All(doc)[i]
  OBVIOUS
<1> HIDE DEF I, d
<1>4. d.items = I /\ d.caps = doc.caps /\ d.assumes = doc.assumes /\ d.env = doc.env
      /\ d.id = doc.id
  BY <1>1, <1>2
<1> QED BY <1>3, <1>4 DEF d, I

LEMMA AdmittedIsWhatRuns ==
  ASSUME NEW doc \in AnyDoc
  PROVE  Admits(doc) <=> RunsThrough(doc)
<1> DEFINE run == Normalize(doc)
           I == run.items
<1>1. Admits(doc) <=> /\ \A i \in DOMAIN I : Requires(I[i].kind) \subseteq Bound(run, i)
                      /\ UNION {Demand(I[i].kind) : i \in DOMAIN I} \subseteq run.caps
  <2>1. Admits(doc) <=> InScope(run) /\ Derived(run) \subseteq run.caps
    <3>1. Admits(doc) <=> InScope(run) /\ Derived(run) \subseteq doc.caps
      BY Zenon DEF Admits
    <3> QED BY <3>1, RunOf
  <2> HIDE DEF run
  <2>2. InScope(run) <=> \A i \in DOMAIN I : Requires(I[i].kind) \subseteq Bound(run, i)
    BY DEF InScope
  <2>3. Derived(run) = UNION {Demand(I[i].kind) : i \in DOMAIN I}
    BY DEF Derived
  <2> QED BY <2>1, <2>2, <2>3
<1>2. RunsThrough(doc) <=> \A i \in DOMAIN I : /\ Requires(I[i].kind) \subseteq Bound(run, i)
                                               /\ Demand(I[i].kind) \subseteq run.caps
  BY DEF RunsThrough
<1> HIDE DEF run, I
<1>3. (UNION {Demand(I[i].kind) : i \in DOMAIN I} \subseteq run.caps)
        <=> \A i \in DOMAIN I : Demand(I[i].kind) \subseteq run.caps
  OBVIOUS
<1> QED BY <1>1, <1>2, <1>3

LEMMA SameRun ==
  ASSUME NEW doc \in AnyDoc, NEW other \in AnyDoc, Hash(doc) = Hash(other), RunsThrough(doc)
  PROVE  RunsThrough(other)
<1> DEFINE X == Normalize(doc)
           Y == Normalize(other)
           I == X.items
           J == Y.items
<1>1. /\ doc.caps = other.caps /\ doc.assumes = other.assumes
      /\ Marks(doc.items) = Marks(other.items)
  <2>1. /\ Hash(doc).caps = doc.caps /\ Hash(doc).assumes = doc.assumes
        /\ Hash(doc).items = Marks(doc.items)
    BY HashIs
  <2>2. /\ Hash(other).caps = other.caps /\ Hash(other).assumes = other.assumes
        /\ Hash(other).items = Marks(other.items)
    BY HashIs
  <2> QED BY <2>1, <2>2
<1>2. DOMAIN All(doc) = DOMAIN All(other)
      /\ \A i \in DOMAIN All(doc) : All(doc)[i].kind = All(other)[i].kind
  <2>1. Kinds(doc.items) = Kinds(other.items)
    <3>1. Kinds(doc.items) = {Marks(doc.items)[i][1] : i \in DOMAIN Marks(doc.items)}
      BY KindsOfAll
    <3>2. Kinds(other.items) = {Marks(other.items)[i][1] : i \in DOMAIN Marks(other.items)}
      BY KindsOfAll
    <3> QED BY <1>1, <3>1, <3>2
  <2>2. DOMAIN All(doc) = DOMAIN All(other)
    BY <1>1, <2>1, KindsOfAll
  <2> QED BY <1>1, <2>1, <2>2, KindsOfAll
<1>3. Kept(All(doc)) = Kept(All(other))
  BY <1>2 DEF Kept
<1>4. /\ DOMAIN I = DOMAIN J /\ \A i \in DOMAIN I : I[i].kind = J[i].kind
      /\ X.caps = Y.caps /\ X.assumes = Y.assumes
  <2>1. DOMAIN I = Kept(All(doc)) /\ DOMAIN J = Kept(All(other))
        /\ X.caps = Y.caps /\ X.assumes = Y.assumes
    BY <1>1, RunOf
  <2>2. \A i \in Kept(All(doc)) : I[i] = All(doc)[i] /\ J[i] = All(other)[i]
    BY <1>3, RunOf
  <2>3. \A i \in Kept(All(doc)) : i \in DOMAIN All(doc)
    BY DEF Kept
  <2> QED BY <1>2, <1>3, <2>1, <2>2, <2>3
<1>5. \A i \in DOMAIN I :
        Requires(I[i].kind) \subseteq Bound(X, i) /\ Demand(I[i].kind) \subseteq X.caps
  BY DEF RunsThrough
<1> HIDE DEF X, Y
<1>6. \A i, k \in DOMAIN I : Earlier(I, k, i) <=> Earlier(J, k, i)
  <2> HIDE DEF I, J
  <2> QED BY <1>4 DEF Earlier
<1>7. \A i \in DOMAIN I : Bound(X, i) = Bound(Y, i)
  <2> SUFFICES ASSUME NEW i \in DOMAIN I PROVE Bound(X, i) = Bound(Y, i)
    OBVIOUS
  <2>1. {k \in DOMAIN I : Earlier(I, k, i)} = {k \in DOMAIN J : Earlier(J, k, i)}
    BY <1>4, <1>6
  <2> DEFINE K == {k \in DOMAIN I : Earlier(I, k, i)}
  <2>2. {Produces(I[k].kind) : k \in K} = {Produces(J[k].kind) : k \in K}
    BY <1>4
  <2> QED BY <1>4, <2>1, <2>2 DEF Bound
<1>8. \A i \in DOMAIN J :
        Requires(J[i].kind) \subseteq Bound(Y, i) /\ Demand(J[i].kind) \subseteq Y.caps
  BY <1>4, <1>5, <1>7
<1> QED BY <1>8 DEF RunsThrough, X, Y

-----------------------------------------------------------------------------
(* The ids of what runs                                                     *)

LEMMA HighestOf ==
  ASSUME NEW S, S # {}, NEW n \in Nat, S \subseteq 0 .. n
  PROVE  Highest(S) \in S /\ \A id \in S : id <= Highest(S)
<1> DEFINE T == {m \in Nat : \A id \in S : id <= m}
<1>1. \A id \in S : id \in Nat /\ id <= n
  OBVIOUS
<1>2. T \in SUBSET Nat /\ n \in T
  BY <1>1
<1>3. PICK m \in T : \A k \in T : m <= k
  <2> HIDE DEF T
  <2> QED BY <1>2, LeastNumber
<1>4. m \in Nat /\ \A id \in S : id <= m
  OBVIOUS
<1>5. m \in S
  <2> SUFFICES ASSUME m \notin S PROVE FALSE
    OBVIOUS
  <2>1. \A id \in S : id < m
    BY <1>1, <1>4
  <2>2. m - 1 \in Nat /\ \A id \in S : id <= m - 1
    <3>1. PICK id \in S : TRUE
      OBVIOUS
    <3>2. id \in Nat /\ id < m
      BY <1>1, <2>1
    <3> HIDE DEF T
    <3>3. m - 1 \in Nat
      BY <1>4, <3>2
    <3>4. ASSUME NEW k \in S PROVE k <= m - 1
      <4>1. k \in Nat /\ k < m
        BY <1>1, <2>1
      <4> QED BY <1>4, <4>1
    <3> QED BY <3>3, <3>4
  <2>3. m - 1 \in T /\ ~ (m <= m - 1)
    BY <1>4, <2>2
  <2> QED BY <1>3, <2>3
<1>6. \E top \in S : \A id \in S : id <= top
  BY <1>4, <1>5
<1> QED BY <1>6 DEF Highest

LEMMA MaxIdOf ==
  ASSUME NEW doc, NEW n \in Nat, Ids(doc) \subseteq 0 .. n
  PROVE  /\ MaxId(doc) \in Ids(doc) /\ MaxId(doc) \in Nat
         /\ \A id \in Ids(doc) : id \in Nat /\ id <= MaxId(doc)
<1> DEFINE S == Ids(doc)
<1>1. S # {} /\ S \subseteq 0 .. n
  BY DEF Ids
<1>2. MaxId(doc) = Highest(S)
  BY DEF MaxId, Ids
<1> HIDE DEF S
<1>3. Highest(S) \in S /\ \A id \in S : id <= Highest(S)
  BY <1>1, HighestOf
<1> QED BY <1>1, <1>2, <1>3 DEF S

\* No two nodes of a document that keeps its ids separate bear the same one.
LEMMA NodesSeparate ==
  ASSUME NEW d, Separate(d), NEW a \in Nodes(d), NEW b \in Nodes(d), a.id = b.id
  PROVE  a = b
<1> DEFINE Root(x) == x = Node("root", "", d.id)
           Value(x, k) == k \in DOMAIN d.env /\ x = Node("value", k, d.env[k].id)
           Phase(x, i) == i \in DOMAIN d.items /\ x = Node("phase", i, d.items[i].id)
           Inner(x, i) == /\ i \in DOMAIN d.items
                          /\ \E n \in d.items[i].inner : x = Node("inner", i, n)
<1>1. ASSUME NEW x \in Nodes(d)
      PROVE  \/ Root(x) \/ (\E k : Value(x, k)) \/ (\E i : Phase(x, i)) \/ (\E i : Inner(x, i))
  BY ZenonT(60) DEF Nodes
<1>2. ASSUME NEW x, NEW i, Phase(x, i)
      PROVE  x.id = d.items[i].id /\ x.id \in Bearing(d.items[i]) /\ x.id \in ItemIds(d.items)
  BY <1>2 DEF Node, Bearing, ItemIds
<1>3. ASSUME NEW x, NEW i, Inner(x, i)
      PROVE  /\ x.id \in d.items[i].inner /\ x.id \in Bearing(d.items[i])
             /\ x.id \in ItemIds(d.items) /\ x = Node("inner", i, x.id)
  BY <1>3 DEF Node, Bearing, ItemIds
<1>4. ASSUME NEW x, NEW k, Value(x, k)
      PROVE  x.id = d.env[k].id /\ x.id \in EnvIds(d)
  BY <1>4 DEF Node, EnvIds
<1>5. ASSUME NEW x, Root(x) PROVE x.id = d.id
  BY <1>5 DEF Node
<1>6. /\ \A k, l \in DOMAIN d.env : k # l => d.env[k].id # d.env[l].id
      /\ EnvIds(d) \cap ItemIds(d.items) = {}
      /\ d.id \notin EnvIds(d) /\ d.id \notin ItemIds(d.items)
      /\ \A i \in DOMAIN d.items : d.items[i].id \notin d.items[i].inner
      /\ \A i, j \in DOMAIN d.items :
           i # j => Bearing(d.items[i]) \cap Bearing(d.items[j]) = {}
  BY DEF Separate
<1>7. CASE Root(a)
  <2>1. Root(b)
    <3>1. b.id = d.id
      BY <1>5, <1>7
    <3>2. ~ \E k : Value(b, k)
      BY <1>4, <1>6, <3>1
    <3>3. ~ \E i : Phase(b, i)
      BY <1>2, <1>6, <3>1
    <3>4. ~ \E i : Inner(b, i)
      BY <1>3, <1>6, <3>1
    <3> QED BY <1>1, <3>2, <3>3, <3>4
  <2> QED BY <1>7, <2>1
<1>8. CASE \E k : Value(a, k)
  <2>1. PICK k : Value(a, k)
    BY <1>8
  <2>2. a.id \in EnvIds(d) /\ a.id = d.env[k].id
    BY <1>4, <2>1
  <2>3. PICK l : Value(b, l)
    <3>1. b.id \in EnvIds(d)
      BY <2>2
    <3>2. ~Root(b)
      BY <1>5, <1>6, <3>1
    <3>3. ~ \E i : Phase(b, i)
      BY <1>2, <1>6, <3>1
    <3>4. ~ \E i : Inner(b, i)
      BY <1>3, <1>6, <3>1
    <3> QED BY <1>1, <3>2, <3>3, <3>4
  <2>4. b.id = d.env[l].id
    BY <1>4, <2>3
  <2>5. k = l
    BY <1>6, <2>1, <2>2, <2>3, <2>4
  <2> QED BY <2>1, <2>3, <2>5
<1>9. CASE \E i : Phase(a, i) \/ Inner(a, i)
  <2>1. PICK i : Phase(a, i) \/ Inner(a, i)
    BY <1>9
  <2>2. a.id \in ItemIds(d.items) /\ a.id \in Bearing(d.items[i]) /\ i \in DOMAIN d.items
    BY <1>2, <1>3, <2>1
  <2>3. PICK j : Phase(b, j) \/ Inner(b, j)
    <3>1. b.id \in ItemIds(d.items)
      BY <2>2
    <3>2. ~Root(b)
      BY <1>5, <1>6, <3>1
    <3>3. ~ \E k : Value(b, k)
      BY <1>4, <1>6, <3>1
    <3> QED BY <1>1, <3>2, <3>3
  <2>4. b.id \in Bearing(d.items[j]) /\ j \in DOMAIN d.items
    BY <1>2, <1>3, <2>3
  <2>5. i = j
    BY <1>6, <2>2, <2>4
  <2>6. CASE Phase(a, i) /\ Phase(b, j)
    BY <2>5, <2>6
  <2>7. CASE Inner(a, i) /\ Inner(b, j)
    <3>1. a = Node("inner", i, a.id) /\ b = Node("inner", j, b.id)
      BY <1>3, <2>7
    <3> QED BY <2>5, <3>1
  <2>8. CASE Phase(a, i) /\ Inner(b, j)
    BY <1>2, <1>3, <1>6, <2>2, <2>5, <2>8
  <2>9. CASE Inner(a, i) /\ Phase(b, j)
    BY <1>2, <1>3, <1>6, <2>2, <2>5, <2>9
  <2> QED BY <2>1, <2>3, <2>6, <2>7, <2>8, <2>9
<1>10. (\E i : Phase(a, i)) \/ (\E i : Inner(a, i)) => \E i : Phase(a, i) \/ Inner(a, i)
  OBVIOUS
<1> HIDE DEF Root, Value, Phase, Inner
<1> QED BY <1>1, <1>7, <1>8, <1>9, <1>10

LEMMA NodeIdsAre ==
  ASSUME NEW d, NEW a \in Nodes(d)
  PROVE  a.id \in Ids(d)
<1>1. CASE a = Node("root", "", d.id)
  BY <1>1 DEF Node, Ids
<1>2. CASE \E k \in DOMAIN d.env : a = Node("value", k, d.env[k].id)
  BY <1>2 DEF Node, Ids, EnvIds
<1>3. CASE \E i \in DOMAIN d.items :
             \/ a = Node("phase", i, d.items[i].id)
             \/ \E n \in d.items[i].inner : a = Node("inner", i, n)
  <2>1. PICK i \in DOMAIN d.items :
             \/ a = Node("phase", i, d.items[i].id)
             \/ \E n \in d.items[i].inner : a = Node("inner", i, n)
    BY <1>3
  <2>2. a.id \in {d.items[i].id} \cup d.items[i].inner
    BY <2>1 DEF Node
  <2> QED BY <2>2 DEF Ids, ItemIds
<1> QED BY <1>1, <1>2, <1>3 DEF Nodes

\* What is implied gets ids above the document's, and goes by no other.
LEMMA NormalSeparate ==
  ASSUME NEW doc \in AnyDoc, Separate(doc), NEW n \in Nat, Ids(doc) \subseteq 0 .. n,
         NEW d, d = Normalize(doc)
  PROVE  Separate(d) /\ \E m \in Nat : Ids(d) \subseteq 0 .. m
<1> DEFINE items == doc.items
           more == Inserted(doc)
           all == All(doc)
           top == MaxId(doc)
           a == Len(items)
           b == Len(more)
<1>1. items \in Seq(AnyItem) /\ a \in Nat /\ DOMAIN items = 1 .. a
  BY DocOf
<1>2. /\ top \in Ids(doc) /\ top \in Nat
      /\ \A id \in Ids(doc) : id \in Nat /\ id <= top
  BY MaxIdOf
<1>3. /\ b \in Nat
      /\ \A i \in 1 .. b : more[i].id = top + i /\ more[i].inner = {}
  <2> DEFINE implied == Implied(Kinds(items))
  <2>1. implied \in Seq(PhaseKinds) /\ b = Len(implied)
        /\ \A i \in 1 .. b : more[i] = [kind |-> implied[i], values |-> 0,
                                        inner |-> {}, id |-> top + i]
    BY InsertedOf
  <2> HIDE DEF more, implied, b, top
  <2>2. b \in Nat
    BY <2>1
  <2>3. ASSUME NEW i \in 1 .. b PROVE more[i].id = top + i /\ more[i].inner = {}
    <3>1. more[i] = [kind |-> implied[i], values |-> 0, inner |-> {}, id |-> top + i]
      BY <2>1
    <3> QED BY <3>1
  <2> QED BY <2>2, <2>3
<1>4. /\ DOMAIN all = 1 .. a + b
      /\ \A i \in 1 .. a + b : all[i] = IF i <= a THEN items[i] ELSE more[i - a]
  <2> DEFINE S == AnyItem \cup [kind : PhaseKinds, values : {0}, inner : {{}},
                                id : {MaxId(doc) + i : i \in Nat}]
  <2>1. items \in Seq(S)
    BY <1>1
  <2>2. more \in Seq(S)
    <3> DEFINE R == [kind : PhaseKinds, values : {0}, inner : {{}},
                     id : {MaxId(doc) + i : i \in Nat}]
    <3>1. more \in Seq(R) /\ R \subseteq S
      BY InsertedOf
    <3> HIDE DEF R, S, more
    <3> QED BY <3>1
  <2>3. all = items \o more
    BY DEF All
  <2> HIDE DEF S, items, more, all
  <2>4. /\ items \o more \in Seq(S) /\ Len(items \o more) = Len(items) + Len(more)
        /\ \A i \in 1 .. Len(items) + Len(more) :
             (items \o more)[i] = IF i <= Len(items) THEN items[i] ELSE more[i - Len(items)]
    BY <2>1, <2>2, ConcatProperties
  <2> QED BY <2>3, <2>4
<1>5. /\ DOMAIN d.items = Kept(all) /\ Kept(all) \subseteq DOMAIN all
      /\ \A i \in Kept(all) : d.items[i] = all[i]
      /\ d.env = doc.env /\ d.id = doc.id
  <2>1. Kept(all) \subseteq DOMAIN all
    BY DEF Kept
  <2> QED BY <2>1, RunOf
<1> HIDE DEF items, more, all, top, a, b
<1>6. ASSUME NEW i \in DOMAIN d.items
      PROVE  \/ i \in DOMAIN items /\ d.items[i] = items[i]
             \/ /\ i \notin DOMAIN items /\ i \in Nat /\ i >= a + 1 /\ i <= a + b
                /\ d.items[i].id = top + (i - a) /\ d.items[i].inner = {}
  <2>1. i \in 1 .. a + b /\ d.items[i] = all[i] /\ i \in Nat
    BY <1>1, <1>3, <1>4, <1>5
  <2>2. CASE i <= a
    <3>1. i \in 1 .. a /\ all[i] = items[i]
      BY <1>1, <1>4, <2>1, <2>2
    <3> QED BY <1>1, <2>1, <3>1
  <2>3. CASE ~ (i <= a)
    <3>1. i - a \in 1 .. b /\ all[i] = more[i - a] /\ i \notin 1 .. a /\ i >= a + 1 /\ i <= a + b
      BY <1>1, <1>3, <1>4, <2>1, <2>3
    <3> QED BY <1>1, <1>3, <2>1, <3>1
  <2> QED BY <2>2, <2>3
<1>7. /\ \A k, l \in DOMAIN d.env : k # l => d.env[k].id # d.env[l].id
      /\ EnvIds(doc) \cap ItemIds(items) = {} /\ d.id \notin EnvIds(doc)
      /\ d.id \notin ItemIds(items)
      /\ \A i \in DOMAIN items : items[i].id \notin items[i].inner
      /\ \A i, j \in DOMAIN items : i # j => Bearing(items[i]) \cap Bearing(items[j]) = {}
  BY <1>5 DEF Separate, items
<1>8. EnvIds(d) = EnvIds(doc)
  BY <1>5 DEF EnvIds
<1>9. /\ ItemIds(items) \subseteq Ids(doc) /\ EnvIds(doc) \subseteq Ids(doc)
      /\ d.id \in Ids(doc) /\ \A i \in DOMAIN items : Bearing(items[i]) \subseteq ItemIds(items)
  BY <1>5 DEF Ids, items, ItemIds, Bearing
\* An item that is kept bears ids of the list's, or one that is new.
<1> DEFINE New(i) == i \notin DOMAIN items
<1>10. ASSUME NEW i \in DOMAIN d.items, ~New(i)
       PROVE  d.items[i] = items[i] /\ Bearing(d.items[i]) \subseteq ItemIds(items)
  BY <1>6, <1>9, <1>10
<1>11. ASSUME NEW i \in DOMAIN d.items, New(i)
       PROVE  /\ i \in Nat /\ i >= a + 1 /\ i <= a + b /\ d.items[i].inner = {}
              /\ Bearing(d.items[i]) = {top + (i - a)}
              /\ top + (i - a) \notin Ids(doc) /\ top + (i - a) \in 0 .. top + b
  <2>1. i \in Nat /\ i >= a + 1 /\ i <= a + b
        /\ d.items[i].id = top + (i - a) /\ d.items[i].inner = {}
    BY <1>6, <1>11
  <2>2. i - a \in Nat /\ i - a >= 1 /\ i - a <= b
    BY <1>1, <1>3, <2>1
  <2>3. top + (i - a) > top /\ top + (i - a) \in 0 .. top + b
    BY <1>2, <1>3, <2>2
  <2>4. top + (i - a) \notin Ids(doc)
    <3> DEFINE id == top + (i - a)
    <3>1. id \in Nat /\ id > top /\ top \in Nat
      BY <1>2, <2>2
    <3> HIDE DEF id
    <3>2. id \notin Ids(doc)
      BY <1>2, <3>1
    <3> QED BY <3>2 DEF id
  <2>5. Bearing(d.items[i]) = {top + (i - a)}
    BY <2>1 DEF Bearing
  <2> QED BY <2>1, <2>3, <2>4, <2>5
<1> HIDE DEF New
<1>12. ASSUME NEW i \in DOMAIN d.items
       PROVE  d.items[i].id \notin d.items[i].inner
  <2>1. CASE New(i)
    BY <1>11, <2>1
  <2>2. CASE ~New(i)
    BY <1>7, <1>10, <2>2 DEF New
  <2> QED BY <2>1, <2>2
<1>13. ASSUME NEW i \in DOMAIN d.items, NEW j \in DOMAIN d.items, i # j
       PROVE  Bearing(d.items[i]) \cap Bearing(d.items[j]) = {}
  <2>1. CASE New(i) /\ New(j)
    <3>1. top + (i - a) # top + (j - a)
      <4>1. i \in Nat /\ j \in Nat
        BY <1>11, <2>1
      <4> QED BY <1>1, <1>2, <1>13, <4>1
    <3> QED BY <1>11, <2>1, <3>1
  <2>2. CASE New(i) /\ ~New(j)
    BY <1>9, <1>10, <1>11, <2>2
  <2>3. CASE ~New(i) /\ New(j)
    BY <1>9, <1>10, <1>11, <2>3
  <2>4. CASE ~New(i) /\ ~New(j)
    <3>1. d.items[i] = items[i] /\ d.items[j] = items[j] /\ i \in DOMAIN items /\ j \in DOMAIN items
      BY <1>10, <2>4 DEF New
    <3> QED BY <1>7, <1>13, <3>1
  <2> QED BY <2>1, <2>2, <2>3, <2>4
<1>14. ASSUME NEW id \in ItemIds(d.items)
       PROVE  id \in ItemIds(items) \/ (id \notin Ids(doc) /\ id \in 0 .. top + b)
  <2>1. PICK i \in DOMAIN d.items : id \in Bearing(d.items[i])
    BY DEF ItemIds, Bearing
  <2>2. CASE New(i)
    BY <1>11, <2>1, <2>2
  <2>3. CASE ~New(i)
    BY <1>10, <2>1, <2>3
  <2> QED BY <2>2, <2>3
<1>15. EnvIds(d) \cap ItemIds(d.items) = {}
  BY <1>7, <1>8, <1>9, <1>14
<1>16. d.id \notin EnvIds(d) \cup ItemIds(d.items)
  BY <1>7, <1>8, <1>9, <1>14
<1>17. Separate(d)
  BY <1>7, <1>12, <1>13, <1>15, <1>16 DEF Separate
<1>18. Ids(d) \subseteq 0 .. top + b /\ top + b \in Nat
  <2>1. top + b \in Nat
    BY <1>2, <1>3
  <2>2. \A id \in Ids(doc) : id \in 0 .. top + b
    BY <1>2, <1>3
  <2>3. \A id \in Ids(d) : id \in Ids(doc) \/ id \in 0 .. top + b
    BY <1>8, <1>9, <1>14 DEF Ids
  <2> QED BY <2>1, <2>2, <2>3
<1> QED BY <1>17, <1>18

LEMMA RunIdsInjective ==
  ASSUME NEW doc \in AnyDoc, Separate(doc), NEW n \in Nat, Ids(doc) \subseteq 0 .. n,
         NEW d, d = Normalize(doc),
         NEW a \in Nodes(d) \cup StepNodes(d), NEW b \in Nodes(d) \cup StepNodes(d),
         a.id = b.id
  PROVE  a = b
<1>1. PICK m \in Nat : Separate(d) /\ Ids(d) \subseteq 0 .. m
  BY NormalSeparate
<1>2. MaxId(d) \in Nat /\ \A id \in Ids(d) : id \in Nat /\ id <= MaxId(d)
  BY <1>1, MaxIdOf
<1>3. \A i \in DOMAIN d.items : i \in Nat /\ i >= 1
  <2>1. DOMAIN d.items \subseteq DOMAIN All(doc)
    BY RunOf DEF Kept
  <2>2. DOMAIN All(doc) = 1 .. Len(Marks(doc.items)) + Len(Implied(Kinds(doc.items)))
    BY KindsOfAll
  <2> QED BY <2>1, <2>2
<1> DEFINE top == MaxId(d)
           Steps(x, i) == i \in DOMAIN d.items /\ x = Node("step", i, top + i)
<1>4. ASSUME NEW x \in StepNodes(d) PROVE \E i : Steps(x, i)
  BY DEF StepNodes, StepIds
<1>5. ASSUME NEW x, NEW i, Steps(x, i) PROVE x.id = top + i /\ x.id > top
  <2>1. x.id = top + i /\ i \in Nat /\ i >= 1 /\ top \in Nat
    BY <1>2, <1>3, <1>5 DEF Node
  <2> HIDE DEF top
  <2> QED BY <2>1
<1>6. ASSUME NEW x \in Nodes(d) PROVE x.id <= top /\ x.id \in Nat
  BY <1>2, NodeIdsAre
<1>7. CASE a \in Nodes(d) /\ b \in Nodes(d)
  BY <1>1, <1>7, NodesSeparate
<1>8. CASE a \in StepNodes(d) /\ b \in StepNodes(d)
  <2>1. PICK i : Steps(a, i)
    BY <1>4, <1>8
  <2>2. PICK j : Steps(b, j)
    BY <1>4, <1>8
  <2>3. top + i = top + j /\ i \in Nat /\ j \in Nat /\ top \in Nat
    BY <1>2, <1>3, <1>5, <2>1, <2>2
  <2>4. i = j
    <3> HIDE DEF top
    <3> QED BY <2>3
  <2> QED BY <2>1, <2>2, <2>4
<1>9. CASE a \in Nodes(d) /\ b \in StepNodes(d)
  <2>1. PICK j : Steps(b, j)
    BY <1>4, <1>9
  <2>2. a.id <= top /\ a.id \in Nat /\ b.id > top /\ top \in Nat
    BY <1>2, <1>5, <1>6, <1>9, <2>1
  <2> HIDE DEF top
  <2> QED BY <2>2
<1>10. CASE a \in StepNodes(d) /\ b \in Nodes(d)
  <2>1. PICK j : Steps(a, j)
    BY <1>4, <1>10
  <2>2. b.id <= top /\ b.id \in Nat /\ a.id > top /\ top \in Nat
    BY <1>2, <1>5, <1>6, <1>10, <2>1
  <2> HIDE DEF top
  <2> QED BY <2>2
<1> QED BY <1>7, <1>8, <1>9, <1>10

-----------------------------------------------------------------------------
(* One process                                                              *)

Commands ==
  [does : {"validate", "apply"}, root : Roots,
   at : {"walk", "load", "ran", "stopped"}, next : Nat]

\* What was not refused: the next import has a pin, or needs none.
Loadable(top) ==
  /\ top.todo # <<>> /\ IsImport(top.todo[1])
  /\ top.todo[1].pin \in Hashes \cup {NoPin}
  /\ Target(top.todo[1].src, top.loc).remote => top.todo[1].pin # NoPin

\* A process is idle or has its profile open; one that is past the resolve has
\* it expanded, to one of what the profile is known to come to.
Good(w, st, ends) ==
  \/ w = Idle /\ st = <<>>
  \/ /\ w \in Commands
     /\ Sound(st, w.next)
     /\ st[1].loc = [remote |-> FALSE, name |-> w.root]
     /\ w.at = "load" => Loadable(st[Len(st)])
     /\ w.at \in {"ran", "stopped"} =>
          Len(st) = 1 /\ st[1].todo = <<>> /\ Hash(st[1].doc) \in ends[w.root]
     /\ w.at = "stopped" => ~RunsThrough(st[1].doc)

Moved(w, at, next) == [w EXCEPT !.at = at, !.next = next]

LEMMA IdleIs == Idle.does = "idle" /\ Idle \notin Commands
<1>1. Idle.does = "idle"
  BY DEF Idle
<1>2. \A w \in Commands : w.does # "idle"
  BY DEF Commands
<1> QED BY <1>1, <1>2

LEMMA BusyIs ==
  ASSUME NEW w, NEW st, NEW ends, Good(w, st, ends), w.does # "idle"
  PROVE  /\ w \in Commands /\ w.next \in Nat /\ w.root \in Roots
         /\ Sound(st, w.next) /\ st[1].loc = [remote |-> FALSE, name |-> w.root]
         /\ w.at = "load" => Loadable(st[Len(st)])
<1>1. w # Idle
  BY IdleIs
<1>2. w \in Commands
  BY <1>1 DEF Good
<1>3. w.next \in Nat /\ w.root \in Roots
  BY <1>2 DEF Commands
<1> QED BY <1>1, <1>2, <1>3 DEF Good

LEMMA MovedIs ==
  ASSUME NEW w, w \in Commands, NEW at, at \in {"walk", "load", "ran", "stopped"},
         NEW next, next \in Nat
  PROVE  /\ Moved(w, at, next) \in Commands /\ Moved(w, at, next).at = at
         /\ Moved(w, at, next).next = next /\ Moved(w, at, next).root = w.root
<1>1. w = [does |-> w.does, root |-> w.root, at |-> w.at, next |-> w.next]
      /\ w.does \in {"validate", "apply"} /\ w.root \in Roots
  BY DEF Commands
<1> SUFFICES ASSUME NEW v, v = Moved(w, at, next)
             PROVE  v \in Commands /\ v.at = at /\ v.next = next /\ v.root = w.root
  OBVIOUS
<1>2. v.does = w.does /\ v.root = w.root /\ v.at = at /\ v.next = next
  BY <1>1 DEF Moved
<1>3. v = [does |-> v.does, root |-> v.root, at |-> v.at, next |-> v.next]
  BY <1>1 DEF Moved
<1> QED BY <1>1, <1>2, <1>3 DEF Commands

LEMMA GoodGrows ==
  ASSUME NEW w, NEW st, NEW ends, Good(w, st, ends), NEW more,
         \A r \in Roots : ends[r] \subseteq more[r]
  PROVE  Good(w, st, more)
<1>1. w \in Commands => w.root \in Roots
  BY DEF Commands
<1> QED BY <1>1 DEF Good

\* An import's source and pin are what they may be written as.
LEMMA ImportIs ==
  ASSUME NEW st, NEW n, Sound(st, n), NEW top, top = st[Len(st)],
         top.todo # <<>>, IsImport(top.todo[1])
  PROVE  /\ top \in AnyFrame /\ Len(st) \in 1 .. Len(st)
         /\ top.todo[1].pin \in Hashes \cup {NoPin, Malformed}
         /\ Target(top.todo[1].src, top.loc) \in [remote : BOOLEAN, name : STRING]
         /\ Target(top.todo[1].src, top.loc).name = top.todo[1].src.name
<1>1. top \in AnyFrame /\ Len(st) \in 1 .. Len(st)
  BY SoundTop
<1>2. top.todo \in Seq(AnyItem) /\ top.loc \in [remote : BOOLEAN, name : STRING]
  BY <1>1, FrameIs
<1>3. top.todo[1] \in AnyItem
  <2> DEFINE todo == top.todo
  <2>1. todo \in Seq(AnyItem) /\ todo # <<>>
    BY <1>2
  <2> HIDE DEF todo
  <2>2. todo[1] \in AnyItem
    BY <2>1
  <2> QED BY <2>2 DEF todo
<1> DEFINE item == top.todo[1]
<1>4. item \in AnyItem /\ item.kind = "import"
  BY <1>3 DEF IsImport
<1> HIDE DEF item
<1>5. "import" \notin PhaseKinds
  BY DEF PhaseKinds
<1>6. item.src \in [form : STRING, name : STRING]
      /\ item.pin \in Hashes \cup {NoPin, Malformed}
  BY <1>4, <1>5 DEF AnyItem, Items
<1>7. Target(item.src, top.loc) \in [remote : BOOLEAN, name : STRING]
      /\ Target(item.src, top.loc).name = item.src.name
  <2>1. item.src.name \in STRING /\ (item.src.form = "https" \/ top.loc.remote) \in BOOLEAN
    BY <1>6
  <2> QED BY <2>1 DEF Target
<1> QED BY <1>1, <1>6, <1>7 DEF item

LEMMA GoodPass ==
  ASSUME NEW w, NEW st, NEW ends, Good(w, st, ends), w.does # "idle", w.at = "walk",
         st[Len(st)].todo # <<>>, ~IsImport(st[Len(st)].todo[1])
  PROVE  Good(w, Passing(st), ends)
<1>1. w \in Commands /\ Sound(st, w.next) /\ st[1].loc = [remote |-> FALSE, name |-> w.root]
  BY BusyIs
<1> DEFINE new == Passing(st)
           top == st[Len(st)]
<1>2. top = st[Len(st)] /\ top.todo # <<>> /\ ~IsImport(top.todo[1]) /\ new = Passing(st)
  OBVIOUS
<1> HIDE DEF new, top
<1>3. Sound(new, w.next) /\ new[1].loc = st[1].loc
  BY <1>1, <1>2, SoundPass
<1>4. Good(w, new, ends)
  BY <1>1, <1>3 DEF Good
<1> QED BY <1>4 DEF new

LEMMA GoodSplice ==
  ASSUME NEW w, w \in Commands, NEW st, NEW n, Sound(st, n),
         st[1].loc = [remote |-> FALSE, name |-> w.root],
         NEW home, home = st[Len(st)], home.todo # <<>>, IsImport(home.todo[1]),
         NEW g \in AnyDoc, Lands(home.todo[1], g, home.loc),
         Separate(g), NEW m \in Nat, n <= m, Ids(g) \subseteq 0 .. m,
         \A i \in 1 .. Len(st) : Ids(Whole(st[i])) \cap Ids(g) = {},
         NEW ends
  PROVE  Good(Moved(w, "walk", m), Spliced(st, g), ends)
<1> DEFINE v == Moved(w, "walk", m)
           new == Spliced(st, g)
<1>1. v \in Commands /\ v.at = "walk" /\ v.next = m /\ v.root = w.root
  BY MovedIs
<1>2. new = Spliced(st, g)
  OBVIOUS
<1> HIDE DEF v, new
<1>3. Sound(new, m) /\ new[1].loc = st[1].loc
  BY <1>2, SoundSplice
<1>4. Good(v, new, ends)
  BY <1>1, <1>3 DEF Good
<1> QED BY <1>4 DEF v, new

LEMMA GoodMiss ==
  ASSUME NEW w, NEW st, NEW ends, Good(w, st, ends), w.does # "idle",
         Loadable(st[Len(st)]), NEW m \in Nat, w.next <= m
  PROVE  Good(Moved(w, "load", m), st, ends)
<1> DEFINE v == Moved(w, "load", m)
<1>1. w \in Commands /\ Sound(st, w.next) /\ st[1].loc = [remote |-> FALSE, name |-> w.root]
  BY BusyIs
<1>2. v \in Commands /\ v.at = "load" /\ v.next = m /\ v.root = w.root
  BY <1>1, MovedIs
<1> HIDE DEF v
<1>3. Sound(st, m)
  BY <1>1, SoundLater
<1>4. Good(v, st, ends)
  BY <1>1, <1>2, <1>3 DEF Good
<1> QED BY <1>4 DEF v

LEMMA GoodLoad ==
  ASSUME NEW w, NEW st, NEW ends, Good(w, st, ends), w.does # "idle", w.at = "load",
         NEW top, top = st[Len(st)],
         NEW target, target = Target(top.todo[1].src, top.loc),
         NEW found \in AnyDoc,
         ~target.remote => target.name \in DOMAIN Files /\ found = Files[target.name],
         NEW doc, doc = Parse(found, w.next)
  PROVE  Good(Moved(w, "walk", doc.id), Append(st, Frame(target, top.todo[1].pin, doc)), ends)
<1> DEFINE v == Moved(w, "walk", doc.id)
           pin == top.todo[1].pin
           frame == Frame(target, pin, doc)
           new == Append(st, frame)
<1>1. /\ w \in Commands /\ Sound(st, w.next) /\ w.next \in Nat
      /\ st[1].loc = [remote |-> FALSE, name |-> w.root] /\ Loadable(top)
  BY BusyIs
<1>2. /\ top.todo # <<>> /\ IsImport(top.todo[1])
      /\ pin \in Hashes \cup {NoPin} /\ (target.remote => pin # NoPin)
  BY <1>1 DEF Loadable
<1>3. doc \in AnyDoc
  BY <1>1, ParseKeeps
<1>4. target \in [remote : BOOLEAN, name : STRING]
  BY <1>1, <1>2, ImportIs
<1>5. frame = Frame(target, pin, doc)
  OBVIOUS
<1>6. pin = top.todo[1].pin
  OBVIOUS
<1>7. doc.id \in Nat
  BY <1>3, DocOf
<1>8. v \in Commands /\ v.at = "walk" /\ v.next = doc.id /\ v.root = w.root
  BY <1>1, <1>7, MovedIs, SMTT(60)
<1> HIDE DEF v, frame, pin
<1>9. /\ frame \in AnyFrame /\ frame.loc = target /\ frame.pin = pin
      /\ frame.todo = doc.items /\ frame.doc = Opened(doc)
  BY <1>2, <1>3, <1>4, <1>5, FrameOpened, SMTT(60)
<1>10. Imported(frame, top)
  BY <1>2, <1>6, <1>9 DEF Imported
<1>11. ~frame.loc.remote => frame.loc.name \in DOMAIN Files /\ found = Files[frame.loc.name]
  BY <1>9
<1>12. new = Append(st, frame)
  OBVIOUS
<1> HIDE DEF new
<1>13. Sound(new, doc.id) /\ new[1] = st[1]
  <2>1. Opens(frame, top, found, doc, w.next)
    BY <1>9, <1>10, <1>11 DEF Opens
  <2> DEFINE n == w.next
  <2>2. Sound(st, n) /\ Opens(frame, st[Len(st)], found, doc, n)
    BY <1>1, <2>1
  <2> HIDE DEF n
  <2>3. Sound(Append(st, frame), doc.id) /\ Append(st, frame)[1] = st[1]
    BY <2>2, SoundPush
  <2> QED BY <1>12, <2>3
<1>14. Good(v, new, ends)
  BY <1>1, <1>8, <1>13 DEF Good
<1> QED BY <1>14 DEF v, new, frame, pin

LEMMA GoodStart ==
  ASSUME NEW root \in Roots, NEW does \in {"validate", "apply"}, NEW ends,
         NEW doc, doc = Parse(Files[root], 0),
         NEW w, w = [does |-> does, root |-> root, at |-> "walk", next |-> MaxId(doc)]
  PROVE  Good(w, <<Frame([remote |-> FALSE, name |-> root], NoPin, doc)>>, ends)
<1> DEFINE new == <<Frame([remote |-> FALSE, name |-> root], NoPin, doc)>>
<1>1. root \in DOMAIN Files
  BY PipelineAssumption
<1>2. new = <<Frame([remote |-> FALSE, name |-> root], NoPin, doc)>>
  OBVIOUS
<1> HIDE DEF new
<1>3. /\ Sound(new, doc.id) /\ new[1].loc = [remote |-> FALSE, name |-> root]
      /\ MaxId(doc) = doc.id
  BY <1>1, <1>2, SoundStart
<1>4. doc.id \in Nat
  BY <1>3 DEF Sound
<1>5. w \in Commands /\ w.at = "walk" /\ w.next = doc.id /\ w.root = root
  BY <1>3, <1>4 DEF Commands
<1>6. Good(w, new, ends)
  BY <1>3, <1>5 DEF Good
<1> QED BY <1>6 DEF new

\* A profile that is through came to what its file comes to.
LEMMA GoodEnd ==
  ASSUME NEW w, NEW st, NEW ends, Good(w, st, ends), w.does # "idle",
         Len(st) = 1, st[Len(st)].todo = <<>>
  PROVE  /\ <<w.root, Len(Files[w.root].items), Hash(st[1].doc)>> \in Expansions
         /\ st[1].doc \in AnyDoc /\ Hash(st[1].doc) \in Hashes
         /\ Separate(st[1].doc) /\ Ids(st[1].doc) \subseteq 0 .. w.next
<1> DEFINE top == st[1]
<1>1. Sound(st, w.next) /\ top.loc = [remote |-> FALSE, name |-> w.root]
  BY BusyIs
<1>2. /\ top \in AnyFrame /\ Traced(top)
      /\ Separate(Whole(top)) /\ Ids(Whole(top)) \subseteq 0 .. w.next
  BY <1>1, SoundTop
<1>3. top.todo = <<>> /\ ~top.loc.remote /\ top.loc.name = w.root
  BY <1>1
<1> HIDE DEF top
<1>4. <<top.loc.name, Len(Files[top.loc.name].items), Hash(top.doc)>> \in Expansions
  BY <1>2, <1>3, ThroughIsExpanded
<1>5. top.doc \in AnyDoc
  BY <1>2, FrameIs
<1>6. Hash(top.doc) \in Hashes
  BY <1>5, HashTyped
<1>7. Ids(Whole(top)) = Ids(top.doc) /\ (Separate(Whole(top)) <=> Separate(top.doc))
  BY <1>2, <1>3, WholeDone
<1> QED BY <1>2, <1>3, <1>4, <1>5, <1>6, <1>7 DEF top

LEMMA GoodThrough ==
  ASSUME NEW w, NEW st, NEW ends, Good(w, st, ends), w.does # "idle",
         Len(st) = 1, st[Len(st)].todo = <<>>, Hash(st[1].doc) \in ends[w.root],
         NEW at, at = IF RunsThrough(st[1].doc) THEN "ran" ELSE "stopped",
         NEW v, v = [w EXCEPT !.at = at]
  PROVE  Good(v, st, ends)
<1>1. w \in Commands /\ Sound(st, w.next) /\ st[1].loc = [remote |-> FALSE, name |-> w.root]
  BY BusyIs
<1>2. w = [does |-> w.does, root |-> w.root, at |-> w.at, next |-> w.next]
      /\ w.does \in {"validate", "apply"} /\ w.root \in Roots /\ w.next \in Nat
  BY <1>1 DEF Commands
<1>3. v = [does |-> v.does, root |-> v.root, at |-> v.at, next |-> v.next]
      /\ v.does = w.does /\ v.root = w.root /\ v.at = at /\ v.next = w.next
  BY <1>2
<1>4. at \in {"ran", "stopped"} /\ (at = "stopped" => ~RunsThrough(st[1].doc))
  OBVIOUS
<1>5. v \in Commands
  BY <1>2, <1>3, <1>4 DEF Commands
<1>6. st[1].todo = <<>>
  OBVIOUS
<1>7. v.at # "load" /\ v.at = at
  BY <1>3, <1>4
<1> QED BY <1>1, <1>3, <1>4, <1>5, <1>6, <1>7 DEF Good

-----------------------------------------------------------------------------
(* The invariant                                                            *)

HeldTyped ==
  /\ \A u \in DOMAIN site : site[u] \in AnyDoc \cup {Nothing}
  /\ \A pin \in DOMAIN cache : cache[pin] \in AnyDoc \cup {Nothing}

WorkTyped ==
  /\ work \in [Processes -> Commands \cup {Idle}]
  /\ stack = [p \in Processes |-> stack[p]]

SettledIsExpanded ==
  /\ settled = [r \in Roots |-> settled[r]]
  /\ \A r \in Roots : \A h \in settled[r] :
       h \in Hashes /\ <<r, Len(Files[r].items), h>> \in Expansions

AdmittedRan ==
  \A r \in admitted :
    r \in Roots /\ \E d \in AnyDoc : Hash(d) \in settled[r] /\ RunsThrough(d)

AllGood == \A p \in Processes : Good(work[p], stack[p], settled)

PipelineIInv ==
  HeldTyped /\ WorkTyped /\ SettledIsExpanded /\ AdmittedRan /\ AllGood

LEMMA InitKeeps == Init => PipelineIInv
<1> SUFFICES ASSUME Init PROVE PipelineIInv
  OBVIOUS
<1>1. \A u \in DOMAIN Served : Served[u] \subseteq AnyDoc
  BY TextsTyped, PipelineAssumption DEF Documents
<1>2. DOMAIN site = DOMAIN Served /\ \A u \in DOMAIN Served : site[u] \in Served[u]
  BY DEF Init
<1>3. \A pin \in DOMAIN cache : cache[pin] = Nothing
  BY DEF Init
<1>4. HeldTyped
  BY <1>1, <1>2, <1>3 DEF HeldTyped
<1>5. WorkTyped /\ AllGood
  BY DEF Init, WorkTyped, AllGood, Good
<1>6. SettledIsExpanded /\ AdmittedRan
  BY DEF Init, SettledIsExpanded, AdmittedRan
<1> QED BY <1>4, <1>5, <1>6 DEF PipelineIInv

\* A process's step: the others stay as good as they were.
LEMMA StepKeeps ==
  ASSUME PipelineIInv, NEW p \in Processes, NEW w, NEW st, Good(w, st, settled'),
         work' = [work EXCEPT ![p] = w], stack' = [stack EXCEPT ![p] = st],
         \A r \in Roots : settled[r] \subseteq settled'[r],
         HeldTyped', SettledIsExpanded', AdmittedRan'
  PROVE  PipelineIInv'
<1>1. work \in [Processes -> Commands \cup {Idle}] /\ stack = [q \in Processes |-> stack[q]]
  BY DEF PipelineIInv, WorkTyped
<1>2. w \in Commands \cup {Idle}
  BY DEF Good
<1>3. /\ work' \in [Processes -> Commands \cup {Idle}]
      /\ work'[p] = w /\ \A q \in Processes : q # p => work'[q] = work[q]
  BY <1>1, <1>2
<1>4. DOMAIN stack = Processes
  BY <1>1
<1>5. /\ stack' = [q \in Processes |-> stack'[q]]
      /\ stack'[p] = st /\ \A q \in Processes : q # p => stack'[q] = stack[q]
  BY <1>4
<1>6. ASSUME NEW q \in Processes PROVE Good(work'[q], stack'[q], settled')
  <2>1. CASE q = p
    BY <1>3, <1>5, <2>1
  <2>2. CASE q # p
    <3>1. Good(work[q], stack[q], settled)
      BY DEF PipelineIInv, AllGood
    <3>2. Good(work[q], stack[q], settled')
      BY <3>1, GoodGrows
    <3>3. work'[q] = work[q] /\ stack'[q] = stack[q]
      BY <1>3, <1>5, <2>2
    <3> QED BY <3>2, <3>3
  <2> QED BY <2>1, <2>2
<1>7. WorkTyped' /\ AllGood'
  BY <1>3, <1>5, <1>6 DEF WorkTyped, AllGood
<1> QED BY <1>7 DEF PipelineIInv

LEMMA AsideKeeps ==
  ASSUME PipelineIInv, NEW p \in Processes, NEW w, NEW st, Good(w, st, settled),
         work' = [work EXCEPT ![p] = w], stack' = [stack EXCEPT ![p] = st],
         UNCHANGED <<site, cache, settled, admitted>>
  PROVE  PipelineIInv'
<1>1. settled' = settled /\ site' = site /\ cache' = cache /\ admitted' = admitted
  OBVIOUS
<1>2. HeldTyped' /\ SettledIsExpanded' /\ AdmittedRan'
  BY <1>1 DEF PipelineIInv, HeldTyped, SettledIsExpanded, AdmittedRan
<1>3. Good(w, st, settled') /\ \A r \in Roots : settled[r] \subseteq settled'[r]
  BY <1>1
<1> QED BY <1>2, <1>3, StepKeeps

LEMMA FailKeeps ==
  ASSUME PipelineIInv, NEW p \in Processes, Fail(p),
         UNCHANGED <<site, cache, settled, admitted>>
  PROVE  PipelineIInv'
<1>1. Good(Idle, <<>>, settled)
  BY DEF Good
<1>2. work' = [work EXCEPT ![p] = Idle] /\ stack' = [stack EXCEPT ![p] = <<>>]
  BY DEF Fail
<1> QED BY <1>1, <1>2, AsideKeeps

\* A process at work is good, and its step leaves the rest of work alone.
LEMMA AtWork ==
  ASSUME PipelineIInv, NEW p \in Processes, NEW at, Busy(p, at)
  PROVE  /\ Good(work[p], stack[p], settled) /\ work[p].does # "idle" /\ work[p].at = at
         /\ work[p] \in Commands /\ Sound(stack[p], work[p].next)
         /\ stack[p][1].loc = [remote |-> FALSE, name |-> work[p].root]
         /\ work = [work EXCEPT ![p] = work[p]]
         /\ stack = [stack EXCEPT ![p] = stack[p]]
<1>1. Good(work[p], stack[p], settled)
  BY DEF PipelineIInv, AllGood
<1>2. work[p].does # "idle" /\ work[p].at = at
  BY DEF Busy
<1>3. work = [q \in Processes |-> work[q]] /\ stack = [q \in Processes |-> stack[q]]
  BY DEF PipelineIInv, WorkTyped
<1>4. work = [work EXCEPT ![p] = work[p]] /\ stack = [stack EXCEPT ![p] = stack[p]]
  BY <1>3
<1>5. /\ work[p] \in Commands /\ Sound(stack[p], work[p].next)
      /\ stack[p][1].loc = [remote |-> FALSE, name |-> work[p].root]
  <2> DEFINE w == work[p]
             st == stack[p]
  <2>1. Good(w, st, settled) /\ w.does # "idle"
    BY <1>1, <1>2
  <2> HIDE DEF w, st
  <2>2. /\ w \in Commands /\ Sound(st, w.next)
        /\ st[1].loc = [remote |-> FALSE, name |-> w.root]
    BY <2>1, BusyIs
  <2> QED BY <2>2 DEF w, st
<1> QED BY <1>1, <1>2, <1>4, <1>5

LEMMA GotoMoves ==
  ASSUME NEW p, NEW at, NEW next, work = [q \in Processes |-> work[q]], p \in Processes,
         Goto(p, at, next)
  PROVE  work' = [work EXCEPT ![p] = Moved(work[p], at, next)]
  BY DEF Goto, Moved

LEMMA PassKeeps ==
  ASSUME PipelineIInv, NEW p \in Processes, Pass(p)
  PROVE  PipelineIInv'
<1>1. Busy(p, "walk") /\ Top(p).todo # <<>> /\ ~IsImport(Top(p).todo[1])
  BY DEF Pass, Ahead
<1>2. /\ Good(work[p], stack[p], settled) /\ work[p].does # "idle" /\ work[p].at = "walk"
      /\ work = [work EXCEPT ![p] = work[p]]
  BY <1>1, AtWork
<1> DEFINE w == work[p]
           st == stack[p]
<1>3. Good(w, st, settled) /\ w.does # "idle" /\ w.at = "walk"
      /\ st[Len(st)].todo # <<>> /\ ~IsImport(st[Len(st)].todo[1])
  BY <1>1, <1>2 DEF Top
<1>4. /\ work' = [work EXCEPT ![p] = w] /\ stack' = [stack EXCEPT ![p] = Passing(st)]
      /\ UNCHANGED <<site, cache, settled, admitted>>
  BY <1>2 DEF Pass
<1> HIDE DEF w, st
<1>5. Good(w, Passing(st), settled)
  BY <1>3, GoodPass
<1> QED BY <1>4, <1>5, AsideKeeps

LEMMA LeaveKeeps ==
  ASSUME PipelineIInv, NEW p \in Processes, Leave(p)
  PROVE  PipelineIInv'
<1>1. Fail(p) /\ UNCHANGED <<site, cache, settled, admitted>>
  BY DEF Leave
<1> QED BY <1>1, FailKeeps

LEMMA StartKeeps ==
  ASSUME PipelineIInv, NEW p \in Processes, NEW root \in Roots,
         NEW does \in {"validate", "apply"}, Start(p, root, does)
  PROVE  PipelineIInv'
<1> DEFINE doc == Parse(Files[root], 0)
           w == [does |-> does, root |-> root, at |-> "walk", next |-> MaxId(doc)]
           st == <<Frame([remote |-> FALSE, name |-> root], NoPin, doc)>>
<1>1. /\ work' = [work EXCEPT ![p] = w] /\ stack' = [stack EXCEPT ![p] = st]
      /\ UNCHANGED <<site, cache, settled, admitted>>
  BY DEF Start
<1>2. Good(w, st, settled)
  BY GoodStart
<1> HIDE DEF w, st
<1> QED BY <1>1, <1>2, AsideKeeps

LEMMA DisturbKeeps ==
  ASSUME PipelineIInv, NEW pin \in DOMAIN cache, Disturb(pin)
  PROVE  PipelineIInv'
<1>1. Entries \subseteq AnyDoc
  BY TextsTyped, PipelineAssumption
<1>2. PICK entry \in Entries \cup {Nothing} : cache' = [cache EXCEPT ![pin] = entry]
  BY DEF Disturb
<1>3. UNCHANGED <<site, work, stack, settled, admitted>>
  BY DEF Disturb
<1>4. \A q \in DOMAIN cache' : cache'[q] \in AnyDoc \cup {Nothing}
  BY <1>1, <1>2 DEF PipelineIInv, HeldTyped
<1> QED BY <1>3, <1>4
  DEF PipelineIInv, HeldTyped, WorkTyped, SettledIsExpanded, AdmittedRan, AllGood

LEMMA RepublishKeeps ==
  ASSUME PipelineIInv, NEW url \in DOMAIN Served, Republish(url)
  PROVE  PipelineIInv'
<1>1. Served[url] \subseteq AnyDoc
  BY TextsTyped, PipelineAssumption DEF Documents
<1>2. PICK doc \in Served[url] \cup {Nothing} : site' = [site EXCEPT ![url] = doc]
  BY DEF Republish
<1>3. UNCHANGED <<cache, work, stack, settled, admitted>>
  BY DEF Republish
<1>4. \A u \in DOMAIN site' : site'[u] \in AnyDoc \cup {Nothing}
  BY <1>1, <1>2 DEF PipelineIInv, HeldTyped
<1> QED BY <1>3, <1>4
  DEF PipelineIInv, HeldTyped, WorkTyped, SettledIsExpanded, AdmittedRan, AllGood

\* An entry that holds, its ids minted above every open document's.
LEMMA GoodHit ==
  ASSUME NEW w, NEW st, NEW ends, Good(w, st, ends), w.does # "idle",
         NEW home, home = st[Len(st)], home.todo # <<>>, IsImport(home.todo[1]),
         NEW entry \in AnyDoc, NEW g, g = Parse(entry, w.next),
         Holds(home.todo[1].pin, g)
  PROVE  Good(Moved(w, "walk", g.id), Spliced(st, g), ends)
<1> DEFINE n == w.next
           m == g.id
<1>1. /\ w \in Commands /\ n \in Nat /\ Sound(st, n)
      /\ st[1].loc = [remote |-> FALSE, name |-> w.root]
  BY BusyIs
<1>2. g = Parse(entry, n)
  OBVIOUS
<1> HIDE DEF n
<1>3. g \in AnyDoc
  BY <1>1, <1>2, ParseKeeps
<1>4. Separate(g) /\ m > n /\ Ids(g) \subseteq n + 1 .. m
  BY <1>1, <1>2, ParseMints
<1>5. m \in Nat
  BY <1>3, DocOf
<1>6. Lands(home.todo[1], g, home.loc)
  <2>1. Hash(g) \in Hashes
    BY <1>3, HashTyped
  <2> QED BY <2>1 DEF Holds, Lands
<1> HIDE DEF m
<1>7. n <= m /\ Ids(g) \subseteq 0 .. m
  <2>1. n + 1 .. m \subseteq 0 .. m /\ n <= m
    BY <1>1, <1>4, <1>5
  <2> QED BY <1>4, <2>1
<1>8. \A i \in 1 .. Len(st) : Ids(Whole(st[i])) \cap Ids(g) = {}
  <2>1. \A i \in 1 .. Len(st) : Ids(Whole(st[i])) \subseteq 0 .. n
    BY <1>1 DEF Sound, Keyed
  <2>2. (0 .. n) \cap (n + 1 .. m) = {}
    BY <1>1, <1>5
  <2> QED BY <1>4, <2>1, <2>2
<1>9. Good(Moved(w, "walk", m), Spliced(st, g), ends)
  BY <1>1, <1>3, <1>4, <1>5, <1>6, <1>7, <1>8, GoodSplice
<1> QED BY <1>9 DEF m

LEMMA LookKeeps ==
  ASSUME PipelineIInv, NEW p \in Processes, Look(p)
  PROVE  PipelineIInv'
<1> DEFINE w == work[p]
           st == stack[p]
           import == Ahead(p)
           target == Target(import.src, Top(p).loc)
           keyed == target.remote /\ import.pin \in DOMAIN cache
           entry == IF keyed THEN cache[import.pin] ELSE Nothing
           parsed == IF entry = Nothing THEN Nothing ELSE Parse(entry, w.next)
           next == IF entry = Nothing THEN w.next ELSE parsed.id
<1>1. Busy(p, "walk") /\ Top(p).todo # <<>> /\ IsImport(import)
  BY DEF Look
<1>2. /\ Good(w, st, settled) /\ w.does # "idle" /\ w \in Commands
      /\ Sound(st, w.next) /\ w.next \in Nat
      /\ stack = [stack EXCEPT ![p] = st] /\ work = [q \in Processes |-> work[q]]
  <2>1. Good(w, st, settled) /\ w.does # "idle" /\ w \in Commands /\ Sound(st, w.next)
        /\ stack = [stack EXCEPT ![p] = st]
    BY <1>1, AtWork
  <2>2. w.next \in Nat
    BY <2>1 DEF Sound
  <2>3. work = [q \in Processes |-> work[q]]
    BY DEF PipelineIInv, WorkTyped
  <2> QED BY <2>1, <2>2, <2>3
<1>3. UNCHANGED <<site, cache, settled, admitted>>
  BY DEF Look
<1>4. Top(p) = st[Len(st)] /\ import = Top(p).todo[1]
  BY DEF Top, Ahead
<1>5. entry \in AnyDoc \cup {Nothing}
  BY DEF PipelineIInv, HeldTyped
<1>6. CASE Refused(st, import) /\ Fail(p)
  BY <1>3, <1>6, FailKeeps
<1>7. ASSUME entry # Nothing, Holds(import.pin, parsed),
             Splice(p, st, parsed), AfterSplice(p, st, parsed, parsed.id)
      PROVE  PipelineIInv'
  <2>1. entry \in AnyDoc /\ parsed = Parse(entry, w.next)
    BY <1>5, <1>7
  <2>2. CASE ~Mergeable(st[Len(st)].doc, parsed)
    <3>1. Fail(p)
      BY <1>7, <2>2 DEF Splice, AfterSplice, Fail
    <3> QED BY <1>3, <3>1, FailKeeps
  <2>3. CASE Mergeable(st[Len(st)].doc, parsed)
    <3>1. stack' = [stack EXCEPT ![p] = Spliced(st, parsed)] /\ Goto(p, "walk", parsed.id)
      BY <1>7, <2>3 DEF Splice, AfterSplice
    <3>2. work' = [work EXCEPT ![p] = Moved(w, "walk", parsed.id)]
      BY <1>2, <3>1, GotoMoves, SMTT(60)
    <3>3. Top(p).todo # <<>> /\ IsImport(Top(p).todo[1]) /\ Holds(Top(p).todo[1].pin, parsed)
      BY <1>1, <1>4, <1>7, ZenonT(60)
    <3> DEFINE home == Top(p)
               v == Moved(w, "walk", parsed.id)
               new == Spliced(st, parsed)
    <3>4. home = st[Len(st)] /\ home.todo # <<>> /\ IsImport(home.todo[1])
          /\ Holds(home.todo[1].pin, parsed)
      BY <1>4, <3>3
    <3> HIDE DEF home, w, st, entry, parsed
    <3>5. Good(v, new, settled)
      BY <1>2, <2>1, <3>4, GoodHit
    <3>6. work' = [work EXCEPT ![p] = v] /\ stack' = [stack EXCEPT ![p] = new]
      BY <3>1, <3>2
    <3> HIDE DEF v, new
    <3> QED BY <1>3, <3>5, <3>6, AsideKeeps
  <2> QED BY <2>2, <2>3
<1>8. ASSUME ~Refused(st, import), Goto(p, "load", next), UNCHANGED stack
      PROVE  PipelineIInv'
  <2>1. next \in Nat /\ w.next <= next
    <3>1. CASE entry = Nothing
      BY <1>2, <3>1
    <3>2. CASE entry # Nothing
      <4>1. entry \in AnyDoc /\ parsed = Parse(entry, w.next) /\ next = parsed.id
        BY <1>5, <3>2
      <4> HIDE DEF entry, parsed, next
      <4>2. parsed \in AnyDoc /\ parsed.id > w.next
        BY <1>2, <4>1, ParseKeeps, ParseMints
      <4>3. parsed.id \in Nat
        BY <4>2, DocOf
      <4> QED BY <1>2, <4>1, <4>2, <4>3
    <3> QED BY <3>1, <3>2
  <2>2. Loadable(st[Len(st)])
    <3> DEFINE top == st[Len(st)]
    <3>1. top = st[Len(st)] /\ top.todo # <<>> /\ IsImport(top.todo[1]) /\ import = top.todo[1]
      BY <1>1, <1>4
    <3>2. /\ import.pin # Malformed
          /\ Target(import.src, top.loc).remote => import.pin # NoPin
      BY <1>8 DEF Refused
    <3> HIDE DEF top, import, st
    <3>3. import.pin \in Hashes \cup {NoPin, Malformed}
      BY <1>2, <3>1, ImportIs
    <3>4. Loadable(top)
      BY <3>1, <3>2, <3>3 DEF Loadable
    <3> QED BY <3>4 DEF top
  <2>3. work' = [work EXCEPT ![p] = Moved(w, "load", next)]
    BY <1>2, <1>8, GotoMoves
  <2> HIDE DEF w, st, next
  <2>4. Good(Moved(w, "load", next), st, settled)
    BY <1>2, <2>1, <2>2, GoodMiss
  <2> DEFINE v == Moved(w, "load", next)
  <2>5. Good(v, st, settled) /\ work' = [work EXCEPT ![p] = v]
        /\ stack' = [stack EXCEPT ![p] = st]
    BY <1>2, <1>8, <2>3, <2>4
  <2> HIDE DEF v
  <2> QED BY <1>3, <2>5, AsideKeeps
<1>9. \/ Refused(st, import) /\ Fail(p)
      \/ /\ entry # Nothing /\ Holds(import.pin, parsed)
         /\ Splice(p, st, parsed) /\ AfterSplice(p, st, parsed, parsed.id)
      \/ ~Refused(st, import) /\ Goto(p, "load", next) /\ UNCHANGED stack
  BY Zenon DEF Look
<1> HIDE DEF st, import, entry, parsed, next
<1> QED BY <1>6, <1>7, <1>8, <1>9

LEMMA LoadKeeps ==
  ASSUME PipelineIInv, NEW p \in Processes, Load(p)
  PROVE  PipelineIInv'
<1> DEFINE w == work[p]
           st == stack[p]
           top == Top(p)
           import == Ahead(p)
           target == Target(import.src, top.loc)
           there == IF target.remote THEN site ELSE Files
           found == IF target.name \in DOMAIN there THEN there[target.name] ELSE Nothing
           doc == Parse(found, w.next)
<1>1. Busy(p, "load") /\ UNCHANGED <<site, cache, settled, admitted>>
  BY DEF Load
<1>2. /\ Good(w, st, settled) /\ w.does # "idle" /\ w.at = "load"
      /\ work = [q \in Processes |-> work[q]]
  <2>1. Good(w, st, settled) /\ w.does # "idle" /\ w.at = "load"
    BY <1>1, AtWork
  <2>2. work = [q \in Processes |-> work[q]]
    BY DEF PipelineIInv, WorkTyped
  <2> QED BY <2>1, <2>2
<1>3. top = st[Len(st)] /\ import = top.todo[1]
  BY DEF Top, Ahead
<1>4. CASE found.kind # "fragment"
  <2>1. Fail(p)
    BY <1>4 DEF Load
  <2> QED BY <1>1, <2>1, FailKeeps
<1>5. CASE found.kind = "fragment"
  <2>1. /\ stack' = [stack EXCEPT ![p] = Append(@, Frame(target, import.pin, doc))]
        /\ Goto(p, "walk", doc.id)
    BY <1>5 DEF Load
  <2>2. found \in AnyDoc
    <3>1. found # Nothing
      BY <1>5 DEF Nothing
    <3>2. found = there[target.name] /\ target.name \in DOMAIN there
      BY <3>1
    <3>3. CASE target.remote
      BY <3>1, <3>2, <3>3 DEF PipelineIInv, HeldTyped
    <3>4. CASE ~target.remote
      BY <3>2, <3>4, FilesTyped
    <3> QED BY <3>3, <3>4
  <2>3. ~target.remote => target.name \in DOMAIN Files /\ found = Files[target.name]
    <3>1. found # Nothing
      BY <1>5 DEF Nothing
    <3> QED BY <3>1
  <2>4. target = Target(top.todo[1].src, top.loc) /\ doc = Parse(found, w.next)
    BY <1>3, SMTT(60)
  <2>5. work' = [work EXCEPT ![p] = Moved(w, "walk", doc.id)]
    BY <1>2, <2>1, GotoMoves, SMTT(60)
  <2> DEFINE v == Moved(w, "walk", doc.id)
             new == Append(st, Frame(target, top.todo[1].pin, doc))
  <2>6. work' = [work EXCEPT ![p] = v] /\ stack' = [stack EXCEPT ![p] = new]
    BY <1>3, <2>1, <2>5
  <2> HIDE DEF w, st, top, target, found, doc
  <2>7. Good(v, new, settled)
    BY <1>2, <1>3, <2>2, <2>3, <2>4, GoodLoad
  <2> HIDE DEF v, new
  <2> QED BY <1>1, <2>6, <2>7, AsideKeeps
<1> QED BY <1>4, <1>5

LEMMA GoodClose ==
  ASSUME NEW w, w \in Commands, NEW st, NEW n, Sound(st, n), Len(st) > 1,
         st[1].loc = [remote |-> FALSE, name |-> w.root],
         NEW frame, frame = st[Len(st)], frame.todo = <<>>,
         frame.pin = NoPin \/ Hash(frame.doc) = frame.pin,
         NEW below, below = SubSeq(st, 1, Len(st) - 1), NEW ends
  PROVE  /\ frame.doc \in AnyDoc
         /\ Good(Moved(w, "walk", n), Spliced(below, frame.doc), ends)
<1> DEFINE home == below[Len(below)]
           g == frame.doc
<1>1. home = below[Len(below)] /\ g = frame.doc
  OBVIOUS
<1> HIDE DEF home, g
<1>2. /\ Sound(below, n) /\ below[1] = st[1]
      /\ home.todo # <<>> /\ IsImport(home.todo[1])
      /\ frame.doc \in AnyDoc /\ Lands(home.todo[1], frame.doc, home.loc)
      /\ Separate(frame.doc) /\ Ids(frame.doc) \subseteq 0 .. n
      /\ \A i \in 1 .. Len(below) : Ids(Whole(below[i])) \cap Ids(frame.doc) = {}
  <2>1. Closes(st, n, frame, below, home)
    BY <1>1 DEF Closes
  <2> QED BY <2>1, SoundPop, ZenonT(60)
<1>3. /\ g \in AnyDoc /\ Lands(home.todo[1], g, home.loc) /\ Separate(g)
      /\ Ids(g) \subseteq 0 .. n
      /\ \A i \in 1 .. Len(below) : Ids(Whole(below[i])) \cap Ids(g) = {}
  BY <1>1, <1>2
<1>4. n \in Nat /\ n <= n
  BY DEF Sound
<1>5. below[1].loc = [remote |-> FALSE, name |-> w.root]
  BY <1>2
<1>6. Good(Moved(w, "walk", n), Spliced(below, g), ends)
  BY <1>1, <1>2, <1>3, <1>4, <1>5, GoodSplice
<1> QED BY <1>1, <1>2, <1>6

LEMMA CloseKeeps ==
  ASSUME PipelineIInv, NEW p \in Processes, Close(p)
  PROVE  PipelineIInv'
<1> DEFINE w == work[p]
           st == stack[p]
           n == w.next
           frame == Top(p)
           g == frame.doc
           below == Rest(p)
           home == below[Len(below)]
<1>1. /\ Busy(p, "walk") /\ Len(st) > 1 /\ frame.todo = <<>>
      /\ UNCHANGED <<site, settled, admitted>>
  BY DEF Close
<1>2. /\ w \in Commands /\ Sound(st, n) /\ n \in Nat
      /\ st[1].loc = [remote |-> FALSE, name |-> w.root]
      /\ work = [q \in Processes |-> work[q]]
  <2>1. w \in Commands /\ Sound(st, n) /\ st[1].loc = [remote |-> FALSE, name |-> w.root]
    BY <1>1, AtWork
  <2>2. n \in Nat
    BY <2>1 DEF Sound
  <2>3. work = [q \in Processes |-> work[q]]
    BY DEF PipelineIInv, WorkTyped
  <2> QED BY <2>1, <2>2, <2>3
<1>3. frame = st[Len(st)] /\ below = SubSeq(st, 1, Len(st) - 1)
  BY DEF Top, Rest
<1>4. SettledIsExpanded' /\ AdmittedRan'
  BY <1>1 DEF PipelineIInv, SettledIsExpanded, AdmittedRan
<1>5. \A r \in Roots : settled[r] \subseteq settled'[r]
  BY <1>1
<1>6. ASSUME HeldTyped', Fail(p)
      PROVE  PipelineIInv'
  <2>1. Good(Idle, <<>>, settled')
    BY DEF Good
  <2>2. work' = [work EXCEPT ![p] = Idle] /\ stack' = [stack EXCEPT ![p] = <<>>]
    BY <1>6 DEF Fail
  <2> QED BY <1>4, <1>5, <1>6, <2>1, <2>2, StepKeeps
<1>7. CASE Fail(p) /\ UNCHANGED cache
  <2>1. HeldTyped'
    BY <1>1, <1>7 DEF PipelineIInv, HeldTyped
  <2> QED BY <1>6, <1>7, <2>1
<1>8. ASSUME frame.pin = NoPin \/ Hash(frame.doc) = frame.pin,
             \/ cache' = [cache EXCEPT ![frame.pin] = Parse(g, 0)]
             \/ UNCHANGED cache,
             Splice(p, below, g), AfterSplice(p, below, g, n)
      PROVE  PipelineIInv'
  <2>1. g \in AnyDoc /\ Good(Moved(w, "walk", n), Spliced(below, g), settled')
    <3>1. /\ w \in Commands /\ Sound(st, n) /\ Len(st) > 1
          /\ st[1].loc = [remote |-> FALSE, name |-> w.root]
          /\ frame = st[Len(st)] /\ frame.todo = <<>>
          /\ frame.pin = NoPin \/ Hash(frame.doc) = frame.pin
          /\ below = SubSeq(st, 1, Len(st) - 1)
      BY <1>1, <1>2, <1>3, <1>8
    <3> HIDE DEF w, st, n, frame, below
    <3>2. frame.doc \in AnyDoc /\ Good(Moved(w, "walk", n), Spliced(below, frame.doc), settled')
      BY <3>1, GoodClose
    <3> QED BY <3>2
  <2>2. HeldTyped'
    <3>1. Parse(g, 0) \in AnyDoc
      BY <2>1, ParseKeeps
    <3>2. \A pin \in DOMAIN cache' : cache'[pin] \in AnyDoc \cup {Nothing}
      <4> DEFINE bytes == Parse(g, 0)
                 key == frame.pin
      <4>1. bytes \in AnyDoc /\ (cache' = [cache EXCEPT ![key] = bytes] \/ cache' = cache)
        BY <1>8, <3>1
      <4> HIDE DEF bytes, key
      <4> QED BY <4>1 DEF PipelineIInv, HeldTyped
    <3> QED BY <1>1, <3>2 DEF PipelineIInv, HeldTyped
  <2>3. CASE ~Mergeable(home.doc, g)
    <3>1. Fail(p)
      BY <1>8, <2>3 DEF Splice, AfterSplice, Fail
    <3> QED BY <1>6, <2>2, <3>1
  <2>4. CASE Mergeable(home.doc, g)
    <3>1. stack' = [stack EXCEPT ![p] = Spliced(below, g)] /\ Goto(p, "walk", n)
      BY <1>8, <2>4 DEF Splice, AfterSplice
    <3>2. work' = [work EXCEPT ![p] = Moved(w, "walk", n)]
      BY <1>2, <3>1, GotoMoves
    <3> DEFINE v == Moved(w, "walk", n)
               new == Spliced(below, g)
    <3>3. work' = [work EXCEPT ![p] = v] /\ stack' = [stack EXCEPT ![p] = new]
      BY <3>1, <3>2
    <3>4. Good(v, new, settled')
      BY <2>1
    <3> HIDE DEF v, new
    <3> QED BY <1>4, <1>5, <2>2, <3>3, <3>4, StepKeeps
  <2> QED BY <2>3, <2>4
<1>9. \/ Fail(p) /\ UNCHANGED cache
      \/ /\ frame.pin = NoPin \/ Hash(frame.doc) = frame.pin
         /\ \/ cache' = [cache EXCEPT ![frame.pin] = Parse(g, 0)]
            \/ UNCHANGED cache
         /\ Splice(p, below, g) /\ AfterSplice(p, below, g, n)
  BY Zenon DEF Close
<1> HIDE DEF frame, g, below, n
<1> QED BY <1>7, <1>8, <1>9

LEMMA FinishKeeps ==
  ASSUME PipelineIInv, NEW p \in Processes, Finish(p)
  PROVE  PipelineIInv'
<1> DEFINE w == work[p]
           st == stack[p]
           doc == Top(p).doc
           root == w.root
           h == Hash(doc)
<1>1. /\ Busy(p, "walk") /\ Len(st) = 1 /\ Top(p).todo = <<>>
      /\ UNCHANGED <<site, cache>>
      /\ settled' = [settled EXCEPT ![root] = @ \cup {h}]
  BY DEF Finish
<1>2. /\ Good(w, st, settled) /\ w.does # "idle" /\ w \in Commands
      /\ work = [q \in Processes |-> work[q]] /\ stack = [stack EXCEPT ![p] = st]
  <2>1. Good(w, st, settled) /\ w.does # "idle" /\ w \in Commands
        /\ stack = [stack EXCEPT ![p] = st]
    BY <1>1, AtWork
  <2>2. work = [q \in Processes |-> work[q]]
    BY DEF PipelineIInv, WorkTyped
  <2> QED BY <2>1, <2>2
<1>3. Top(p) = st[Len(st)] /\ doc = st[1].doc /\ st[Len(st)].todo = <<>>
  BY <1>1 DEF Top
<1>4. <<root, Len(Files[root].items), h>> \in Expansions /\ doc \in AnyDoc /\ h \in Hashes
  <2>1. doc = st[1].doc /\ Len(st) = 1 /\ st[Len(st)].todo = <<>> /\ root = w.root
    BY <1>1, <1>3
  <2> HIDE DEF w, st, doc, root
  <2>2. /\ <<w.root, Len(Files[w.root].items), Hash(st[1].doc)>> \in Expansions
        /\ st[1].doc \in AnyDoc /\ Hash(st[1].doc) \in Hashes
    BY <1>2, <2>1, GoodEnd
  <2> QED BY <2>1, <2>2
<1>5. root \in Roots
  BY <1>2 DEF Commands
<1>6. settled = [r \in Roots |-> settled[r]]
  BY DEF PipelineIInv, SettledIsExpanded
<1>7. /\ settled' = [r \in Roots |-> settled'[r]]
      /\ settled'[root] = settled[root] \cup {h}
      /\ \A r \in Roots : r # root => settled'[r] = settled[r]
  <2> HIDE DEF h, root
  <2> QED BY <1>1, <1>5, <1>6
<1>8. \A r \in Roots : settled[r] \subseteq settled'[r]
  <2> HIDE DEF h, root
  <2> QED BY <1>7
<1>9. SettledIsExpanded'
  <2> HIDE DEF h, root
  <2>1. ASSUME NEW r \in Roots, NEW x \in settled'[r]
        PROVE  x \in Hashes /\ <<r, Len(Files[r].items), x>> \in Expansions
    <3>1. x \in settled[r] \/ (r = root /\ x = h)
      BY <1>7
    <3> QED BY <1>4, <3>1 DEF PipelineIInv, SettledIsExpanded
  <2> QED BY <1>7, <2>1 DEF SettledIsExpanded
<1>10. HeldTyped'
  BY <1>1 DEF PipelineIInv, HeldTyped
<1>11. \A r \in admitted :
         r \in Roots /\ \E d \in AnyDoc : Hash(d) \in settled'[r] /\ RunsThrough(d)
  <2> HIDE DEF h, root
  <2> QED BY <1>8 DEF PipelineIInv, AdmittedRan
<1>12. CASE w.does = "validate"
  <2>1. /\ admitted' = IF Admits(doc) THEN admitted \cup {root} ELSE admitted
        /\ Fail(p)
    BY <1>12 DEF Finish
  <2>2. AdmittedRan'
    <3>1. Admits(doc) => RunsThrough(doc)
      BY <1>4, AdmittedIsWhatRuns
    <3>2. doc \in AnyDoc /\ Hash(doc) \in settled'[root]
      BY <1>4, <1>7
    <3> HIDE DEF h, root, doc
    <3> QED BY <1>5, <1>11, <2>1, <3>1, <3>2 DEF AdmittedRan
  <2>3. Good(Idle, <<>>, settled')
    BY DEF Good
  <2>4. work' = [work EXCEPT ![p] = Idle] /\ stack' = [stack EXCEPT ![p] = <<>>]
    BY <2>1 DEF Fail
  <2> QED BY <1>8, <1>9, <1>10, <2>2, <2>3, <2>4, StepKeeps
<1>13. CASE w.does # "validate"
  <2> DEFINE at == IF RunsThrough(doc) THEN "ran" ELSE "stopped"
             v == [w EXCEPT !.at = at]
  <2>1. work' = [work EXCEPT ![p].at = at] /\ UNCHANGED <<stack, admitted>>
    BY <1>13 DEF Finish
  <2>2. AdmittedRan'
    BY <1>11, <2>1 DEF AdmittedRan
  <2>3. work' = [work EXCEPT ![p] = v] /\ stack' = [stack EXCEPT ![p] = st]
    <3> HIDE DEF at
    <3> QED BY <1>2, <2>1
  <2>4. Good(v, st, settled')
    <3>1. Hash(st[1].doc) \in settled'[w.root]
      BY <1>3, <1>7
    <3>2. at = IF RunsThrough(st[1].doc) THEN "ran" ELSE "stopped"
      BY <1>3
    <3>3. v = [w EXCEPT !.at = at]
      OBVIOUS
    <3> HIDE DEF w, st, at, v, h, root, doc
    <3>4. Good(w, st, settled')
      BY <1>2, <1>8, GoodGrows
    <3> QED BY <1>1, <1>2, <1>3, <3>1, <3>2, <3>3, <3>4, GoodThrough
  <2> HIDE DEF v, st
  <2> QED BY <1>8, <1>9, <1>10, <2>2, <2>3, <2>4, StepKeeps
<1> QED BY <1>12, <1>13

LEMMA NextKeeps == PipelineIInv /\ [Next]_vars => PipelineIInv'
<1> SUFFICES ASSUME PipelineIInv, [Next]_vars PROVE PipelineIInv'
  OBVIOUS
<1>1. ASSUME NEW p \in Processes, Step(p) PROVE PipelineIInv'
  <2>1. CASE Pass(p)
    BY <2>1, PassKeeps
  <2>2. CASE Look(p)
    BY <2>2, LookKeeps
  <2>3. CASE Load(p)
    BY <2>3, LoadKeeps
  <2>4. CASE Close(p)
    BY <2>4, CloseKeeps
  <2>5. CASE Finish(p)
    BY <2>5, FinishKeeps
  <2>6. CASE Leave(p)
    BY <2>6, LeaveKeeps
  <2> QED BY <1>1, <2>1, <2>2, <2>3, <2>4, <2>5, <2>6 DEF Step
<1>2. ASSUME NEW p \in Processes, NEW r \in Roots, NEW does \in {"validate", "apply"},
             Start(p, r, does)
      PROVE  PipelineIInv'
  BY <1>2, StartKeeps
<1>3. ASSUME NEW url \in DOMAIN Served, Republish(url) PROVE PipelineIInv'
  BY <1>3, RepublishKeeps
<1>4. ASSUME NEW pin \in DOMAIN cache, Disturb(pin) PROVE PipelineIInv'
  BY <1>4, DisturbKeeps
<1>5. CASE UNCHANGED vars
  BY <1>5 DEF vars, PipelineIInv, HeldTyped, WorkTyped, SettledIsExpanded, AdmittedRan, AllGood
<1> QED BY <1>1, <1>2, <1>3, <1>4, <1>5 DEF Next

-----------------------------------------------------------------------------
(* The theorems                                                             *)

\* Whatever the servers hand out and the cache is found holding, every open
\* document stands at a stage its file's expansion passes through, every
\* fragment closes at what its pin says, and no two of the open documents
\* share an id.
THEOREM PipelineInductive == Spec => []PipelineIInv
<1>1. Init => PipelineIInv
  BY InitKeeps
<1>2. PipelineIInv /\ [Next]_vars => PipelineIInv'
  BY NextKeeps
<1> QED BY <1>1, <1>2, PTL DEF Spec

\* A profile has at most one expansion.
LEMMA AtMostOne ==
  ASSUME NEW S, \A x, y \in S : x = y
  PROVE  Cardinality(S) <= 1
<1>1. CASE S = {}
  BY <1>1, FS_EmptySet
<1>2. CASE S # {}
  <2>1. PICK x : S = {x}
    BY <1>2
  <2>2. Cardinality({x}) = 1
    BY FS_Singleton
  <2> QED BY <2>1, <2>2
<1> QED BY <1>1, <1>2

\* A profile's expansion is fixed by its pins: no republished URL, evicted or
\* damaged cache file, and no process that resolves it at the same time, makes
\* a second one of it (resolve.rs, the pin held against the expansion).
THEOREM ExpansionIsFixed == Spec => []PinnedIsFixed
<1>1. PipelineIInv => PinnedIsFixed
  <2> SUFFICES ASSUME PipelineIInv, NEW r \in Roots
               PROVE  Cardinality(settled[r]) <= 1
    BY DEF PinnedIsFixed
  <2>1. ASSUME NEW x \in settled[r], NEW y \in settled[r] PROVE x = y
    <3> DEFINE a == <<r, Len(Files[r].items), x>>
               b == <<r, Len(Files[r].items), y>>
    <3>1. a \in Expansions /\ b \in Expansions
      BY DEF PipelineIInv, SettledIsExpanded
    <3>2. a[1] = b[1] /\ a[2] = b[2] /\ a[3] = x /\ b[3] = y
      OBVIOUS
    <3> HIDE DEF a, b
    <3>3. a[3] = b[3]
      BY <3>1, <3>2, ExpansionsAgree
    <3> QED BY <3>2, <3>3
  <2> QED BY <2>1, AtMostOne
<1> QED BY <1>1, PipelineInductive, PTL

\* Once some validate has admitted a profile, no apply of it that gets past
\* its resolve stops on an unbound resource or an undeclared capability: what
\* it resolves for itself is what was judged (validate.rs, checks 8b and 9).
THEOREM WhatIsAdmittedRuns == Spec => []AdmittedRuns
<1>1. PipelineIInv => AdmittedRuns
  <2> SUFFICES ASSUME PipelineIInv, NEW p \in Processes, Busy(p, "stopped"),
                      work[p].root \in admitted
               PROVE  FALSE
    BY DEF AdmittedRuns
  <2> DEFINE w == work[p]
             st == stack[p]
             r == w.root
  <2>1. Good(w, st, settled) /\ w.does # "idle" /\ w.at = "stopped"
    BY AtWork
  <2>2. /\ Hash(st[1].doc) \in settled[r] /\ ~RunsThrough(st[1].doc) /\ r \in Roots
        /\ Len(st) = 1 /\ st[Len(st)].todo = <<>>
    <3> HIDE DEF w, st
    <3>1. w \in Commands /\ w.root \in Roots
      BY <2>1, BusyIs
    <3>2. w # Idle
      BY <2>1, IdleIs
    <3> QED BY <2>1, <3>1, <3>2 DEF Good
  <2>3. st[1].doc \in AnyDoc
    <3> HIDE DEF w, st, r
    <3> QED BY <2>1, <2>2, GoodEnd
  <2>4. PICK d \in AnyDoc : Hash(d) \in settled[r] /\ RunsThrough(d)
    BY DEF PipelineIInv, AdmittedRan
  <2>5. Hash(d) = Hash(st[1].doc)
    <3> DEFINE x == Hash(d)
               y == Hash(st[1].doc)
               a == <<r, Len(Files[r].items), x>>
               b == <<r, Len(Files[r].items), y>>
    <3>1. a \in Expansions /\ b \in Expansions
      BY <2>2, <2>4 DEF PipelineIInv, SettledIsExpanded
    <3>2. a[1] = b[1] /\ a[2] = b[2] /\ a[3] = x /\ b[3] = y
      OBVIOUS
    <3> HIDE DEF a, b
    <3>3. a[3] = b[3]
      BY <3>1, <3>2, ExpansionsAgree
    <3> QED BY <3>2, <3>3
  <2> HIDE DEF st
  <2> QED BY <2>2, <2>3, <2>4, <2>5, SameRun
<1> QED BY <1>1, PipelineInductive, PTL

\* The tree an apply runs, with the phases normalize inserted and the steps
\* its plan adds, holds no id twice, however many parsers numbered its parts
\* (resolve_at, IdMinter, StepPlan::build).
THEOREM IdsAreKept == Spec => []IdsInjective
<1>1. PipelineIInv => IdsInjective
  <2> SUFFICES ASSUME PipelineIInv, NEW p \in Processes, Busy(p, "ran"),
                      NEW d, d = Normalize(stack[p][1].doc),
                      NEW a \in Nodes(d) \cup StepNodes(d),
                      NEW b \in Nodes(d) \cup StepNodes(d), a.id = b.id
               PROVE  a = b
    BY DEF IdsInjective
  <2> DEFINE w == work[p]
             st == stack[p]
             doc == st[1].doc
             n == w.next
  <2>1. Good(w, st, settled) /\ w.does # "idle" /\ w.at = "ran"
    BY AtWork
  <2>2. Len(st) = 1 /\ st[Len(st)].todo = <<>> /\ n \in Nat
    <3> HIDE DEF st
    <3>1. w # Idle /\ w.next \in Nat
      <4> HIDE DEF w
      <4> QED BY <2>1, IdleIs, BusyIs
    <3> QED BY <2>1, <3>1 DEF Good
  <2>3. doc \in AnyDoc /\ Separate(doc) /\ Ids(doc) \subseteq 0 .. n
    <3> HIDE DEF w, st
    <3> QED BY <2>1, <2>2, GoodEnd
  <2>4. d = Normalize(doc)
    OBVIOUS
  <2> HIDE DEF doc, n
  <2> QED BY <2>2, <2>3, <2>4, RunIdsInjective
<1> QED BY <1>1, PipelineInductive, PTL
===============================================================================
