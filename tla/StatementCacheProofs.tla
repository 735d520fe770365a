------------------------ MODULE StatementCacheProofs ------------------------
(***************************************************************************)
(* What StatementCache keeps, proved for any number of operations, queries *)
(* and statement ids and any size of the cache.                            *)
(*                                                                         *)
(* The statement an operation uses is live, so its id is its own and the   *)
(* RPB under the id holds its SQL.  It stays live because the counter is   *)
(* the number of its users: only a statement without users, or the one     *)
(* whose last user leaves, is closed, and only after it has left the cache.*)
(***************************************************************************)
EXTENDS StatementCache, SequenceTheorems, FiniteSetTheorems, TLAPS

(* Where an operation is says what its own statement is, and what the      *)
(* statement is that it uses.                                              *)
LifeInv ==
  \A o \in Ops :
    /\ pc[o] \in {"idle", "name"} => phase[o] = "none" /\ ~evicted[o]
    /\ pc[o] \in {"prepare", "insert"} => phase[o] = "live" /\ ~evicted[o]
    /\ phase[o] = "live" => \/ pc[o] \in {"prepare", "insert"}
                            \/ pc[o] \in {"use", "done"} /\ stmt[o] = o
    /\ cacheSize = 0 => pc[o] # "dup" /\ (pc[o] = "use" => stmt[o] = o)
    /\ pc[o] \in {"dup", "use"} => /\ stmt[o] \in Ops
                                   /\ query[stmt[o]] = query[o]
                                   /\ phase[stmt[o]] = "live"
                                   /\ pc[stmt[o]] \in {"use", "done"}

(* A live statement that has been prepared is in the RPB of its id. *)
RpbInv ==
  valid => \A s \in Ops : phase[s] = "live" /\ pc[s] # "prepare" => rpb[handle[s]] = query[s]

OrderInv ==
  /\ IsInjective(order)
  /\ Range(order) = Cached
  /\ Len(order) <= cacheSize

CacheInv ==
  \A q \in Cached : /\ query[cache[q]] = q
                    /\ phase[cache[q]] = "live"
                    /\ ~evicted[cache[q]]
                    /\ pc[cache[q]] \in {"use", "done"}

RefsInv ==
  cacheSize > 0 => \A s \in Ops : refs[s] = Cardinality(Users(s))

(* Why a statement is still live. *)
KeepInv ==
  \A s \in Ops :
    phase[s] = "live" /\ pc[s] \in {"use", "done"} =>
      /\ cacheSize = 0 => pc[s] = "use"
      /\ evicted[s] => Users(s) # {}
      /\ valid /\ cacheSize > 0 => evicted[s] \/ cache[query[s]] = s

IInv ==
  /\ TypeOK
  /\ LifeInv
  /\ HandleOwnership
  /\ RpbInv
  /\ OrderInv
  /\ CacheInv
  /\ RefsInv
  /\ KeepInv

-----------------------------------------------------------------------------
(* A set of numbers that is not empty has its Min.                         *)
LEMMA MinIn ==
  ASSUME NEW S \in SUBSET Nat, S # {}
  PROVE  Min(S) \in S /\ \A y \in S : Min(S) <= y
<1>1. \E x \in S : \A y \in S : x <= y
  <2>1. PICK x \in S : \A y \in S : ~(<<y, x>> \in OpToRel(<, Nat))
    BY Zenon, WFMin, NatLessThanWellFounded
  <2>2. \A y \in S : ~(y < x)
    BY Zenon, <2>1 DEF OpToRel
  <2> QED BY <2>2
<1> QED BY Zenon, <1>1 DEF Min

(* The order without the query that it lists at i.                         *)
Dropped(s, i) == SubSeq(s, 1, i - 1) \o SubSeq(s, i + 1, Len(s))

LEMMA DroppedType ==
  ASSUME NEW S, NEW s \in Seq(S), NEW i \in 1..Len(s)
  PROVE  /\ Dropped(s, i) \in Seq(S)
         /\ Len(Dropped(s, i)) = Len(s) - 1
         /\ \A j \in 1..(Len(s) - 1) : Dropped(s, i)[j] = IF j < i THEN s[j] ELSE s[j + 1]
<1> DEFINE n == Len(s)
           a == SubSeq(s, 1, i - 1)
           b == SubSeq(s, i + 1, n)
           r == Dropped(s, i)
<1>0. n \in Nat /\ i \in 1..n /\ \A j \in 1..n : s[j] \in S
  BY LenProperties, ElementOfSeq
<1>1. a \in Seq(S) /\ Len(a) = i - 1 /\ \A j \in 1..(i - 1) : a[j] = s[j]
  <2> HIDE DEF n
  <2>1. 1 \in Int /\ i - 1 \in Int /\ \A j \in 1..(i - 1) : s[j] \in S
    BY <1>0
  <2> QED BY <1>0, <2>1, SubSeqProperties
<1>2. b \in Seq(S) /\ Len(b) = n - i /\ \A j \in 1..(n - i) : b[j] = s[i + j]
  <2> HIDE DEF n
  <2>1. i + 1 \in Int /\ n \in Int /\ \A j \in (i + 1)..n : s[j] \in S
    BY <1>0
  <2> QED BY <1>0, <2>1, SubSeqProperties
<1>3. r = a \o b
  BY DEF Dropped
<1> HIDE DEF n, a, b, r
<1>4. /\ r \in Seq(S) /\ Len(r) = Len(a) + Len(b)
      /\ \A j \in 1..(Len(a) + Len(b)) : r[j] = IF j <= Len(a) THEN a[j] ELSE b[j - Len(a)]
  BY <1>1, <1>2, <1>3, ConcatProperties
<1>5. Len(a) + Len(b) = n - 1
  BY <1>0, <1>1, <1>2
<1>6. ASSUME NEW j \in 1..(n - 1)
      PROVE  r[j] = IF j < i THEN s[j] ELSE s[j + 1]
  <2>0. r[j] = IF j <= i - 1 THEN a[j] ELSE b[j - (i - 1)]
    BY <1>1, <1>4, <1>5
  <2>1. CASE j < i
    BY <1>0, <1>1, <2>0, <2>1
  <2>2. CASE ~(j < i)
    <3>1. j - (i - 1) \in 1..(n - i) /\ i + (j - (i - 1)) = j + 1 /\ ~(j <= i - 1)
      BY <1>0, <2>2
    <3>2. b[j - (i - 1)] = s[i + (j - (i - 1))]
      BY <1>2, <3>1
    <3> QED BY <2>0, <2>2, <3>1, <3>2
  <2> QED BY <2>1, <2>2
<1> QED BY <1>4, <1>5, <1>6 DEF r, n

(* A hit moves its query to the end: the order lists the same queries, each *)
(* once, and does not grow.                                                *)
LEMMA MovedToEnd ==
  ASSUME NEW S, NEW s \in Seq(S), IsInjective(s), NEW e \in Range(s)
  PROVE  LET r == MoveToEnd(s, e)
         IN  r \in Seq(S) /\ IsInjective(r) /\ Range(r) = Range(s) /\ Len(r) = Len(s)
<1> DEFINE n == Len(s)
<1>0. n \in Nat /\ DOMAIN s = 1..n
  BY LenProperties
<1>1. PICK i \in 1..n : s[i] = e
  BY <1>0 DEF Range
<1>2. MoveToEnd(s, e) = Append(Dropped(s, i), e)
  <2> DEFINE I == {k \in DOMAIN s : s[k] = e}
  <2>1. I = {i}
    BY <1>0, <1>1 DEF IsInjective
  <2>2. Min(I) = i
    BY <2>1 DEF Min
  <2> QED BY Zenon, <2>2 DEF MoveToEnd, Dropped
<1> DEFINE d == Dropped(s, i)
           r == Append(d, e)
<1>3. /\ d \in Seq(S) /\ Len(d) = n - 1
      /\ \A j \in 1..(n - 1) : d[j] = IF j < i THEN s[j] ELSE s[j + 1]
  BY DroppedType
<1>4. e \in S
  BY <1>1, ElementOfSeq
<1> HIDE DEF d, n
<1>5. /\ r \in Seq(S) /\ Len(r) = Len(d) + 1
      /\ \A j \in 1..Len(d) : r[j] = d[j]
      /\ r[Len(d) + 1] = e
  BY <1>3, <1>4, AppendProperties
<1> HIDE DEF r
(* Entry j of the new order is entry f[j] of the old one. *)
<1> DEFINE f == [j \in 1..n |-> IF j = n THEN i ELSE IF j < i THEN j ELSE j + 1]
<1>6. Len(r) = n /\ DOMAIN r = 1..n
  <2>1. Len(r) = n
    BY <1>0, <1>3, <1>5
  <2> QED BY <1>5, <2>1, LenProperties
<1>7. ASSUME NEW j \in 1..n PROVE f[j] \in 1..n /\ r[j] = s[f[j]]
  <2>1. CASE j = n
    BY <1>0, <1>1, <1>3, <1>5, <2>1
  <2>2. CASE j # n
    <3>1. j \in 1..(n - 1) /\ r[j] = d[j]
      BY <1>0, <1>3, <1>5, <2>2
    <3>2. CASE j < i
      BY <1>3, <2>2, <3>1, <3>2
    <3>3. CASE ~(j < i)
      <4>1. f[j] = j + 1 /\ j + 1 \in 1..n
        BY <1>0, <2>2, <3>1, <3>3
      <4> QED BY <1>3, <3>1, <3>3, <4>1
    <3> QED BY <3>2, <3>3
  <2> QED BY <2>1, <2>2
<1>8. \A j, k \in 1..n : f[j] = f[k] => j = k
  BY <1>0, <1>1
<1>9. \A k \in 1..n : \E j \in 1..n : f[j] = k
  <2> SUFFICES ASSUME NEW k \in 1..n PROVE \E j \in 1..n : f[j] = k
    OBVIOUS
  <2>1. CASE k = i
    <3>1. n \in 1..n /\ f[n] = k
      BY <1>0, <2>1
    <3> QED BY <3>1
  <2>2. CASE k < i
    <3>1. f[k] = k
      BY <1>0, <2>2
    <3> QED BY <3>1
  <2>3. CASE k > i
    <3>1. k - 1 \in 1..n /\ f[k - 1] = k
      BY <1>0, <2>3
    <3> QED BY <3>1
  <2> QED BY <1>0, <2>1, <2>2, <2>3
<1> HIDE DEF f
<1>10. IsInjective(r)
  <2>1. \A j, k \in 1..n : s[j] = s[k] => j = k
    BY <1>0 DEF IsInjective
  <2>2. ASSUME NEW j \in 1..n, NEW k \in 1..n, r[j] = r[k] PROVE j = k
    <3>1. f[j] \in 1..n /\ f[k] \in 1..n /\ s[f[j]] = s[f[k]]
      BY <1>7, <2>2
    <3>2. f[j] = f[k]
      BY <2>1, <3>1
    <3> QED BY <1>8, <3>2
  <2> QED BY <1>6, <2>2 DEF IsInjective
<1>11. Range(r) = Range(s)
  <2>1. Range(r) = {r[j] : j \in 1..n} /\ Range(s) = {s[k] : k \in 1..n}
    BY <1>0, <1>6 DEF Range
  <2>2. ASSUME NEW x \in Range(r) PROVE x \in Range(s)
    <3>1. PICK j \in 1..n : x = r[j]
      BY <2>1
    <3> QED BY <1>7, <2>1, <3>1
  <2>3. ASSUME NEW x \in Range(s) PROVE x \in Range(r)
    <3>1. PICK k \in 1..n : x = s[k]
      BY <2>1
    <3>2. PICK j \in 1..n : f[j] = k
      BY <1>9
    <3>3. r[j] = s[f[j]]
      BY <1>7
    <3> QED BY <2>1, <3>1, <3>2, <3>3
  <2> QED BY <2>2, <2>3
<1> QED BY <1>2, <1>5, <1>6, <1>10, <1>11 DEF r, d, n

(* A new query at the end of the order.                                    *)
LEMMA AppendOrder ==
  ASSUME NEW S, NEW s \in Seq(S), IsInjective(s), NEW e \in S, e \notin Range(s)
  PROVE  /\ Append(s, e) \in Seq(S) /\ IsInjective(Append(s, e))
         /\ Range(Append(s, e)) = Range(s) \cup {e}
         /\ Len(Append(s, e)) = Len(s) + 1
<1> DEFINE n == Len(s)
           r == Append(s, e)
<1>0. n \in Nat /\ DOMAIN s = 1..n
  BY LenProperties
<1>1. r \in Seq(S) /\ Len(r) = n + 1 /\ (\A i \in 1..n : r[i] = s[i]) /\ r[n + 1] = e
  BY AppendProperties
<1> HIDE DEF n, r
<1>2. DOMAIN r = 1..(n + 1)
  BY <1>1, LenProperties
<1>3. \A i \in 1..(n + 1) : i \in 1..n \/ i = n + 1
  BY <1>0
<1>4. \A i \in 1..n : s[i] # e
  BY <1>0 DEF Range
<1>5. \A i, j \in 1..n : s[i] = s[j] => i = j
  BY <1>0 DEF IsInjective
<1>6. IsInjective(r)
  BY <1>1, <1>2, <1>3, <1>4, <1>5 DEF IsInjective
<1>7. Range(r) = Range(s) \cup {e}
  <2>1. Range(r) = {r[j] : j \in 1..(n + 1)} /\ Range(s) = {s[k] : k \in 1..n}
    BY <1>0, <1>2 DEF Range
  <2>2. \A i \in 1..n : i \in 1..(n + 1)
    BY <1>0
  <2>3. n + 1 \in 1..(n + 1)
    BY <1>0
  <2> QED BY <1>1, <1>3, <2>1, <2>2, <2>3
<1> QED BY <1>1, <1>6, <1>7 DEF r, n

(* The order without its first query.                                      *)
LEMMA TailOrder ==
  ASSUME NEW S, NEW s \in Seq(S), IsInjective(s), s # <<>>
  PROVE  /\ Head(s) \in Range(s) /\ Head(s) \in S
         /\ Tail(s) \in Seq(S) /\ IsInjective(Tail(s))
         /\ Range(Tail(s)) = Range(s) \ {Head(s)}
         /\ Len(Tail(s)) = Len(s) - 1
<1> DEFINE n == Len(s)
           r == Tail(s)
           h == Head(s)
<1>0. n \in Nat \ {0} /\ DOMAIN s = 1..n
  BY LenProperties, EmptySeq
<1>1. r \in Seq(S) /\ Len(r) = n - 1 /\ \A i \in 1..Len(r) : r[i] = s[i + 1]
  BY HeadTailProperties
<1>2. h = s[1] /\ h \in S
  BY HeadTailProperties
<1> HIDE DEF n, r, h
<1>3. DOMAIN r = 1..(n - 1) /\ \A i \in 1..(n - 1) : r[i] = s[i + 1] /\ i + 1 \in 1..n /\ i + 1 # 1
  BY <1>0, <1>1, LenProperties
<1>4. \A i \in 1..n : i = 1 \/ (i - 1 \in 1..(n - 1) /\ r[i - 1] = s[i])
  <2> SUFFICES ASSUME NEW i \in 1..n, i # 1 PROVE i - 1 \in 1..(n - 1) /\ r[i - 1] = s[i]
    OBVIOUS
  <2>1. i - 1 \in 1..(n - 1) /\ (i - 1) + 1 = i
    BY <1>0
  <2> QED BY <1>3, <2>1
<1>5. 1 \in 1..n
  BY <1>0
<1>6. \A i, j \in 1..n : s[i] = s[j] => i = j
  BY <1>0 DEF IsInjective
<1>7. IsInjective(r)
  <2> SUFFICES ASSUME NEW i \in 1..(n - 1), NEW j \in 1..(n - 1), r[i] = r[j] PROVE i = j
    BY <1>3 DEF IsInjective
  <2>1. i + 1 = j + 1
    BY <1>3, <1>6
  <2> QED BY <1>0, <2>1
<1>8. Range(r) = Range(s) \ {h}
  <2>1. Range(r) = {r[j] : j \in 1..(n - 1)} /\ Range(s) = {s[k] : k \in 1..n}
    BY <1>0, <1>3 DEF Range
  <2>2. ASSUME NEW x \in Range(r) PROVE x \in Range(s) \ {h}
    <3>1. PICK i \in 1..(n - 1) : x = r[i]
      BY <2>1
    <3>2. x = s[i + 1] /\ i + 1 \in 1..n /\ i + 1 # 1
      BY <1>3, <3>1
    <3> QED BY <1>2, <1>5, <1>6, <2>1, <3>2
  <2>3. ASSUME NEW x \in Range(s), x # h PROVE x \in Range(r)
    <3>1. PICK i \in 1..n : x = s[i]
      BY <2>1
    <3> QED BY <1>2, <1>4, <2>1, <2>3, <3>1
  <2> QED BY <2>2, <2>3
<1>9. h \in Range(s)
  BY <1>0, <1>2, <1>5 DEF Range
<1> QED BY <1>1, <1>2, <1>7, <1>8, <1>9 DEF r, n, h

(* The order lists as many queries as it is long.                          *)
LEMMA CountOrder ==
  ASSUME NEW S, NEW s \in Seq(S), IsInjective(s)
  PROVE  IsFiniteSet(Range(s)) /\ Cardinality(Range(s)) = Len(s)
<1>0. Len(s) \in Nat /\ DOMAIN s = 1..Len(s) /\ s \in [1..Len(s) -> S]
  BY LenProperties
<1>1. s \in [1..Len(s) -> Range(s)]
  BY <1>0 DEF Range
<1>2. s \in Bijection(1..Len(s), Range(s))
  BY <1>0, <1>1 DEF Bijection, Injection, Surjection, IsInjective, Range
<1>3. ExistsBijection(1..Len(s), Range(s))
  BY <1>2 DEF ExistsBijection
<1> QED BY <1>0, <1>3, FS_NatBijection, FS_CountingElements

-----------------------------------------------------------------------------
(* The cases of Lookup, NextStatementName and Insert.                      *)
LookupHit(o, s) ==
  /\ pc[o] = "idle" /\ pc' = [pc EXCEPT ![o] = "use"]
  /\ s = cache[query[o]] /\ s \in Ops /\ query[o] \in Cached
  /\ refs' = [refs EXCEPT ![s] = @ + 1]
  /\ order' = MoveToEnd(order, query[o])
  /\ stmt' = [stmt EXCEPT ![o] = s]
  /\ UNCHANGED <<query, handle, evicted, phase, cache, used, rpb, valid, cacheSize>>

(* A step that only fails the operation, or sends it to ask for an id. *)
OnlyPc(o, from, to) ==
  /\ pc[o] = from /\ pc' = [pc EXCEPT ![o] = to]
  /\ UNCHANGED <<query, stmt, handle, refs, evicted, phase, cache, order, used, rpb, valid,
                 cacheSize>>

NameFound(o, h) ==
  /\ pc[o] = "name" /\ pc' = [pc EXCEPT ![o] = "prepare"]
  /\ h \in Handles \ used
  /\ handle' = [handle EXCEPT ![o] = h]
  /\ used' = used \cup {h}
  /\ phase' = [phase EXCEPT ![o] = "live"]
  /\ UNCHANGED <<query, stmt, refs, evicted, cache, order, rpb, valid, cacheSize>>

InsertDuplicate(o, s) ==
  /\ pc[o] = "insert" /\ pc' = [pc EXCEPT ![o] = "dup"]
  /\ cacheSize > 0
  /\ s = cache[query[o]] /\ s \in Ops /\ query[o] \in Cached
  /\ refs' = [refs EXCEPT ![s] = @ + 1]
  /\ stmt' = [stmt EXCEPT ![o] = s]
  /\ phase' = [phase EXCEPT ![o] = "closing"]
  /\ UNCHANGED <<query, handle, evicted, cache, order, used, rpb, valid, cacheSize>>

InsertRoom(o) ==
  /\ pc[o] = "insert" /\ pc' = [pc EXCEPT ![o] = "use"]
  /\ cacheSize > 0 /\ query[o] \notin Cached
  /\ Cardinality(Cached) < cacheSize
  /\ refs' = [refs EXCEPT ![o] = 1]
  /\ stmt' = [stmt EXCEPT ![o] = o]
  /\ cache' = [cache EXCEPT ![query[o]] = o]
  /\ order' = Append(order, query[o])
  /\ UNCHANGED <<query, handle, evicted, phase, used, rpb, valid, cacheSize>>

InsertEvicting(o, k, v) ==
  /\ pc[o] = "insert" /\ pc' = [pc EXCEPT ![o] = "use"]
  /\ cacheSize > 0 /\ query[o] \notin Cached
  /\ order # <<>> /\ k = Head(order) /\ k \in Cached /\ v = cache[k] /\ v \in Ops
  /\ refs' = [refs EXCEPT ![o] = 1]
  /\ stmt' = [stmt EXCEPT ![o] = o]
  /\ evicted' = [evicted EXCEPT ![v] = TRUE]
  /\ phase' = [phase EXCEPT ![v] = IF refs[v] = 0 THEN "closing" ELSE @]
  /\ cache' = [cache EXCEPT ![k] = NoStmt, ![query[o]] = o]
  /\ order' = Append(Tail(order), query[o])
  /\ UNCHANGED <<query, handle, used, rpb, valid, cacheSize>>

LEMMA LookupCases ==
  ASSUME TypeOK, NEW o \in Ops, Lookup(o)
  PROVE  (\E s \in Ops : LookupHit(o, s)) \/ OnlyPc(o, "idle", "name")
<1>1. CASE cache[query[o]] # NoStmt
  <2>1. cache[query[o]] \in Ops /\ query[o] \in Cached
    BY <1>1 DEF TypeOK, Cached
  <2>2. LookupHit(o, cache[query[o]])
    BY <1>1, <2>1 DEF Lookup, LookupHit, Goto
  <2> QED BY <2>1, <2>2
<1>2. CASE cache[query[o]] = NoStmt
  BY <1>2 DEF Lookup, OnlyPc, Goto
<1> QED BY <1>1, <1>2

LEMMA NameCases ==
  ASSUME TypeOK, NEW o \in Ops, NextStatementName(o)
  PROVE  (\E h \in Handles : NameFound(o, h)) \/ OnlyPc(o, "name", "failed")
<1>1. CASE used # Handles
  <2>1. Handles \ used # {} /\ Handles \ used \in SUBSET Nat
    <3>1. Handles \ used # {}
      BY Zenon, <1>1 DEF TypeOK
    <3>2. Handles \subseteq Nat
      BY CacheAssumption DEF Handles
    <3> QED BY Zenon, <3>1, <3>2
  <2>2. Min(Handles \ used) \in Handles \ used
    BY <2>1, MinIn
  <2>3. NameFound(o, Min(Handles \ used))
    BY <1>1, <2>2 DEF NextStatementName, NameFound, Goto
  <2> QED BY <2>2, <2>3
<1>2. CASE used = Handles
  BY <1>2 DEF NextStatementName, OnlyPc, Goto
<1> QED BY <1>1, <1>2

LEMMA InsertCases ==
  ASSUME TypeOK, OrderInv, NEW o \in Ops, Insert(o)
  PROVE  \/ \E s \in Ops : InsertDuplicate(o, s)
         \/ InsertRoom(o)
         \/ \E k \in Queries, v \in Ops : InsertEvicting(o, k, v)
<1>0. query[o] \in Queries /\ cacheSize \in Nat /\ cacheSize > 0
  BY CacheAssumption DEF TypeOK, Insert
<1>1. CASE cache[query[o]] # NoStmt
  <2>1. cache[query[o]] \in Ops /\ query[o] \in Cached
    BY <1>0, <1>1 DEF TypeOK, Cached
  <2>2. InsertDuplicate(o, cache[query[o]])
    BY <1>1, <2>1 DEF Insert, InsertDuplicate, Goto
  <2> QED BY <2>1, <2>2
<1>2. CASE cache[query[o]] = NoStmt
  <2>0. IsFiniteSet(Cached) /\ Cardinality(Cached) = Len(order)
    BY CountOrder DEF OrderInv, TypeOK
  <2>1. query[o] \notin Cached
    BY <1>2 DEF Cached
  <2>2. CASE Cardinality(Cached) >= cacheSize
    <3>1. order # <<>>
      BY <1>0, <2>0, <2>2, EmptySeq
    <3>2. Head(order) \in Cached
      BY <3>1, TailOrder DEF TypeOK, OrderInv
    <3>3. Head(order) \in Queries /\ cache[Head(order)] \in Ops
      BY <3>2 DEF Cached, TypeOK
    <3>4. InsertEvicting(o, Head(order), cache[Head(order)])
      BY <1>2, <2>1, <2>2, <3>1, <3>2, <3>3 DEF Insert, InsertEvicting, Goto
    <3> QED BY <3>3, <3>4
  <2>3. CASE ~(Cardinality(Cached) >= cacheSize)
    <3>1. Cardinality(Cached) < cacheSize
      BY <1>0, <2>0, <2>3, FS_CardinalityType
    <3> QED BY <1>2, <2>1, <2>3, <3>1 DEF Insert, InsertRoom, Goto
  <2> QED BY <2>2, <2>3
<1> QED BY <1>1, <1>2

-----------------------------------------------------------------------------
LEMMA TypeStep ==
  ASSUME TypeOK, LifeInv, OrderInv, [Next]_vars
  PROVE  TypeOK'
<1> USE DEF TypeOK
<1>1. ASSUME NEW o \in Ops, NEW s \in Ops, LookupHit(o, s) PROVE TypeOK'
  <2>1. order' \in Seq(Queries)
    BY <1>1, MovedToEnd DEF LookupHit, OrderInv
  <2> QED BY <1>1, <2>1 DEF LookupHit
<1>2. ASSUME NEW o \in Ops, OnlyPc(o, "idle", "name") \/ OnlyPc(o, "name", "failed")
      PROVE  TypeOK'
  BY Zenon, <1>2 DEF OnlyPc
<1>3. ASSUME NEW o \in Ops, NEW h \in Handles, NameFound(o, h) PROVE TypeOK'
  BY <1>3 DEF NameFound
<1>4. ASSUME NEW o \in Ops, Prepare(o) PROVE TypeOK'
  <2>1. rpb' \in [Handles -> Queries \cup {NoStmt}]
    BY Zenon, <1>4 DEF Prepare
  <2> QED BY Zenon, <1>4, <2>1 DEF Prepare, Goto
<1>5. ASSUME NEW o \in Ops, NEW s \in Ops, InsertDuplicate(o, s) PROVE TypeOK'
  BY <1>5 DEF InsertDuplicate
<1>6. ASSUME NEW o \in Ops, InsertRoom(o) PROVE TypeOK'
  <2>1. order' \in Seq(Queries)
    BY <1>6, AppendProperties DEF InsertRoom
  <2> QED BY <1>6, <2>1 DEF InsertRoom
<1>7. ASSUME NEW o \in Ops, NEW k \in Queries, NEW v \in Ops, InsertEvicting(o, k, v)
      PROVE  TypeOK'
  <2>1. order' \in Seq(Queries)
    BY <1>7, AppendProperties, HeadTailProperties DEF InsertEvicting
  <2>2. phase' \in [Ops -> {"none", "live", "closing", "deleted", "freed"}]
    BY <1>7 DEF InsertEvicting
  <2> QED BY Zenon, <1>7, <2>1, <2>2 DEF InsertEvicting
<1>8. ASSUME NEW o \in Ops, UseExisting(o) \/ UseTransient(o) PROVE TypeOK'
  <2>1. CASE UseExisting(o)
    BY Zenon, <2>1 DEF UseExisting, Goto
  <2>2. CASE UseTransient(o)
    BY Zenon, <2>2 DEF UseTransient, Goto
  <2> QED BY <1>8, <2>1, <2>2
<1>15. ASSUME NEW o \in Ops, CloseTransient(o) PROVE TypeOK'
  BY Zenon, <1>15 DEF CloseTransient, Goto
<1>9. ASSUME NEW o \in Ops, ReleaseCachedStatement(o) PROVE TypeOK'
  <2>0. stmt[o] \in Ops /\ refs[stmt[o]] \in Nat
    BY <1>9 DEF ReleaseCachedStatement, LifeInv
  <2>1. refs' \in [Ops -> Nat]
    <3> DEFINE left == IF refs[stmt[o]] > 0 THEN refs[stmt[o]] - 1 ELSE 0
    <3>1. left \in Nat
      BY <2>0
    <3>2. refs' = [refs EXCEPT ![stmt[o]] = left]
      BY <1>9 DEF ReleaseCachedStatement
    <3> QED BY Zenon, <3>1, <3>2
  <2>2. phase' \in [Ops -> {"none", "live", "closing", "deleted", "freed"}]
    BY Zenon, <1>9 DEF ReleaseCachedStatement
  <2> QED BY <1>9, <2>1, <2>2 DEF ReleaseCachedStatement, Goto
<1>10. ASSUME NEW s \in Ops, DeleteRPB(s) PROVE TypeOK'
  <2>1. rpb' \in [Handles -> Queries \cup {NoStmt}]
    BY Zenon, <1>10 DEF DeleteRPB
  <2> QED BY <1>10, <2>1 DEF DeleteRPB
<1>11. ASSUME NEW s \in Ops, ReleaseStatementHandle(s) PROVE TypeOK'
  BY <1>11 DEF ReleaseStatementHandle
<1>12. CASE ConnLost
  BY Zenon, <1>12 DEF ConnLost
<1>13. CASE Close
  <2>1. order' \in Seq(Queries)
    BY <1>13 DEF Close
  <2> QED BY Zenon, <1>13, <2>1 DEF Close
<1>14. CASE UNCHANGED vars
  BY <1>14 DEF vars
<1> QED
  BY Zenon, <1>1, <1>2, <1>3, <1>4, <1>5, <1>6, <1>7, <1>8, <1>9, <1>10, <1>11, <1>12, <1>13, <1>14, <1>15,
     LookupCases, NameCases, InsertCases
  DEF Next, Operation, ClosePreparedStatement, Quiescent

-----------------------------------------------------------------------------
(* Without a cache nothing is cached.                                      *)
LEMMA CachedSize ==
  ASSUME TypeOK, OrderInv, NEW q \in Cached
  PROVE  cacheSize > 0
<1>1. Len(order) \in Nat /\ DOMAIN order = 1..Len(order) /\ cacheSize \in Nat
  BY LenProperties, CacheAssumption DEF TypeOK
<1>2. Len(order) # 0
  BY <1>1 DEF OrderInv, Range
<1> QED BY <1>1, <1>2 DEF OrderInv

(* What the counter says of the users of a statement.                      *)
LEMMA UsersCount ==
  ASSUME TypeOK, RefsInv, cacheSize > 0, NEW s \in Ops
  PROVE  /\ IsFiniteSet(Users(s)) /\ refs[s] = Cardinality(Users(s))
         /\ refs[s] = 0 => Users(s) = {}
         /\ \A o \in Users(s) : refs[s] > 0 /\ (refs[s] - 1 = 0 => Users(s) = {o})
<1>0. Users(s) \in SUBSET Ops
  BY DEF Users
<1>1. IsFiniteSet(Users(s)) /\ refs[s] = Cardinality(Users(s)) /\ refs[s] \in Nat
  BY <1>0, FS_Subset, CacheAssumption DEF RefsInv, TypeOK
<1>2. refs[s] = 0 => Users(s) = {}
  BY Zenon, <1>1, FS_EmptySet
<1>3. ASSUME NEW o \in Users(s) PROVE refs[s] > 0 /\ (refs[s] - 1 = 0 => Users(s) = {o})
  <2>1. refs[s] # 0
    BY <1>2
  <2>2. refs[s] = 1 => \E x : Users(s) = {x}
    BY Zenon, <1>1, FS_Singleton
  <2> QED BY <1>1, <2>1, <2>2
<1> QED BY <1>1, <1>2, <1>3

-----------------------------------------------------------------------------
LEMMA LifeStep ==
  ASSUME TypeOK, LifeInv, OrderInv, CacheInv, RefsInv, [Next]_vars
  PROVE  LifeInv'
<1> USE DEF LifeInv
<1>1. ASSUME NEW o \in Ops, NEW s \in Ops, LookupHit(o, s) PROVE LifeInv'
  <2>1. query[s] = query[o] /\ phase[s] = "live" /\ pc[s] \in {"use", "done"}
    BY <1>1 DEF LookupHit, CacheInv
  <2>2. cacheSize # 0
    BY <1>1, CachedSize DEF LookupHit, TypeOK
  <2> QED BY <1>1, <2>1, <2>2 DEF LookupHit, TypeOK
<1>2. ASSUME NEW o \in Ops, OnlyPc(o, "idle", "name") \/ OnlyPc(o, "name", "failed")
      PROVE  LifeInv'
  BY <1>2 DEF OnlyPc, TypeOK
<1>3. ASSUME NEW o \in Ops, NEW h \in Handles, NameFound(o, h) PROVE LifeInv'
  BY <1>3 DEF NameFound, TypeOK
<1>4. ASSUME NEW o \in Ops, Prepare(o) PROVE LifeInv'
  BY <1>4 DEF Prepare, Goto, TypeOK
<1>5. ASSUME NEW o \in Ops, NEW s \in Ops, InsertDuplicate(o, s) PROVE LifeInv'
  <2>1. query[s] = query[o] /\ phase[s] = "live" /\ pc[s] \in {"use", "done"} /\ s # o
    BY <1>5 DEF InsertDuplicate, CacheInv
  <2> QED BY <1>5, <2>1 DEF InsertDuplicate, TypeOK
<1>6. ASSUME NEW o \in Ops, InsertRoom(o) PROVE LifeInv'
  BY <1>6 DEF InsertRoom, TypeOK
<1>8. ASSUME NEW o \in Ops, UseExisting(o) \/ UseTransient(o) PROVE LifeInv'
  BY <1>8 DEF UseExisting, UseTransient, Goto, TypeOK
<1>10. ASSUME NEW s \in Ops, DeleteRPB(s) PROVE LifeInv'
  BY <1>10 DEF DeleteRPB, TypeOK
<1>11. ASSUME NEW s \in Ops, ReleaseStatementHandle(s) PROVE LifeInv'
  BY <1>11 DEF ReleaseStatementHandle, TypeOK
<1>12. CASE ConnLost \/ Close
  BY <1>12 DEF ConnLost, Close
<1>14. CASE UNCHANGED vars
  BY <1>14 DEF vars

<1>7. ASSUME NEW o \in Ops, NEW k \in Queries, NEW v \in Ops, InsertEvicting(o, k, v)
      PROVE  LifeInv'
  <2>1. v # o /\ pc[v] \in {"use", "done"}
    BY <1>7 DEF InsertEvicting, CacheInv
  <2>2. refs[v] = 0 => \A p \in Ops : pc[p] \in {"dup", "use"} => stmt[p] # v
    <3>1. refs[v] = 0 => Users(v) = {}
      BY <1>7, UsersCount DEF InsertEvicting
    <3> QED BY <3>1 DEF Users
  <2>3. \/ phase' = [phase EXCEPT ![v] = "closing"] /\ refs[v] = 0
        \/ \A x \in Ops : phase'[x] = phase[x]
    <3>1. phase' = [phase EXCEPT ![v] = IF refs[v] = 0 THEN "closing" ELSE phase[v]]
      BY <1>7 DEF InsertEvicting
    <3>2. CASE refs[v] = 0
      BY <3>1, <3>2
    <3>3. CASE refs[v] # 0
      BY <3>1, <3>3 DEF TypeOK
    <3> QED BY <3>2, <3>3
  <2>4. /\ pc[o] = "insert" /\ pc' = [pc EXCEPT ![o] = "use"] /\ stmt' = [stmt EXCEPT ![o] = o]
        /\ evicted' = [evicted EXCEPT ![v] = TRUE] /\ UNCHANGED <<query, cacheSize>>
    BY <1>7 DEF InsertEvicting
  <2>5. CASE \A x \in Ops : phase'[x] = phase[x]
    BY <2>1, <2>4, <2>5 DEF TypeOK
  <2>6. CASE phase' = [phase EXCEPT ![v] = "closing"] /\ refs[v] = 0
    BY <2>1, <2>2, <2>4, <2>6 DEF TypeOK
  <2> QED BY <2>3, <2>5, <2>6
<1>9. ASSUME NEW o \in Ops, ReleaseCachedStatement(o) PROVE LifeInv'
  <2> DEFINE s == stmt[o]
  <2>1. s \in Ops /\ pc[s] \in {"use", "done"} /\ phase[s] = "live" /\ o \in Users(s)
    BY <1>9 DEF ReleaseCachedStatement, Users
  <2>2. /\ refs[s] > 0
        /\ refs[s] - 1 = 0 => \A p \in Ops : pc[p] \in {"dup", "use"} /\ stmt[p] = s => p = o
    <3>1. refs[s] > 0 /\ (refs[s] - 1 = 0 => Users(s) = {o})
      BY <1>9, <2>1, UsersCount DEF ReleaseCachedStatement
    <3> QED BY <3>1 DEF Users
  <2>3. /\ pc[o] = "use" /\ pc' = [pc EXCEPT ![o] = "done"] /\ cacheSize > 0
        /\ UNCHANGED <<stmt, query, evicted, cacheSize>>
    BY <1>9 DEF ReleaseCachedStatement, Goto
  <2>4. \/ phase' = [phase EXCEPT ![s] = "closing"] /\ refs[s] - 1 = 0
        \/ \A x \in Ops : phase'[x] = phase[x]
    <3>1. phase' = [phase EXCEPT ![s] = IF evicted[s] /\ refs[s] - 1 = 0 THEN "closing" ELSE phase[s]]
      BY Zenon, <1>9, <2>2 DEF ReleaseCachedStatement
    <3>2. CASE evicted[s] /\ refs[s] - 1 = 0
      BY <3>1, <3>2
    <3>3. CASE ~(evicted[s] /\ refs[s] - 1 = 0)
      BY <3>1, <3>3 DEF TypeOK
    <3> QED BY <3>2, <3>3
  <2> HIDE DEF s
  <2>5. CASE \A x \in Ops : phase'[x] = phase[x]
    BY <2>3, <2>5 DEF TypeOK
  <2>6. CASE phase' = [phase EXCEPT ![s] = "closing"] /\ refs[s] - 1 = 0
    BY <2>1, <2>2, <2>3, <2>6 DEF TypeOK
  <2> QED BY <2>4, <2>5, <2>6
<1>13. ASSUME NEW o \in Ops, CloseTransient(o) PROVE LifeInv'
  <2>1. /\ stmt[o] = o /\ pc[o] = "use" /\ pc' = [pc EXCEPT ![o] = "done"] /\ cacheSize = 0
        /\ phase' = [phase EXCEPT ![o] = "closing"] /\ UNCHANGED <<stmt, query, evicted, cacheSize>>
    BY Zenon, <1>13 DEF CloseTransient, Goto
  <2>2. \A p \in Ops : pc[p] \in {"dup", "use"} => pc[p] = "use" /\ stmt[p] = p
    BY <2>1
  <2> QED BY <2>1, <2>2 DEF TypeOK
<1> HIDE DEF LifeInv
<1> QED
  BY <1>1, <1>2, <1>3, <1>4, <1>5, <1>6, <1>7, <1>8, <1>9, <1>10, <1>11, <1>12, <1>13, <1>14,
     LookupCases, NameCases, InsertCases
  DEF Next, Operation, ClosePreparedStatement, Quiescent

-----------------------------------------------------------------------------
(* The steps, seen from a statement: it gets an id, it starts to close, its *)
(* RPB or its id goes, or it keeps both.                                   *)
LEMMA PhaseCases ==
  ASSUME TypeOK, LifeInv, OrderInv, CacheInv, [Next]_vars
  PROVE  \/ \E o \in Ops, h \in Handles : NameFound(o, h)
         \/ \E s \in Ops : ReleaseStatementHandle(s)
         \/ /\ UNCHANGED <<handle, used>>
            /\ \A s \in Ops : \/ phase'[s] = phase[s]
                              \/ phase[s] = "live" /\ phase'[s] = "closing"
                              \/ phase[s] = "closing" /\ phase'[s] = "deleted"
<1> DEFINE Keeps == /\ UNCHANGED <<handle, used>>
                    /\ \A s \in Ops : \/ phase'[s] = phase[s]
                                      \/ phase[s] = "live" /\ phase'[s] = "closing"
                                      \/ phase[s] = "closing" /\ phase'[s] = "deleted"
<1> USE DEF TypeOK
<1>1. ASSUME NEW o \in Ops, NEW s \in Ops, LookupHit(o, s) PROVE Keeps
  BY <1>1 DEF LookupHit
<1>2. ASSUME NEW o \in Ops, OnlyPc(o, "idle", "name") \/ OnlyPc(o, "name", "failed") PROVE Keeps
  BY <1>2 DEF OnlyPc
<1>3. ASSUME NEW o \in Ops, Prepare(o) PROVE Keeps
  <2>1. phase[o] = "live"
    BY <1>3 DEF Prepare, LifeInv
  <2> QED BY <1>3, <2>1 DEF Prepare
<1>4. ASSUME NEW o \in Ops, NEW s \in Ops, InsertDuplicate(o, s) PROVE Keeps
  <2>1. phase[o] = "live"
    BY <1>4 DEF InsertDuplicate, LifeInv
  <2> QED BY <1>4, <2>1 DEF InsertDuplicate
<1>5. ASSUME NEW o \in Ops, InsertRoom(o) PROVE Keeps
  BY <1>5 DEF InsertRoom
<1>6. ASSUME NEW o \in Ops, NEW k \in Queries, NEW v \in Ops, InsertEvicting(o, k, v) PROVE Keeps
  <2>1. phase[v] = "live"
    BY <1>6 DEF InsertEvicting, CacheInv
  <2>2. /\ UNCHANGED <<handle, used>>
        /\ phase' = [phase EXCEPT ![v] = IF refs[v] = 0 THEN "closing" ELSE phase[v]]
    BY <1>6 DEF InsertEvicting
  <2> QED BY <2>1, <2>2
<1>7. ASSUME NEW o \in Ops, UseExisting(o) \/ UseTransient(o) PROVE Keeps
  BY <1>7 DEF UseExisting, UseTransient
<1>8. ASSUME NEW o \in Ops, ReleaseCachedStatement(o) \/ CloseTransient(o) PROVE Keeps
  <2>1. stmt[o] \in Ops /\ phase[stmt[o]] = "live"
    BY <1>8 DEF ReleaseCachedStatement, CloseTransient, LifeInv
  <2>2. /\ UNCHANGED <<handle, used>>
        /\ \E x \in {"closing", phase[stmt[o]]} : phase' = [phase EXCEPT ![stmt[o]] = x]
    BY <1>8 DEF ReleaseCachedStatement, CloseTransient
  <2> QED BY <2>1, <2>2
<1>9. ASSUME NEW s \in Ops, DeleteRPB(s) PROVE Keeps
  BY <1>9 DEF DeleteRPB
<1>10. CASE ConnLost \/ Close
  BY <1>10 DEF ConnLost, Close
<1>11. CASE UNCHANGED vars
  BY <1>11 DEF vars
<1> HIDE DEF TypeOK
<1> QED
  BY Zenon, <1>1, <1>2, <1>3, <1>4, <1>5, <1>6, <1>7, <1>8, <1>9, <1>10, <1>11,
     LookupCases, NameCases, InsertCases
  DEF Next, Operation, ClosePreparedStatement, Quiescent

LEMMA HandleStep ==
  ASSUME TypeOK, LifeInv, HandleOwnership, OrderInv, CacheInv, [Next]_vars
  PROVE  HandleOwnership'
<1>1. ASSUME NEW o \in Ops, NEW h \in Handles, NameFound(o, h) PROVE HandleOwnership'
  <2>1. phase[o] = "none" /\ phase' = [phase EXCEPT ![o] = "live"]
    BY <1>1 DEF NameFound, LifeInv
  <2>2. Open' = Open \cup {o} /\ o \notin Open
    BY <2>1 DEF Open, TypeOK
  <2>3. /\ h \notin used /\ used' = used \cup {h} /\ handle'[o] = h
        /\ \A s \in Open : handle'[s] = handle[s] /\ handle[s] \in used
    BY <1>1, <2>2 DEF NameFound, TypeOK, HandleOwnership, Open
  <2> QED BY <2>2, <2>3 DEF HandleOwnership
<1>2. ASSUME NEW s \in Ops, ReleaseStatementHandle(s) PROVE HandleOwnership'
  <2>1. s \in Open /\ handle' = handle /\ used' = used \ {handle[s]}
    BY <1>2 DEF ReleaseStatementHandle, Open
  <2>2. Open' = Open \ {s}
    BY <1>2 DEF ReleaseStatementHandle, Open, TypeOK
  <2> QED BY <2>1, <2>2 DEF HandleOwnership
<1>3. ASSUME UNCHANGED <<handle, used>>,
             \A s \in Ops : \/ phase'[s] = phase[s]
                            \/ phase[s] = "live" /\ phase'[s] = "closing"
                            \/ phase[s] = "closing" /\ phase'[s] = "deleted"
      PROVE  HandleOwnership'
  <2>1. Open' = Open
    BY <1>3 DEF Open
  <2> QED BY <1>3, <2>1 DEF HandleOwnership
<1> QED BY <1>1, <1>2, <1>3, PhaseCases

-----------------------------------------------------------------------------
LEMMA RpbStep ==
  ASSUME TypeOK, LifeInv, HandleOwnership, RpbInv, OrderInv, CacheInv, [Next]_vars
  PROVE  RpbInv'
(* Statements that are open have different ids. *)
<1>0. \A s, t \in Ops :
        phase[s] \in {"live", "closing"} /\ phase[t] = "live" /\ handle[s] = handle[t] => s = t
  <2>1. \A s \in Ops : phase[s] \in {"live", "closing"} => s \in Open
    BY DEF Open
  <2> QED BY <2>1 DEF HandleOwnership
<1>1. ASSUME UNCHANGED <<rpb, handle, query>>, valid' => valid,
             \A s \in Ops : phase'[s] = "live" /\ pc'[s] # "prepare"
                              => phase[s] = "live" /\ pc[s] # "prepare"
      PROVE  RpbInv'
  BY <1>1 DEF RpbInv
<1>2. ASSUME NEW o \in Ops, NEW h \in Handles, NameFound(o, h) PROVE RpbInv'
  BY <1>2 DEF NameFound, RpbInv, TypeOK
<1>3. ASSUME NEW o \in Ops, Prepare(o) PROVE RpbInv'
  <2> SUFFICES ASSUME valid', NEW s \in Ops, phase'[s] = "live", pc'[s] # "prepare"
               PROVE  rpb'[handle'[s]] = query'[s]
    BY DEF RpbInv
  <2>1. /\ valid /\ pc[o] = "prepare" /\ phase[o] = "live" /\ UNCHANGED <<handle, query>>
        /\ rpb' = [rpb EXCEPT ![handle[o]] = query[o]]
    BY <1>3 DEF Prepare, LifeInv
  <2>2. handle[o] \in Handles
    BY <2>1 DEF HandleOwnership, Open, TypeOK
  <2>3. CASE s = o
    BY <2>1, <2>2, <2>3 DEF TypeOK
  <2>4. CASE s # o
    <3>1. phase[s] = "live" /\ pc[s] # "prepare"
      BY <1>3, <2>4 DEF Prepare, Goto, TypeOK
    <3>2. handle[s] # handle[o] /\ rpb[handle[s]] = query[s]
      BY <1>0, <2>1, <2>4, <3>1 DEF RpbInv
    <3>3. handle[s] \in Handles
      BY <3>1 DEF HandleOwnership, Open, TypeOK
    <3> QED BY <2>1, <3>2, <3>3 DEF TypeOK
  <2> QED BY <2>3, <2>4
<1>4. ASSUME NEW t \in Ops, DeleteRPB(t) PROVE RpbInv'
  <2> SUFFICES ASSUME valid', NEW s \in Ops, phase'[s] = "live", pc'[s] # "prepare"
               PROVE  rpb'[handle'[s]] = query'[s]
    BY DEF RpbInv
  <2>1. /\ valid /\ phase[t] = "closing" /\ UNCHANGED <<handle, query, pc>>
        /\ rpb' = [rpb EXCEPT ![handle[t]] = NoStmt]
    BY <1>4 DEF DeleteRPB
  <2>2. phase[s] = "live" /\ s # t
    BY <1>4, <2>1 DEF DeleteRPB, TypeOK
  <2>3. handle[s] # handle[t] /\ rpb[handle[s]] = query[s]
    BY <1>0, <2>1, <2>2 DEF RpbInv
  <2>4. handle[s] \in Handles
    BY <2>2 DEF HandleOwnership, Open, TypeOK
  <2> QED BY <2>1, <2>3, <2>4 DEF TypeOK
<1>5. ASSUME NEW o \in Ops, NEW s \in Ops, LookupHit(o, s) PROVE RpbInv'
  <2>1. phase[o] = "none"
    BY <1>5 DEF LookupHit, LifeInv
  <2> QED BY <1>5, <2>1, <1>1 DEF LookupHit, TypeOK
<1>6. ASSUME NEW o \in Ops, OnlyPc(o, "idle", "name") \/ OnlyPc(o, "name", "failed") PROVE RpbInv'
  BY <1>6, <1>1 DEF OnlyPc, TypeOK
<1>7. ASSUME NEW o \in Ops, NEW s \in Ops, InsertDuplicate(o, s) PROVE RpbInv'
  BY <1>7, <1>1 DEF InsertDuplicate, TypeOK
<1>8. ASSUME NEW o \in Ops, InsertRoom(o) PROVE RpbInv'
  BY <1>8, <1>1 DEF InsertRoom, TypeOK
<1>9. ASSUME NEW o \in Ops, NEW k \in Queries, NEW v \in Ops, InsertEvicting(o, k, v) PROVE RpbInv'
  <2>1. \A s \in Ops : phase'[s] = "live" => phase[s] = "live"
    BY <1>9 DEF InsertEvicting, TypeOK
  <2> QED BY <1>9, <1>1, <2>1 DEF InsertEvicting, TypeOK
<1>10. ASSUME NEW o \in Ops, UseExisting(o) \/ UseTransient(o) PROVE RpbInv'
  BY <1>10, <1>1 DEF UseExisting, UseTransient, Goto, TypeOK
<1>11. ASSUME NEW o \in Ops, ReleaseCachedStatement(o) \/ CloseTransient(o) PROVE RpbInv'
  <2>1. \A s \in Ops : phase'[s] = "live" => phase[s] = "live"
    BY <1>11 DEF ReleaseCachedStatement, CloseTransient, TypeOK
  <2>2. /\ pc[o] = "use" /\ pc' = [pc EXCEPT ![o] = "done"]
        /\ UNCHANGED <<rpb, handle, query, valid>>
    BY Zenon, <1>11 DEF ReleaseCachedStatement, CloseTransient, Goto
  <2> QED BY <1>1, <2>1, <2>2 DEF TypeOK
<1>12. ASSUME NEW s \in Ops, ReleaseStatementHandle(s) PROVE RpbInv'
  BY <1>12, <1>1 DEF ReleaseStatementHandle, TypeOK
<1>13. CASE ConnLost \/ Close
  BY <1>13, <1>1 DEF ConnLost, Close
<1>14. CASE UNCHANGED vars
  BY <1>14, <1>1 DEF vars
<1> QED
  BY Zenon, <1>2, <1>3, <1>4, <1>5, <1>6, <1>7, <1>8, <1>9, <1>10, <1>11, <1>12, <1>13, <1>14,
     LookupCases, NameCases, InsertCases
  DEF Next, Operation, ClosePreparedStatement, Quiescent

-----------------------------------------------------------------------------
LEMMA OrderStep ==
  ASSUME TypeOK, OrderInv, [Next]_vars
  PROVE  OrderInv'
<1>0. /\ order \in Seq(Queries) /\ IsInjective(order) /\ Range(order) = Cached
      /\ Len(order) \in Nat /\ Len(order) <= cacheSize /\ cacheSize \in Nat
  BY LenProperties, CacheAssumption DEF OrderInv, TypeOK
<1>1. ASSUME UNCHANGED <<order, cache, cacheSize>> PROVE OrderInv'
  BY <1>1 DEF OrderInv, Cached
<1>2. ASSUME NEW o \in Ops, NEW s \in Ops, LookupHit(o, s) PROVE OrderInv'
  <2>1. /\ query[o] \in Range(order) /\ order' = MoveToEnd(order, query[o])
        /\ UNCHANGED <<cache, cacheSize>>
    BY <1>0, <1>2 DEF LookupHit
  <2>2. IsInjective(order') /\ Range(order') = Cached /\ Len(order') = Len(order)
    BY <1>0, <2>1, MovedToEnd
  <2> QED BY <1>0, <2>1, <2>2 DEF OrderInv, Cached
<1>3. ASSUME NEW o \in Ops, InsertRoom(o) PROVE OrderInv'
  <2>1. /\ query[o] \in Queries /\ query[o] \notin Range(order) /\ UNCHANGED cacheSize
        /\ order' = Append(order, query[o]) /\ cache' = [cache EXCEPT ![query[o]] = o]
        /\ Cardinality(Cached) < cacheSize
    BY <1>0, <1>3 DEF InsertRoom, TypeOK
  <2>2. /\ IsInjective(order') /\ Range(order') = Cached \cup {query[o]}
        /\ Len(order') = Len(order) + 1
    BY <1>0, <2>1, AppendOrder
  <2>3. Cached' = Cached \cup {query[o]}
    BY <2>1, CacheAssumption DEF Cached, TypeOK
  <2>4. Len(order) < cacheSize
    BY <1>0, <2>1, CountOrder
  <2>5. Len(order') <= cacheSize'
    BY <1>0, <2>1, <2>2, <2>4
  <2> QED BY <2>2, <2>3, <2>5 DEF OrderInv
<1>4. ASSUME NEW o \in Ops, NEW k \in Queries, NEW v \in Ops, InsertEvicting(o, k, v)
      PROVE  OrderInv'
  <2>1. /\ query[o] \in Queries /\ query[o] \notin Range(order) /\ UNCHANGED cacheSize
        /\ order # <<>> /\ k = Head(order) /\ order' = Append(Tail(order), query[o])
        /\ cache' = [cache EXCEPT ![k] = NoStmt, ![query[o]] = o]
    BY <1>0, <1>4 DEF InsertEvicting, TypeOK
  <2>2. /\ Tail(order) \in Seq(Queries) /\ IsInjective(Tail(order))
        /\ Range(Tail(order)) = Cached \ {k} /\ Len(Tail(order)) = Len(order) - 1
    BY <1>0, <2>1, TailOrder
  <2>3. query[o] \notin Range(Tail(order))
    BY <1>0, <2>1, <2>2
  <2>4. /\ IsInjective(order') /\ Range(order') = (Cached \ {k}) \cup {query[o]}
        /\ Len(order') = Len(Tail(order)) + 1
    <3> DEFINE d == Tail(order)
               e == query[o]
               r == Append(d, e)
    <3>1. d \in Seq(Queries) /\ IsInjective(d) /\ e \in Queries /\ e \notin Range(d)
      BY <2>1, <2>2, <2>3
    <3>2. order' = r
      BY <2>1
    <3> HIDE DEF d, e
    <3>3. IsInjective(r) /\ Range(r) = Range(d) \cup {e} /\ Len(r) = Len(d) + 1
      BY ONLY <3>1, AppendOrder
    <3> HIDE DEF r
    <3> QED BY <2>2, <3>2, <3>3 DEF d, e
  <2>5. Cached' = (Cached \ {k}) \cup {query[o]}
    BY <2>1, CacheAssumption DEF Cached, TypeOK
  <2>6. Len(order') <= cacheSize'
    BY <1>0, <2>1, <2>2, <2>4
  <2> QED BY <2>4, <2>5, <2>6 DEF OrderInv
<1>5. CASE Close
  <2>1. order' = <<>> /\ Cached' = {} /\ cacheSize' = cacheSize
    BY <1>5 DEF Close, Cached
  <2>2. IsInjective(order') /\ Range(order') = {} /\ Len(order') = 0
    BY <2>1 DEF IsInjective, Range
  <2> QED BY <1>0, <2>1, <2>2 DEF OrderInv
<1>6. ASSUME NEW o \in Ops, OnlyPc(o, "idle", "name") \/ OnlyPc(o, "name", "failed") PROVE OrderInv'
  BY <1>1, <1>6 DEF OnlyPc
<1>7. ASSUME NEW o \in Ops, NEW h \in Handles, NameFound(o, h) PROVE OrderInv'
  BY <1>1, <1>7 DEF NameFound
<1>8. ASSUME NEW o \in Ops, NEW s \in Ops, InsertDuplicate(o, s) PROVE OrderInv'
  BY <1>1, <1>8 DEF InsertDuplicate
<1>9. ASSUME NEW o \in Ops, \/ Prepare(o) \/ UseExisting(o) \/ UseTransient(o)
                            \/ ReleaseCachedStatement(o) \/ CloseTransient(o)
                            \/ DeleteRPB(o) \/ ReleaseStatementHandle(o)
      PROVE  OrderInv'
  BY <1>1, <1>9 DEF Prepare, UseExisting, UseTransient, ReleaseCachedStatement, CloseTransient,
     DeleteRPB, ReleaseStatementHandle
<1>10. CASE ConnLost \/ UNCHANGED vars
  BY <1>1, <1>10 DEF ConnLost, vars
<1> QED
  BY <1>2, <1>3, <1>4, <1>5, <1>6, <1>7, <1>8, <1>9, <1>10, LookupCases, NameCases, InsertCases
  DEF Next, Operation, ClosePreparedStatement, Quiescent

-----------------------------------------------------------------------------
LEMMA CacheStep ==
  ASSUME TypeOK, LifeInv, OrderInv, CacheInv, RefsInv, [Next]_vars
  PROVE  CacheInv'
(* A step that leaves the cache and the cached statements as they are. *)
<1>1. ASSUME UNCHANGED <<cache, query, evicted>>,
             \A s \in Ops : phase[s] = "live" /\ ~evicted[s] /\ pc[s] \in {"use", "done"}
                              => phase'[s] = "live" /\ pc'[s] \in {"use", "done"}
      PROVE  CacheInv'
  BY <1>1 DEF CacheInv, Cached, TypeOK
<1>2. ASSUME NEW o \in Ops, NEW s \in Ops, LookupHit(o, s) PROVE CacheInv'
  BY <1>1, <1>2 DEF LookupHit, TypeOK
<1>3. ASSUME NEW o \in Ops, OnlyPc(o, "idle", "name") \/ OnlyPc(o, "name", "failed")
      PROVE  CacheInv'
  BY <1>1, <1>3 DEF OnlyPc, TypeOK
<1>4. ASSUME NEW o \in Ops, NEW h \in Handles, NameFound(o, h) PROVE CacheInv'
  BY <1>1, <1>4 DEF NameFound, TypeOK
<1>5. ASSUME NEW o \in Ops, Prepare(o) PROVE CacheInv'
  BY <1>1, <1>5 DEF Prepare, Goto, TypeOK
<1>6. ASSUME NEW o \in Ops, NEW s \in Ops, InsertDuplicate(o, s) PROVE CacheInv'
  BY <1>1, <1>6 DEF InsertDuplicate, TypeOK
<1>7. ASSUME NEW o \in Ops, InsertRoom(o) PROVE CacheInv'
  <2>1. phase[o] = "live" /\ ~evicted[o] /\ query[o] \in Queries
    BY <1>7 DEF InsertRoom, LifeInv, TypeOK
  <2>2. /\ pc' = [pc EXCEPT ![o] = "use"] /\ cache' = [cache EXCEPT ![query[o]] = o]
        /\ UNCHANGED <<query, evicted, phase>>
    BY <1>7 DEF InsertRoom
  <2>3. \A q \in Queries : cache'[q] = IF q = query[o] THEN o ELSE cache[q]
    BY <2>1, <2>2 DEF TypeOK
  <2>4. \A s \in Ops : pc'[s] = IF s = o THEN "use" ELSE pc[s]
    BY <2>2 DEF TypeOK
  <2> QED BY <2>1, <2>2, <2>3, <2>4 DEF CacheInv, Cached, TypeOK
<1>8. ASSUME NEW o \in Ops, NEW k \in Queries, NEW v \in Ops, InsertEvicting(o, k, v)
      PROVE  CacheInv'
  <2>1. /\ phase[o] = "live" /\ ~evicted[o] /\ query[o] \in Queries /\ query[o] # k
        /\ v = cache[k] /\ query[v] = k /\ v # o
    BY <1>8 DEF InsertEvicting, LifeInv, TypeOK, CacheInv, Cached
  <2>2. /\ UNCHANGED query
        /\ \A q \in Queries : cache'[q] = IF q = query[o] THEN o ELSE IF q = k THEN NoStmt ELSE cache[q]
        /\ \A s \in Ops : /\ pc'[s] = IF s = o THEN "use" ELSE pc[s]
                          /\ s # v => phase'[s] = phase[s] /\ evicted'[s] = evicted[s]
    BY Zenon, <1>8, <2>1 DEF InsertEvicting, TypeOK
  <2>3. \A q \in Queries : q # k /\ cache[q] # NoStmt => cache[q] \in Ops /\ cache[q] # v
    BY <2>1 DEF CacheInv, Cached, TypeOK
  <2> QED BY <2>1, <2>2, <2>3 DEF CacheInv, Cached
<1>9. ASSUME NEW o \in Ops, UseExisting(o) \/ UseTransient(o) PROVE CacheInv'
  BY <1>1, <1>9 DEF UseExisting, UseTransient, Goto, TypeOK
<1>10. ASSUME NEW o \in Ops, ReleaseCachedStatement(o) PROVE CacheInv'
  <2>1. \A s \in Ops : ~evicted[s] => phase'[s] = phase[s]
    BY <1>10 DEF ReleaseCachedStatement, TypeOK
  <2> QED BY <1>1, <1>10, <2>1 DEF ReleaseCachedStatement, Goto, TypeOK
<1>11. ASSUME NEW o \in Ops, CloseTransient(o) PROVE CacheInv'
  <2>1. Cached = {} /\ UNCHANGED cache
    BY <1>11, CachedSize DEF CloseTransient
  <2> QED BY <2>1 DEF CacheInv, Cached
<1>12. ASSUME NEW s \in Ops, DeleteRPB(s) \/ ReleaseStatementHandle(s) PROVE CacheInv'
  BY <1>1, <1>12 DEF DeleteRPB, ReleaseStatementHandle, TypeOK
<1>13. CASE Close
  BY <1>13 DEF Close, CacheInv, Cached
<1>14. CASE ConnLost \/ UNCHANGED vars
  BY <1>1, <1>14 DEF ConnLost, vars
<1> QED
  BY <1>2, <1>3, <1>4, <1>5, <1>6, <1>7, <1>8, <1>9, <1>10, <1>11, <1>12, <1>13, <1>14,
     LookupCases, NameCases, InsertCases
  DEF Next, Operation, ClosePreparedStatement, Quiescent

-----------------------------------------------------------------------------
(* How a step changes the users of a statement.                            *)
LEMMA SameUsers ==
  ASSUME NEW s \in Ops,
         \A u \in Ops : pc'[u] \in {"dup", "use"} <=> pc[u] \in {"dup", "use"},
         \A u \in Ops : pc[u] \in {"dup", "use"} => stmt'[u] = stmt[u]
  PROVE  Users(s)' = Users(s)
BY DEF Users

(* Operation o begins to use statement s. *)
LEMMA UserJoins ==
  ASSUME TypeOK, NEW o \in Ops, NEW s \in Ops,
         pc[o] \notin {"dup", "use"}, pc'[o] \in {"dup", "use"}, stmt'[o] = s,
         \A u \in Ops \ {o} : pc'[u] = pc[u] /\ stmt'[u] = stmt[u]
  PROVE  /\ Users(s)' = Users(s) \cup {o}
         /\ Cardinality(Users(s)') = Cardinality(Users(s)) + 1
         /\ \A t \in Ops \ {s} : Users(t)' = Users(t)
<1>1. Users(s)' = Users(s) \cup {o} /\ o \notin Users(s)
  BY DEF Users
<1>2. IsFiniteSet(Users(s))
  <2>1. Users(s) \in SUBSET Ops
    BY DEF Users
  <2> QED BY <2>1, FS_Subset, CacheAssumption
<1>3. Cardinality(Users(s) \cup {o}) = Cardinality(Users(s)) + 1
  BY Zenon, <1>1, <1>2, FS_AddElement
<1>4. \A t \in Ops \ {s} : Users(t)' = Users(t)
  BY DEF Users
<1> QED BY <1>1, <1>3, <1>4

LEMMA RefsStep ==
  ASSUME TypeOK, LifeInv, OrderInv, CacheInv, RefsInv, [Next]_vars
  PROVE  RefsInv'
<1> SUFFICES ASSUME cacheSize > 0 PROVE \A s \in Ops : refs'[s] = Cardinality(Users(s)')
  <2>1. cacheSize' = cacheSize
    BY Zenon DEF Next, vars, Operation, ClosePreparedStatement, Quiescent, Lookup, NextStatementName, Prepare,
       Insert, UseExisting, ReleaseCachedStatement, UseTransient, CloseTransient, DeleteRPB,
       ReleaseStatementHandle, ConnLost, Close
  <2> QED BY <2>1 DEF RefsInv
<1>0. \A s \in Ops : refs[s] = Cardinality(Users(s))
  BY DEF RefsInv
(* A step that neither begins nor ends a use. *)
<1>1. ASSUME UNCHANGED <<refs, stmt>>,
             \A u \in Ops : pc'[u] \in {"dup", "use"} <=> pc[u] \in {"dup", "use"}
      PROVE  \A s \in Ops : refs'[s] = Cardinality(Users(s)')
  BY <1>0, <1>1, SameUsers
(* A step that begins the use of statement s. *)
<1>2. ASSUME NEW o \in Ops, NEW s \in Ops, NEW l \in {"dup", "use"},
             pc[o] \notin {"dup", "use"}, pc' = [pc EXCEPT ![o] = l],
             stmt' = [stmt EXCEPT ![o] = s], refs' = [refs EXCEPT ![s] = @ + 1]
      PROVE  \A t \in Ops : refs'[t] = Cardinality(Users(t)')
  <2>1. /\ pc'[o] \in {"dup", "use"} /\ stmt'[o] = s
        /\ \A u \in Ops \ {o} : pc'[u] = pc[u] /\ stmt'[u] = stmt[u]
    BY <1>2 DEF TypeOK
  <2>2. /\ Cardinality(Users(s)') = Cardinality(Users(s)) + 1
        /\ \A t \in Ops \ {s} : Users(t)' = Users(t)
    BY <1>2, <2>1, UserJoins
  <2>3. refs'[s] = refs[s] + 1 /\ \A t \in Ops \ {s} : refs'[t] = refs[t]
    BY <1>2 DEF TypeOK
  <2> QED BY <1>0, <2>2, <2>3
<1>3. ASSUME NEW o \in Ops, NEW s \in Ops, LookupHit(o, s)
      PROVE  \A t \in Ops : refs'[t] = Cardinality(Users(t)')
  BY Zenon, <1>2, <1>3 DEF LookupHit
<1>4. ASSUME NEW o \in Ops, OnlyPc(o, "idle", "name") \/ OnlyPc(o, "name", "failed")
      PROVE  \A t \in Ops : refs'[t] = Cardinality(Users(t)')
  BY <1>1, <1>4 DEF OnlyPc, TypeOK
<1>5. ASSUME NEW o \in Ops, NEW h \in Handles, NameFound(o, h)
      PROVE  \A t \in Ops : refs'[t] = Cardinality(Users(t)')
  BY <1>1, <1>5 DEF NameFound, TypeOK
<1>6. ASSUME NEW o \in Ops, Prepare(o) PROVE \A t \in Ops : refs'[t] = Cardinality(Users(t)')
  BY <1>1, <1>6 DEF Prepare, Goto, TypeOK
<1>7. ASSUME NEW o \in Ops, NEW s \in Ops, InsertDuplicate(o, s)
      PROVE  \A t \in Ops : refs'[t] = Cardinality(Users(t)')
  BY Zenon, <1>2, <1>7 DEF InsertDuplicate
(* Nobody uses a statement before it is in the cache. *)
<1>8. ASSUME NEW o \in Ops, pc[o] = "insert" PROVE refs[o] = 0
  <2>1. Users(o) = {}
    BY <1>8 DEF Users, LifeInv
  <2> QED BY <1>0, <2>1, FS_EmptySet
<1>9. ASSUME NEW o \in Ops, InsertRoom(o) PROVE \A t \in Ops : refs'[t] = Cardinality(Users(t)')
  <2>1. refs[o] = 0 /\ refs' = [refs EXCEPT ![o] = 1]
    BY <1>8, <1>9 DEF InsertRoom
  <2>2. refs' = [refs EXCEPT ![o] = @ + 1]
    BY <2>1 DEF TypeOK
  <2> QED BY Zenon, <1>2, <1>9, <2>2 DEF InsertRoom
<1>10. ASSUME NEW o \in Ops, NEW k \in Queries, NEW v \in Ops, InsertEvicting(o, k, v)
       PROVE  \A t \in Ops : refs'[t] = Cardinality(Users(t)')
  <2>1. refs[o] = 0 /\ refs' = [refs EXCEPT ![o] = 1]
    BY <1>8, <1>10 DEF InsertEvicting
  <2>2. refs' = [refs EXCEPT ![o] = @ + 1]
    BY <2>1 DEF TypeOK
  <2> QED BY Zenon, <1>2, <1>10, <2>2 DEF InsertEvicting
<1>11. ASSUME NEW o \in Ops, UseExisting(o) PROVE \A t \in Ops : refs'[t] = Cardinality(Users(t)')
  BY <1>1, <1>11 DEF UseExisting, Goto, TypeOK
<1>12. ASSUME NEW o \in Ops, ReleaseCachedStatement(o)
       PROVE  \A t \in Ops : refs'[t] = Cardinality(Users(t)')
  <2>1. PICK s \in Ops : s = stmt[o] /\ pc[o] = "use"
    BY <1>12 DEF ReleaseCachedStatement, LifeInv
  <2>2. /\ Users(s)' = Users(s) \ {o} /\ o \in Users(s)
        /\ \A t \in Ops \ {s} : Users(t)' = Users(t)
    BY <1>12, <2>1 DEF ReleaseCachedStatement, Goto, Users, TypeOK
  <2>3. /\ IsFiniteSet(Users(s)) /\ refs[s] = Cardinality(Users(s))
        /\ refs[s] \in Nat /\ refs[s] > 0
    BY <2>1, <2>2, UsersCount DEF TypeOK
  <2>4. Cardinality(Users(s)') = Cardinality(Users(s)) - 1
    BY <2>2, <2>3, FS_RemoveElement
  <2>5. refs'[s] = refs[s] - 1 /\ \A t \in Ops \ {s} : refs'[t] = refs[t]
    BY <1>0, <1>12, <2>1, <2>3 DEF ReleaseCachedStatement, TypeOK
  <2>6. refs'[s] = Cardinality(Users(s)')
    BY <2>3, <2>4, <2>5
  <2>7. \A t \in Ops \ {s} : refs'[t] = Cardinality(Users(t)')
    BY <1>0, <2>2, <2>5
  <2> QED BY <2>6, <2>7
<1>13. ASSUME NEW s \in Ops, DeleteRPB(s) \/ ReleaseStatementHandle(s)
       PROVE  \A t \in Ops : refs'[t] = Cardinality(Users(t)')
  BY <1>1, <1>13 DEF DeleteRPB, ReleaseStatementHandle
<1>14. CASE ConnLost \/ Close \/ UNCHANGED vars
  BY <1>1, <1>14 DEF ConnLost, Close, vars
<1>15. ASSUME NEW o \in Ops PROVE ~UseTransient(o) /\ ~CloseTransient(o)
  BY CacheAssumption DEF UseTransient, CloseTransient, TypeOK
<1> QED
  BY Zenon, <1>3, <1>4, <1>5, <1>6, <1>7, <1>9, <1>10, <1>11, <1>12, <1>13, <1>14, <1>15,
     LookupCases, NameCases, InsertCases
  DEF Next, Operation, ClosePreparedStatement, Quiescent

-----------------------------------------------------------------------------
LEMMA KeepStep ==
  ASSUME TypeOK, LifeInv, OrderInv, CacheInv, RefsInv, KeepInv, [Next]_vars
  PROVE  KeepInv'
(* A step that leaves the users, the cache and the evicted statements as    *)
(* they are, and makes no statement live.                                  *)
<1>1. ASSUME UNCHANGED <<cache, query, evicted, cacheSize, stmt>>, valid' => valid,
             \A u \in Ops : pc'[u] \in {"dup", "use"} <=> pc[u] \in {"dup", "use"},
             \A s \in Ops : phase'[s] = "live" /\ pc'[s] \in {"use", "done"} =>
                              phase[s] = "live" /\ pc[s] \in {"use", "done"} /\ pc'[s] = pc[s]
      PROVE  KeepInv'
  <2>1. \A s \in Ops : Users(s)' = Users(s)
    BY <1>1, SameUsers
  <2> QED BY <1>1, <2>1 DEF KeepInv
<1>2. ASSUME NEW o \in Ops, NEW s \in Ops, LookupHit(o, s) PROVE KeepInv'
  <2>1. /\ UNCHANGED <<query, evicted, phase, cache, valid, cacheSize>>
        /\ pc[o] = "idle" /\ pc'[o] = "use" /\ stmt'[o] = s
        /\ \A u \in Ops \ {o} : pc'[u] = pc[u] /\ stmt'[u] = stmt[u]
    BY <1>2 DEF LookupHit, TypeOK
  <2>2. /\ Users(s)' = Users(s) \cup {o}
        /\ \A t \in Ops \ {s} : Users(t)' = Users(t)
    BY <2>1, UserJoins
  <2>3. phase[o] = "none"
    BY <2>1 DEF LifeInv
  <2> QED BY <2>1, <2>2, <2>3 DEF KeepInv
<1>3. ASSUME NEW o \in Ops, OnlyPc(o, "idle", "name") \/ OnlyPc(o, "name", "failed")
      PROVE  KeepInv'
  BY <1>1, <1>3 DEF OnlyPc, TypeOK
<1>4. ASSUME NEW o \in Ops, NEW h \in Handles, NameFound(o, h) PROVE KeepInv'
  BY <1>1, <1>4 DEF NameFound, TypeOK
<1>5. ASSUME NEW o \in Ops, Prepare(o) PROVE KeepInv'
  BY <1>1, <1>5 DEF Prepare, Goto, TypeOK
<1>6. ASSUME NEW o \in Ops, NEW s \in Ops, InsertDuplicate(o, s) PROVE KeepInv'
  <2>1. /\ UNCHANGED <<query, evicted, cache, valid, cacheSize>>
        /\ pc[o] = "insert" /\ pc'[o] = "dup" /\ stmt'[o] = s /\ phase'[o] = "closing"
        /\ \A u \in Ops \ {o} : pc'[u] = pc[u] /\ stmt'[u] = stmt[u] /\ phase'[u] = phase[u]
    BY <1>6 DEF InsertDuplicate, TypeOK
  <2>2. /\ Users(s)' = Users(s) \cup {o}
        /\ \A t \in Ops \ {s} : Users(t)' = Users(t)
    BY <2>1, UserJoins
  <2> QED BY <2>1, <2>2 DEF KeepInv
<1>7. ASSUME NEW o \in Ops, InsertRoom(o) PROVE KeepInv'
  <2>1. /\ UNCHANGED <<query, evicted, valid, cacheSize, phase>> /\ query[o] \in Queries
        /\ pc[o] = "insert" /\ pc'[o] = "use" /\ stmt'[o] = o /\ cacheSize > 0
        /\ \A u \in Ops \ {o} : pc'[u] = pc[u] /\ stmt'[u] = stmt[u]
        /\ \A q \in Queries : cache'[q] = IF q = query[o] THEN o ELSE cache[q]
        /\ cache[query[o]] = NoStmt
    BY <1>7 DEF InsertRoom, Cached, TypeOK
  <2>2. /\ Users(o)' = Users(o) \cup {o}
        /\ \A t \in Ops \ {o} : Users(t)' = Users(t)
    BY <2>1, UserJoins
  <2>3. \A s \in Ops \ {o} : cache[query[s]] = s => cache'[query[s]] = s
    BY <2>1, CacheAssumption DEF TypeOK
  <2>4. cache'[query[o]] = o
    BY <2>1
  <2> QED BY <2>1, <2>2, <2>3, <2>4, CacheAssumption DEF KeepInv
<1>8. ASSUME NEW o \in Ops, NEW k \in Queries, NEW v \in Ops, InsertEvicting(o, k, v)
      PROVE  KeepInv'
  <2>1. /\ UNCHANGED <<query, valid, cacheSize>> /\ query[o] \in Queries
        /\ pc[o] = "insert" /\ pc'[o] = "use" /\ stmt'[o] = o /\ cacheSize > 0
        /\ \A u \in Ops \ {o} : pc'[u] = pc[u] /\ stmt'[u] = stmt[u]
        /\ cache[query[o]] = NoStmt
    BY <1>8 DEF InsertEvicting, Cached, TypeOK
  <2>2. /\ Users(o)' = Users(o) \cup {o}
        /\ \A t \in Ops \ {o} : Users(t)' = Users(t)
    BY <2>1, UserJoins
  <2>3. /\ v = cache[k] /\ query[v] = k /\ v # o /\ query[o] # k
    BY <1>8 DEF InsertEvicting, CacheInv, Cached, LifeInv, TypeOK
  <2>4. /\ \A q \in Queries : cache'[q] = IF q = query[o] THEN o ELSE IF q = k THEN NoStmt ELSE cache[q]
        /\ evicted'[v] = TRUE
        /\ phase'[v] = "live" => refs[v] # 0
        /\ \A s \in Ops \ {v} : phase'[s] = phase[s] /\ evicted'[s] = evicted[s]
    BY Zenon, <1>8, <2>3 DEF InsertEvicting, TypeOK
  (* The evicted statement stays live for its users. *)
  <2>5. phase'[v] = "live" => Users(v)' # {}
    <3>1. refs[v] = Cardinality(Users(v)) /\ Users(v)' = Users(v)
      BY <2>1, <2>2, <2>3 DEF RefsInv
    <3> QED BY <2>4, <3>1, FS_EmptySet
  <2>6. \A s \in Ops \ {o, v} : cache[query[s]] = s => cache'[query[s]] = s
    <3> SUFFICES ASSUME NEW s \in Ops \ {o, v}, cache[query[s]] = s PROVE cache'[query[s]] = s
      OBVIOUS
    <3>1. query[s] # query[o] /\ query[s] # k /\ query[s] \in Queries
      BY <2>1, <2>3, CacheAssumption DEF TypeOK
    <3> QED BY <2>4, <3>1
  <2>7. cache'[query[o]] = o
    BY <2>1, <2>4
  <2> QED BY <2>1, <2>2, <2>3, <2>4, <2>5, <2>6, <2>7, CacheAssumption DEF KeepInv
<1>9. ASSUME NEW o \in Ops, UseExisting(o) PROVE KeepInv'
  <2>1. /\ pc[o] = "dup" /\ phase[o] = "freed" /\ pc'[o] = "use" /\ \A u \in Ops \ {o} : pc'[u] = pc[u]
        /\ UNCHANGED <<cache, query, evicted, cacheSize, stmt, valid, phase>>
    BY <1>9 DEF UseExisting, Goto, TypeOK
  <2> QED BY <1>1, <2>1
<1>10. ASSUME NEW o \in Ops, UseTransient(o) PROVE KeepInv'
  <2>1. /\ UNCHANGED <<query, evicted, phase, cache, valid, cacheSize>> /\ cacheSize = 0
        /\ pc[o] = "insert" /\ pc'[o] = "use" /\ stmt'[o] = o
        /\ \A u \in Ops \ {o} : pc'[u] = pc[u] /\ stmt'[u] = stmt[u]
    BY <1>10 DEF UseTransient, Goto, TypeOK
  <2>2. /\ Users(o)' = Users(o) \cup {o}
        /\ \A t \in Ops \ {o} : Users(t)' = Users(t)
    BY <2>1, UserJoins
  <2> QED BY <2>1, <2>2 DEF KeepInv
<1>11. ASSUME NEW o \in Ops, ReleaseCachedStatement(o) PROVE KeepInv'
  <2>1. PICK s \in Ops : s = stmt[o] /\ pc[o] = "use" /\ cacheSize > 0
    BY <1>11 DEF ReleaseCachedStatement, LifeInv
  <2>2. /\ UNCHANGED <<query, evicted, stmt, cache, valid, cacheSize>>
        /\ pc'[o] = "done" /\ \A u \in Ops \ {o} : pc'[u] = pc[u]
        /\ \A t \in Ops : phase'[t] = "live" => phase[t] = "live"
        /\ evicted[s] /\ refs[s] = 1 => phase'[s] # "live"
    BY <1>11, <2>1 DEF ReleaseCachedStatement, Goto, TypeOK
  <2>3. /\ Users(s)' = Users(s) \ {o} /\ o \in Users(s)
        /\ \A t \in Ops \ {s} : Users(t)' = Users(t)
    BY <2>1, <2>2 DEF Users
  (* An evicted statement that stays live has another user. *)
  <2>4. evicted[s] /\ phase'[s] = "live" => Users(s)' # {}
    <3> SUFFICES ASSUME evicted[s], phase'[s] = "live", Users(s) = {o} PROVE FALSE
      BY <2>3
    <3>1. refs[s] = 1
      BY <2>1, UsersCount, FS_Singleton
    <3> QED BY <2>2, <3>1
  <2> QED BY <2>1, <2>2, <2>3, <2>4 DEF KeepInv
<1>12. ASSUME NEW o \in Ops, CloseTransient(o) PROVE KeepInv'
  <2>1. /\ UNCHANGED <<query, evicted, stmt, cache, valid, cacheSize>> /\ cacheSize = 0
        /\ pc[o] = "use" /\ pc'[o] = "done" /\ stmt[o] = o /\ phase'[o] = "closing"
        /\ \A u \in Ops \ {o} : pc'[u] = pc[u] /\ phase'[u] = phase[u]
    BY <1>12 DEF CloseTransient, Goto, LifeInv, TypeOK
  <2>2. \A t \in Ops \ {o} : Users(t)' = Users(t)
    BY <2>1 DEF Users
  <2> QED BY <2>1, <2>2 DEF KeepInv
<1>13. ASSUME NEW s \in Ops, DeleteRPB(s) \/ ReleaseStatementHandle(s) PROVE KeepInv'
  BY <1>1, <1>13 DEF DeleteRPB, ReleaseStatementHandle, TypeOK
<1>14. CASE Close
  <2>1. \A s \in Ops : Users(s)' = Users(s)
    BY <1>14, SameUsers DEF Close
  <2> QED BY <1>14, <2>1 DEF Close, KeepInv
<1>15. CASE ConnLost \/ UNCHANGED vars
  BY <1>1, <1>15 DEF ConnLost, vars
<1> QED
  BY Zenon, <1>2, <1>3, <1>4, <1>5, <1>6, <1>7, <1>8, <1>9, <1>10, <1>11, <1>12, <1>13, <1>14, <1>15,
     LookupCases, NameCases, InsertCases
  DEF Next, Operation, ClosePreparedStatement, Quiescent

-----------------------------------------------------------------------------
(* driver.go and sql.go: what the cache, its order, the counters, the ids  *)
(* and the RPBs on the server have to do with each other, in every state.  *)
THEOREM StatementCacheInvariant == Spec => []IInv
<1>1. Init => IInv
  <2> SUFFICES ASSUME Init PROVE IInv
    OBVIOUS
  <2>1. TypeOK /\ cacheSize \in Nat
    BY CacheAssumption DEF Init, TypeOK
  <2>2. LifeInv /\ RpbInv /\ CacheInv /\ KeepInv
    BY DEF Init, LifeInv, RpbInv, CacheInv, KeepInv, Cached
  <2>3. HandleOwnership
    BY DEF Init, HandleOwnership, Open
  <2>4. OrderInv
    BY <2>1 DEF Init, OrderInv, IsInjective, Range, Cached
  <2>5. RefsInv
    <3>1. \A s \in Ops : Users(s) = {} /\ refs[s] = 0
      BY DEF Init, Users
    <3> QED BY <3>1, FS_EmptySet DEF RefsInv
  <2> QED BY <2>1, <2>2, <2>3, <2>4, <2>5 DEF IInv
<1>2. IInv /\ [Next]_vars => IInv'
  BY TypeStep, LifeStep, HandleStep, RpbStep, OrderStep, CacheStep, RefsStep, KeepStep DEF IInv
<1> QED BY <1>1, <1>2, PTL DEF Spec

(* sql.go nextStatementName and releaseStatementHandle: every id is owned  *)
(* by exactly one open statement, and none is lost.                        *)
THEOREM IdsOwned == Spec => []HandleOwnership
<1>1. IInv => HandleOwnership
  BY DEF IInv
<1> QED BY <1>1, StatementCacheInvariant, PTL

(* driver.go refs and evicted: an operation runs its own SQL, whatever the *)
(* other operations do to the cache meanwhile.                             *)
THEOREM OwnStatement == Spec => []UsesOwnStatement
<1>1. IInv => UsesOwnStatement
  BY DEF IInv, LifeInv, RpbInv, UsesOwnStatement
<1> QED BY <1>1, StatementCacheInvariant, PTL

(* driver.go statementCache, statementCacheOrder and refs: the order is    *)
(* the cache, the counter is the number of users, and a statement that     *)
(* nobody can reach any more is being closed.                              *)
THEOREM CacheInStep == Spec => []CacheConsistent
<1>1. IInv => CacheConsistent
  <2> SUFFICES ASSUME IInv PROVE CacheConsistent
    OBVIOUS
  <2>1. cacheSize \in Nat /\ \A s \in Ops : query[s] \in Queries
    BY CacheAssumption DEF IInv, TypeOK
  <2>2. \A s \in Ops : cacheSize > 0 => refs[s] = Cardinality(Users(s))
    BY DEF IInv, RefsInv
  <2>3. ASSUME NEW s \in Ops, valid, phase[s] = "live", pc[s] \notin {"prepare", "insert"}
        PROVE  s \in {cache[q] : q \in Queries} \/ Users(s) # {}
    <3>1. pc[s] \in {"use", "done"} /\ stmt[s] = s
      BY <2>3 DEF IInv, LifeInv
    <3>2. CASE cacheSize = 0
      <4>1. pc[s] = "use"
        BY <2>3, <3>1, <3>2 DEF IInv, KeepInv
      <4> QED BY <3>1, <4>1 DEF Users
    <3>3. CASE cacheSize > 0
      BY <2>1, <2>3, <3>1, <3>3 DEF IInv, KeepInv
    <3> QED BY <2>1, <3>2, <3>3
  <2>4. /\ IsInjective(order) /\ Range(order) = Cached /\ Len(order) <= cacheSize
        /\ \A q \in Cached : query[cache[q]] = q /\ phase[cache[q]] = "live" /\ ~evicted[cache[q]]
    BY DEF IInv, OrderInv, CacheInv
  <2>5. TypeOK
    BY DEF IInv
  <2> QED BY <2>2, <2>3, <2>4, <2>5 DEF CacheConsistent
<1> QED BY <1>1, StatementCacheInvariant, PTL
=============================================================================
