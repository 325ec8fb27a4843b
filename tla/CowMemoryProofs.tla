-------------------------- MODULE CowMemoryProofs --------------------------
(***************************************************************************)
(* For any processes, pages and sizes: IInv is an inductive invariant of   *)
(* CowMemory.  It implies SharingSafe for any number of CPUs, and          *)
(* MemoryExact for one.  Its steps keep processes apart                    *)
(* (IsolationFromUserStores), and fork copies (ForkCopies), for any number *)
(* of CPUs.                                                                *)
(***************************************************************************)
EXTENDS CowMemory, FiniteSetTheorems, WellFoundedInduction, TLAPS

(***************************************************************************)
(* Sizes in bytes and in pages.                                            *)
(***************************************************************************)
LEMMA Scale ==
  ASSUME NEW a \in Int, NEW b \in Int, a <= b
  PROVE  a * PGSIZE <= b * PGSIZE
<1>1. PGSIZE \in Nat /\ b - a \in Nat
  BY ConstantAssumptions
<1>2. (b - a) * PGSIZE >= 0
  BY <1>1
<1>3. (b - a) * PGSIZE = b * PGSIZE - a * PGSIZE
  BY <1>1
<1>4. a * PGSIZE \in Int /\ b * PGSIZE \in Int
  BY <1>1
<1> QED BY <1>2, <1>3, <1>4

\* A page lies below PGROUNDUP of a size when its first byte lies below the size.
LEMMA RoundUp ==
  ASSUME NEW n \in Nat, NEW v \in Nat
  PROVE  /\ PgRoundUp(n) \in Nat
         /\ v * PGSIZE < n <=> v < PgRoundUp(n)
<1> DEFINE q == PgRoundUp(n)
<1>1. PGSIZE \in Nat /\ PGSIZE > 0 /\ n + PGSIZE - 1 \in Nat
  BY ConstantAssumptions
<1>2. \A m \in Nat : /\ m \div PGSIZE \in Nat
                     /\ PGSIZE * (m \div PGSIZE) <= m
                     /\ m < PGSIZE * (m \div PGSIZE) + PGSIZE
  BY <1>1
<1>3. /\ q \in Nat
      /\ q * PGSIZE <= n + PGSIZE - 1
      /\ n + PGSIZE - 1 < q * PGSIZE + PGSIZE
  BY <1>1, <1>2 DEF PgRoundUp
<1> HIDE DEF q
<1>4. q * PGSIZE \in Nat /\ v * PGSIZE \in Nat
  BY <1>1, <1>3
<1>5. CASE v < q
  <2>1. v * PGSIZE <= (q - 1) * PGSIZE
    BY <1>3, <1>5, Scale
  <2>2. (q - 1) * PGSIZE = q * PGSIZE - PGSIZE
    BY <1>1, <1>3
  <2> QED BY <1>1, <1>3, <1>4, <1>5, <2>1, <2>2 DEF q
<1>6. CASE q <= v
  <2>1. q * PGSIZE <= v * PGSIZE
    BY <1>3, <1>6, Scale
  <2> QED BY <1>1, <1>3, <1>4, <1>6, <2>1 DEF q
<1> QED BY <1>3, <1>5, <1>6 DEF q

LEMMA RoundUpMonotone ==
  ASSUME NEW m \in Nat, NEW n \in Nat, m <= n
  PROVE  PgRoundUp(m) <= PgRoundUp(n)
<1>1. PgRoundUp(m) \in Nat /\ PgRoundUp(n) \in Nat
  BY RoundUp
<1>2. ~ PgRoundUp(n) * PGSIZE < n
  BY <1>1, RoundUp
<1>3. PgRoundUp(n) * PGSIZE \in Int
  BY <1>1, ConstantAssumptions
<1>4. ~ PgRoundUp(n) * PGSIZE < m
  BY <1>2, <1>3
<1> QED BY <1>1, <1>4, RoundUp

\* A size of user memory has at most UserTop pages; whole pages are exact.
LEMMA RoundUpLimit ==
  ASSUME NEW n \in 0 .. UserTop * PGSIZE
  PROVE  n \in Nat /\ PgRoundUp(n) \in 0 .. UserTop
<1>1. UserTop \in Nat /\ UserTop * PGSIZE \in Nat
  BY ConstantAssumptions
<1>2. n \in Nat /\ ~ UserTop * PGSIZE < n
  BY <1>1
<1> QED BY <1>1, <1>2, RoundUp

LEMMA RoundUpExact ==
  ASSUME NEW k \in Nat
  PROVE  k * PGSIZE \in Nat /\ PgRoundUp(k * PGSIZE) = k
<1>1. k * PGSIZE \in Nat /\ PGSIZE \in Nat \ {0}
  BY ConstantAssumptions
<1>2. PgRoundUp(k * PGSIZE) \in Nat
  BY <1>1, RoundUp
<1>3. ~ k < PgRoundUp(k * PGSIZE)
  BY <1>1, RoundUp
<1>4. CASE PgRoundUp(k * PGSIZE) < k
  <2> DEFINE q == PgRoundUp(k * PGSIZE)
  <2>1. (q + 1) * PGSIZE <= k * PGSIZE
    BY <1>2, <1>4, Scale
  <2>2. (q + 1) * PGSIZE = q * PGSIZE + PGSIZE /\ q * PGSIZE \in Int
    BY <1>1, <1>2
  <2>3. q * PGSIZE < k * PGSIZE
    BY <1>1, <2>1, <2>2
  <2>4. q < PgRoundUp(k * PGSIZE)
    BY <1>1, <1>2, <2>3, RoundUp
  <2> QED BY <1>2, <2>4
<1> QED BY <1>1, <1>2, <1>3, <1>4

\* There is a lowest page in any set of them.
LEMMA LowestIn ==
  ASSUME NEW S \in SUBSET Vpns, S # {}
  PROVE  Lowest(S) \in S
<1>1. Vpns \subseteq Nat
  BY ConstantAssumptions DEF Vpns
<1> DEFINE Less == OpToRel(<, Nat)
<1>2. \A x, y \in Nat : <<y, x>> \in Less <=> y < x
  BY DEF OpToRel
<1>3. IsWellFoundedOn(Less, Nat)
  BY NatLessThanWellFounded, Zenon
<1> HIDE DEF Less
<1>4. \E x \in S : \A y \in S : ~ (<<y, x>> \in Less)
  BY <1>1, <1>3, WFMin
<1>5. PICK x \in S : \A y \in S : ~ (<<y, x>> \in Less)
  BY <1>4
<1>6. \A y \in S : x <= y
  <2> TAKE y \in S
  <2>1. ~ (y < x)
    BY <1>1, <1>2, <1>5
  <2> QED BY <1>1, <2>1
<1> QED BY <1>6 DEF Lowest

-----------------------------------------------------------------------------
(***************************************************************************)
(* Counting the entries that refer to a page.  A step changes one page     *)
(* table: one entry of it, or all of it.                                   *)
(***************************************************************************)
Tables == [Procs -> [Vpns -> Pte]]
Row(t, pa) == {v \in Vpns : t[v].pa = pa}
Count(F, pa) == Cardinality(TableRefs(F, pa))
One(b) == IF b THEN 1 ELSE 0

LEMMA Finite ==
  ASSUME NEW pa
  PROVE  /\ IsFiniteSet(Procs) /\ IsFiniteSet(Vpns) /\ IsFiniteSet(Procs \X Vpns)
         /\ \A F : IsFiniteSet(TableRefs(F, pa)) /\ Count(F, pa) \in Nat
         /\ \A t : IsFiniteSet(Row(t, pa)) /\ Cardinality(Row(t, pa)) \in Nat
<1>1. IsFiniteSet(Procs) /\ IsFiniteSet(Vpns)
  BY ConstantAssumptions, FS_Interval DEF Vpns
<1>2. IsFiniteSet(Procs \X Vpns)
  BY <1>1, FS_Product
<1>3. ASSUME NEW F PROVE IsFiniteSet(TableRefs(F, pa)) /\ Count(F, pa) \in Nat
  <2>1. TableRefs(F, pa) \in SUBSET (Procs \X Vpns)
    BY DEF TableRefs
  <2> QED BY <1>2, <2>1, FS_Subset, FS_CardinalityType DEF Count
<1>4. ASSUME NEW t PROVE IsFiniteSet(Row(t, pa)) /\ Cardinality(Row(t, pa)) \in Nat
  <2>1. Row(t, pa) \in SUBSET Vpns
    BY DEF Row
  <2> QED BY <1>1, <2>1, FS_Subset, FS_CardinalityType
<1> QED BY <1>1, <1>2, <1>3, <1>4

(* The references of one table, and of all the others.                     *)
Rest(F, p, pa) == {r \in Procs \X Vpns : r[1] # p /\ F[r[1]][r[2]].pa = pa}

LEMMA CountSplit ==
  ASSUME NEW F \in Tables, NEW p \in Procs, NEW pa
  PROVE  /\ IsFiniteSet(Rest(F, p, pa)) /\ Cardinality(Rest(F, p, pa)) \in Nat
         /\ Count(F, pa) = Cardinality(Rest(F, p, pa)) + Cardinality(Row(F[p], pa))
<1> DEFINE R == Rest(F, p, pa)
           S == Row(F[p], pa)
           T == {r \in Procs \X Vpns : r[1] = p /\ F[r[1]][r[2]].pa = pa}
           f == [v \in S |-> <<p, v>>]
<1>1. IsFiniteSet(S)
  BY Finite
<1>2. f \in Bijection(S, T)
  <2>1. f \in [S -> T]
    BY DEF Row
  <2>2. \A u, v \in S : f[u] = f[v] => u = v
    OBVIOUS
  <2>3. \A r \in T : \E v \in S : f[v] = r
    BY DEF Row
  <2> QED BY <2>1, <2>2, <2>3 DEF Bijection, Injection, Surjection, IsInjective
<1>3. IsFiniteSet(T) /\ Cardinality(T) = Cardinality(S)
  BY <1>1, <1>2, FS_Bijection DEF ExistsBijection
<1>4. IsFiniteSet(R) /\ Cardinality(R) \in Nat
  <2>1. R \in SUBSET (Procs \X Vpns)
    BY DEF Rest
  <2> QED BY <2>1, Finite, FS_Subset, FS_CardinalityType
<1>5. R \cap T = {} /\ R \cup T = TableRefs(F, pa)
  BY DEF Rest, TableRefs
<1>6. Cardinality(R \cup T) = Cardinality(R) + Cardinality(T) - Cardinality(R \cap T)
  BY <1>3, <1>4, FS_Union
<1>7. Cardinality(R \cap T) = 0 /\ Cardinality(T) \in Nat
  BY <1>3, <1>5, FS_EmptySet, FS_CardinalityType
<1>8. Count(F, pa) = Cardinality(R \cup T)
  BY <1>5 DEF Count
<1> HIDE DEF R, S, T
<1>9. Count(F, pa) = Cardinality(R) + Cardinality(S)
  BY <1>3, <1>4, <1>6, <1>7, <1>8
<1> QED BY <1>4, <1>9 DEF R, S

\* A page table replaced by another.
LEMMA CountRow ==
  ASSUME NEW F \in Tables, NEW p \in Procs, NEW t \in [Vpns -> Pte], NEW pa
  PROVE  /\ Count([F EXCEPT ![p] = t], pa) =
              Count(F, pa) - Cardinality(Row(F[p], pa)) + Cardinality(Row(t, pa))
         /\ Cardinality(Row(F[p], pa)) <= Count(F, pa)
<1> DEFINE G == [F EXCEPT ![p] = t]
<1>1. G \in Tables /\ G[p] = t
  BY DEF Tables
<1>2. Rest(G, p, pa) = Rest(F, p, pa)
  BY DEF Rest, Tables
<1>3. /\ Count(G, pa) = Cardinality(Rest(G, p, pa)) + Cardinality(Row(G[p], pa))
      /\ Count(F, pa) = Cardinality(Rest(F, p, pa)) + Cardinality(Row(F[p], pa))
      /\ Cardinality(Rest(F, p, pa)) \in Nat
  BY <1>1, CountSplit
<1>4. Cardinality(Row(F[p], pa)) \in Nat /\ Cardinality(Row(t, pa)) \in Nat
  BY Finite
<1> QED BY <1>1, <1>2, <1>3, <1>4

\* One entry written.
LEMMA CountEntry ==
  ASSUME NEW F \in Tables, NEW p \in Procs, NEW v \in Vpns, NEW e \in Pte, NEW pa
  PROVE  /\ Count([F EXCEPT ![p][v] = e], pa) =
              Count(F, pa) - One(F[p][v].pa = pa) + One(e.pa = pa)
         /\ One(F[p][v].pa = pa) <= Count(F, pa)
<1> DEFINE t == [F[p] EXCEPT ![v] = e]
           S == Row(F[p], pa)
           Z == S \ {v}
<1>1. t \in [Vpns -> Pte] /\ F[p] \in [Vpns -> Pte]
  BY DEF Tables
<1>2. [F EXCEPT ![p][v] = e] = [F EXCEPT ![p] = t]
  BY DEF Tables
<1>3. Row(t, pa) = IF e.pa = pa THEN Z \cup {v} ELSE Z
  BY <1>1 DEF Row
<1>4. IsFiniteSet(S) /\ Cardinality(S) \in Nat
  BY Finite
<1>5. IsFiniteSet(Z) /\ Cardinality(Z) = IF v \in S THEN Cardinality(S) - 1 ELSE Cardinality(S)
  BY <1>4, FS_RemoveElement
<1>6. Cardinality(Z \cup {v}) = IF v \in Z THEN Cardinality(Z) ELSE Cardinality(Z) + 1
  BY <1>5, FS_AddElement
<1>7. v \in S <=> F[p][v].pa = pa
  BY DEF Row
<1>8. Cardinality(Row(t, pa)) = Cardinality(S) - One(F[p][v].pa = pa) + One(e.pa = pa)
  BY <1>3, <1>4, <1>5, <1>6, <1>7 DEF One
<1>9. /\ Count([F EXCEPT ![p] = t], pa) = Count(F, pa) - Cardinality(S) + Cardinality(Row(t, pa))
      /\ Cardinality(S) <= Count(F, pa) /\ Count(F, pa) \in Nat
  BY <1>1, CountRow, Finite
<1>10. Cardinality(Z) \in Nat
  BY <1>5, FS_CardinalityType
<1>11. One(F[p][v].pa = pa) <= Cardinality(S)
  BY <1>4, <1>5, <1>7, <1>10 DEF One
<1> QED BY <1>2, <1>4, <1>8, <1>9, <1>11 DEF One

LEMMA CountEmpty ==
  ASSUME NEW pa \in AllPages
  PROVE  Cardinality(Row(EmptyPgdir, pa)) = 0
<1>1. Row(EmptyPgdir, pa) = {}
  BY ConstantAssumptions DEF Row, EmptyPgdir, NoPte
<1> QED BY <1>1, FS_EmptySet

\* References to a page with one reference are the same.
LEMMA Sole ==
  ASSUME NEW pa, UserCount(pa) = 1
  PROVE  /\ \A p \in Procs, v \in Vpns : pgdir[p][v].pa = pa =>
              UserRefs(pa) = {<<p, v>>} /\ NewRefs(pa) = {}
         /\ \A p \in Procs, v \in Vpns : npgdir[p][v].pa = pa =>
              NewRefs(pa) = {<<p, v>>} /\ UserRefs(pa) = {}
<1> DEFINE U == UserRefs(pa)
           N == NewRefs(pa)
<1>1. /\ IsFiniteSet(U) /\ IsFiniteSet(N) /\ Cardinality(U) \in Nat /\ Cardinality(N) \in Nat
      /\ Cardinality(U) + Cardinality(N) = 1
  BY Finite DEF UserRefs, NewRefs, Count, UserCount
<1>2. /\ Cardinality(U) = 0 <=> U = {}
      /\ Cardinality(N) = 0 <=> N = {}
      /\ Cardinality(U) = 1 <=> \E x : U = {x}
      /\ Cardinality(N) = 1 <=> \E x : N = {x}
  BY <1>1, FS_EmptySet, FS_Singleton
<1>3. \A p \in Procs, v \in Vpns : /\ pgdir[p][v].pa = pa <=> <<p, v>> \in U
                                   /\ npgdir[p][v].pa = pa <=> <<p, v>> \in N
  BY DEF UserRefs, NewRefs, TableRefs
<1> HIDE DEF U, N
<1>4. U # {} => (\E x : U = {x}) /\ N = {}
  BY <1>1, <1>2
<1>5. N # {} => (\E x : N = {x}) /\ U = {}
  BY <1>1, <1>2
<1>6. ASSUME NEW p \in Procs, NEW v \in Vpns, pgdir[p][v].pa = pa
      PROVE  U = {<<p, v>>} /\ N = {}
  BY <1>3, <1>4, <1>6
<1>7. ASSUME NEW p \in Procs, NEW v \in Vpns, npgdir[p][v].pa = pa
      PROVE  N = {<<p, v>>} /\ U = {}
  BY <1>3, <1>5, <1>7
<1> QED BY <1>6, <1>7 DEF U, N

-----------------------------------------------------------------------------
(***************************************************************************)
(* A reference cowuvm has not counted is a second one to its page: so a    *)
(* count of 1 means that there is one reference.                           *)
(***************************************************************************)
LEMMA Sizes ==
  ASSUME TypeOK, NEW p \in Procs
  PROVE  /\ sz[p] \in Nat /\ PgRoundUp(sz[p]) \in 0 .. UserTop
         /\ nsz[p] \in Nat /\ PgRoundUp(nsz[p]) \in 0 .. UserTop
         /\ at[p] \in 0 .. UserTop /\ UserTop \in Nat
<1>1. sz[p] \in 0 .. UserTop * PGSIZE /\ nsz[p] \in 0 .. UserTop * PGSIZE /\ at[p] \in 0 .. UserTop
  BY DEF TypeOK
<1> QED BY <1>1, RoundUpLimit, ConstantAssumptions

LEMMA Sharing ==
  ASSUME TypeOK, NEW p \in Procs, SizeInv(p), pc[p] = "f_inc"
  PROVE  /\ at[p] \in Vpns /\ npgdir[p][at[p]].pa = pgdir[p][at[p]].pa
<1>1. at[p] \in Vpns
  BY Sizes DEF SizeInv, Vpns
<1> QED BY <1>1 DEF SizeInv

LEMMA UncountedBound ==
  ASSUME TypeOK, \A p \in Procs : SizeInv(p), NEW pa
  PROVE  /\ Cardinality(Uncounted(pa)) \in Nat /\ UserCount(pa) \in Nat
         /\ Cardinality(UserRefs(pa)) \in Nat /\ Cardinality(NewRefs(pa)) \in Nat
         /\ Cardinality(Uncounted(pa)) <= Cardinality(UserRefs(pa))
         /\ Cardinality(Uncounted(pa)) <= Cardinality(NewRefs(pa))
         /\ \A p \in Procs, v \in Vpns : pc[p] # "f_inc" =>
              /\ pgdir[p][v].pa = pa => Cardinality(Uncounted(pa)) < Cardinality(UserRefs(pa))
              /\ npgdir[p][v].pa = pa => Cardinality(Uncounted(pa)) < Cardinality(NewRefs(pa))
<1> DEFINE X == Uncounted(pa)
           U == UserRefs(pa)
           N == NewRefs(pa)
           f == [p \in X |-> <<p, at[p]>>]
<1>1. /\ IsFiniteSet(U) /\ Cardinality(U) \in Nat /\ IsFiniteSet(N) /\ Cardinality(N) \in Nat
      /\ UserCount(pa) \in Nat
  BY Finite DEF UserRefs, NewRefs, Count, UserCount
<1>2. /\ \A q \in X : <<q, at[q]>> \in U /\ <<q, at[q]>> \in N /\ pc[q] = "f_inc"
      /\ \A q, r \in X : <<q, at[q]>> = <<r, at[r]>> => q = r
  BY Sharing DEF Uncounted, UserRefs, NewRefs, TableRefs
<1>3. ASSUME NEW S, IsFiniteSet(S), \A q \in X : <<q, at[q]>> \in S
      PROVE  Cardinality(X) \in Nat /\ Cardinality(X) <= Cardinality(S)
  <2>1. f \in Injection(X, S)
    BY <1>2, <1>3 DEF Injection, IsInjective
  <2> QED BY <1>3, <2>1, FS_Injection, FS_CardinalityType
<1>4. /\ Cardinality(X) \in Nat /\ Cardinality(X) <= Cardinality(U)
      /\ Cardinality(X) <= Cardinality(N)
  BY <1>1, <1>2, <1>3
<1>5. ASSUME NEW p \in Procs, NEW v \in Vpns, pc[p] # "f_inc"
      PROVE  /\ pgdir[p][v].pa = pa => Cardinality(X) < Cardinality(U)
             /\ npgdir[p][v].pa = pa => Cardinality(X) < Cardinality(N)
  <2>1. /\ pgdir[p][v].pa = pa => <<p, v>> \in U
        /\ npgdir[p][v].pa = pa => <<p, v>> \in N
    BY DEF UserRefs, NewRefs, TableRefs
  <2>2. \A q \in X : <<q, at[q]>> # <<p, v>>
    BY <1>2, <1>5
  <2>3. ASSUME NEW S, IsFiniteSet(S), Cardinality(S) \in Nat, \A q \in X : <<q, at[q]>> \in S,
               <<p, v>> \in S
        PROVE  Cardinality(X) < Cardinality(S)
    <3>1. IsFiniteSet(S \ {<<p, v>>}) /\ Cardinality(S \ {<<p, v>>}) = Cardinality(S) - 1
      BY <2>3, FS_RemoveElement
    <3>2. \A q \in X : <<q, at[q]>> \in S \ {<<p, v>>}
      BY <2>2, <2>3
    <3>3. Cardinality(X) <= Cardinality(S) - 1
      BY <1>3, <3>1, <3>2
    <3> QED BY <1>4, <2>3, <3>3
  <2> QED BY <1>1, <1>2, <2>1, <2>3
<1> QED BY <1>1, <1>4, <1>5

LEMMA MappedPage ==
  ASSUME TypeOK, \A p \in Procs : SizeInv(p), NEW pa \in Pages, PageInv(pa),
         NEW p \in Procs, NEW v \in Vpns, pgdir[p][v].pa = pa \/ npgdir[p][v].pa = pa
  PROVE  /\ ~Owned(pa) /\ pa \notin free /\ UserCount(pa) \in Nat \ {0}
         /\ Cardinality(Uncounted(pa)) \in Nat
         /\ ref_cnt[pa] = UserCount(pa) - Cardinality(Uncounted(pa))
         /\ ref_cnt[pa] >= 1
         /\ pc[p] # "f_inc" /\ ref_cnt[pa] <= 1 => UserCount(pa) = 1 /\ Cardinality(Uncounted(pa)) = 0
<1> DEFINE x == Cardinality(Uncounted(pa))
           u == Cardinality(UserRefs(pa))
           n == Cardinality(NewRefs(pa))
<1>1. /\ x \in Nat /\ u \in Nat /\ n \in Nat /\ x <= u /\ x <= n /\ UserCount(pa) = u + n
      /\ pc[p] # "f_inc" => x < u \/ x < n
  BY UncountedBound DEF UserCount
<1>2. u + n >= 1
  <2>1. <<p, v>> \in UserRefs(pa) \/ <<p, v>> \in NewRefs(pa)
    BY DEF UserRefs, NewRefs, TableRefs
  <2>2. (u = 0 => UserRefs(pa) = {}) /\ (n = 0 => NewRefs(pa) = {})
    BY Finite, FS_EmptySet DEF UserRefs, NewRefs
  <2> QED BY <1>1, <2>1, <2>2
<1>3. ~Owned(pa) /\ pa \notin free
  BY <1>1, <1>2 DEF PageInv
<1>4. ref_cnt[pa] = u + n - x
  BY <1>1, <1>3 DEF PageInv
<1> HIDE DEF x, u, n
<1>5. u + n - x >= 1
  BY <1>1, <1>2
<1>6. pc[p] # "f_inc" /\ u + n - x <= 1 => u + n = 1 /\ x = 0
  BY <1>1
<1> QED BY <1>1, <1>2, <1>3, <1>4, <1>5, <1>6 DEF x

LEMMA NoCount ==
  ASSUME NEW F, NEW pa
  PROVE  Count(F, pa) = 0 <=> \A p \in Procs, v \in Vpns : F[p][v].pa # pa
<1>1. Count(F, pa) = 0 <=> TableRefs(F, pa) = {}
  BY Finite, FS_EmptySet DEF Count
<1>2. TableRefs(F, pa) = {} <=> \A p \in Procs, v \in Vpns : F[p][v].pa # pa
  <2>1. ASSUME NEW p \in Procs, NEW v \in Vpns, F[p][v].pa = pa PROVE TableRefs(F, pa) # {}
    <3>1. <<p, v>> \in TableRefs(F, pa)
      BY <2>1 DEF TableRefs
    <3> QED BY <3>1
  <2>2. ASSUME \A p \in Procs, v \in Vpns : F[p][v].pa # pa PROVE TableRefs(F, pa) = {}
    BY <2>2 DEF TableRefs
  <2> QED BY <2>1, <2>2
<1> QED BY <1>1, <1>2

\* What PageInv says of a page depends on what refers to it.
LEMMA PageFrame ==
  ASSUME NEW pa \in Pages, PageInv(pa),
         \A q \in Procs, k \in Holders : pa \in HeldBy(q, k)' <=> pa \in HeldBy(q, k),
         pa \in lost' <=> pa \in lost, pa \in free' <=> pa \in free, ref_cnt'[pa] = ref_cnt[pa],
         \A q \in Procs, v \in Vpns :
           /\ pgdir'[q][v].pa = pa <=> pgdir[q][v].pa = pa
           /\ npgdir'[q][v].pa = pa <=> npgdir[q][v].pa = pa
           /\ pgdir'[q][v].pa = pa /\ pgdir'[q][v].w =>
                pgdir[q][v].w \/ UserCount(pa) = 1
           /\ npgdir'[q][v].pa = pa /\ npgdir'[q][v].w => npgdir[q][v].w,
         \A q \in Procs : (pc'[q] = "f_inc" /\ pgdir'[q][at'[q]].pa = pa) <=>
                          (pc[q] = "f_inc" /\ pgdir[q][at[q]].pa = pa)
  PROVE  PageInv(pa)' /\ UserCount(pa)' = UserCount(pa)
<1>1. UserRefs(pa)' = UserRefs(pa) /\ NewRefs(pa)' = NewRefs(pa)
  <2>1. TableRefs(pgdir', pa) = TableRefs(pgdir, pa)
    BY DEF TableRefs
  <2>2. TableRefs(npgdir', pa) = TableRefs(npgdir, pa)
    BY DEF TableRefs
  <2> QED BY <2>1, <2>2 DEF UserRefs, NewRefs
<1>2. UserCount(pa)' = UserCount(pa)
  BY <1>1 DEF UserCount
<1>3. Uncounted(pa)' = Uncounted(pa)
  BY DEF Uncounted
<1>4. (InKernel(pa)' <=> InKernel(pa)) /\ (Owned(pa)' <=> Owned(pa))
  BY DEF InKernel, Owned
<1>5. \A q \in Procs, v \in Vpns :
        (\/ pgdir'[q][v].pa = pa /\ pgdir'[q][v].w
         \/ npgdir'[q][v].pa = pa /\ npgdir'[q][v].w) => UserCount(pa) = 1
  BY DEF PageInv
<1> QED BY <1>2, <1>3, <1>4, <1>5 DEF PageInv

LEMMA Alone ==
  ASSUME NEW p \in Procs, CanStep(p)
  PROVE  ~panicked /\ (NCPU = 1 => \A q \in Procs \ {p} : ~IrqOff(q))
<1> DEFINE S == {q \in Procs \ {p} : IrqOff(q)}
<1>1. IsFiniteSet(S)
  <2>1. S \in SUBSET Procs
    OBVIOUS
  <2> QED BY <2>1, ConstantAssumptions, FS_Subset
<1>2. NCPU = 1 => Cardinality(S) = 0
  BY <1>1, FS_CardinalityType DEF CanStep
<1>3. NCPU = 1 => S = {}
  BY <1>1, <1>2, FS_EmptySet
<1> QED BY <1>3 DEF CanStep

\* With one CPU no process is in a page fault after another's step.
LEMMA NoFaults ==
  ASSUME NEW p \in Procs, CanStep(p), pc'[p] # "fault",
         \A q \in Procs \ {p} : pc'[q] = pc[q] \/ pc'[q] \in {"unused", "embryo", "user"}
  PROVE  FaultInv'
BY Alone DEF FaultInv, IrqOff

\* A step that changes no page and no table.
SameTables == UNCHANGED <<free, free_pages, ref_cnt, kstack, pgdir, ptpages, npgdir, nptpages, got, lost>>

LEMMA QuietPages ==
  ASSUME IInv, ~panicked, SameTables,
         \A q \in Procs : /\ pc'[q] = "f_inc" <=> pc[q] = "f_inc"
                          /\ pc[q] = "f_inc" => at'[q] = at[q]
  PROVE  FreePagesExact' /\ PteInv' /\ \A pa \in Pages : PageInv(pa)'
<1>1. FreePagesExact' /\ PteInv'
  BY DEF IInv, MemInv, FreePagesExact, PteInv, SameTables, Present
<1>2. ASSUME NEW pa \in Pages PROVE PageInv(pa)'
  <2>1. \A q \in Procs, k \in Holders : pa \in HeldBy(q, k)' <=> pa \in HeldBy(q, k)
    BY DEF HeldBy, SameTables
  <2>2. \A q \in Procs : (pc'[q] = "f_inc" /\ pgdir'[q][at'[q]].pa = pa) <=>
                         (pc[q] = "f_inc" /\ pgdir[q][at[q]].pa = pa)
    BY DEF SameTables
  <2>3. PageInv(pa) /\ pgdir' = pgdir /\ npgdir' = npgdir /\ lost' = lost /\ free' = free /\ ref_cnt' = ref_cnt
    BY DEF SameTables, IInv
  <2> QED BY <2>1, <2>2, <2>3, PageFrame
<1> QED BY <1>1, <1>2

\* What SizeInv says of a process depends on that process.
LEMMA SizeFrame ==
  ASSUME NEW q \in Procs, SizeInv(q), pc'[q] = pc[q], at'[q] = at[q], sz'[q] = sz[q],
         nsz'[q] = nsz[q], pgdir'[q] = pgdir[q], npgdir'[q] = npgdir[q]
  PROVE  SizeInv(q)'
BY DEF SizeInv, Sized, DeallocFrom, DeallocEnd, Present, Mapped

\* What SlotOk says of a process depends on it and on the slot it works on.
LEMMA SlotFrame ==
  ASSUME NEW q \in Procs, SlotOk(q), pc'[q] = pc[q], at'[q] = at[q], other'[q] = other[q],
         kstack'[q] = kstack[q], pgdir'[q] = pgdir[q], npgdir'[q] = npgdir[q],
         ptpages'[q] = ptpages[q], nptpages'[q] = nptpages[q], got'[q] = got[q],
         Waited(q)' <=> Waited(q),
         WorksOnSlot(q) => pc'[other[q]] = pc[other[q]] /\ kstack'[other[q]] = kstack[other[q]]
  PROVE  SlotOk(q)'
<1>1. /\ pc[q] \in Forking => WorksOnSlot(q)
      /\ pc[q] = "w_free" => WorksOnSlot(q)
  BY DEF WorksOnSlot
<1> QED BY <1>1 DEF SlotOk

LEMMA SlotWork ==
  ASSUME SlotInv, NEW q \in Procs, WorksOnSlot(q)
  PROVE  /\ SlotOk(q) /\ other[q] \in Procs
         /\ pc[other[q]] = IF pc[q] = "w_free" THEN "zombie" ELSE "embryo"
<1>1. SlotOk(q)
  BY DEF SlotInv
<1>2. CASE pc[q] = "w_free"
  BY <1>1, <1>2 DEF SlotOk
<1>3. CASE pc[q] \in Forking
  BY <1>1, <1>3 DEF SlotOk, Forking
<1> QED BY <1>1, <1>2, <1>3 DEF WorksOnSlot

LEMMA NotWaited ==
  ASSUME SlotInv, NEW c \in Procs, pc[c] # "zombie"
  PROVE  ~Waited(c)
BY DEF SlotInv, SlotOk, Waited

\* Of two processes that work on slots one is not p, which starts on a new slot,
\* or neither is.
LEMMA SlotsApart ==
  ASSUME SlotInv, NEW p \in Procs,
         \A q \in Procs \ {p} : WorksOnSlot(q)' => WorksOnSlot(q) /\ other'[q] = other[q],
         WorksOnSlot(p)' => \/ WorksOnSlot(p) /\ other'[p] = other[p]
                            \/ \A q \in Procs : WorksOnSlot(q) => other[q] # other'[p]
  PROVE  \A q, r \in Procs : WorksOnSlot(q)' /\ WorksOnSlot(r)' /\ other'[q] = other'[r] => q = r
BY DEF SlotInv

\* A step of p inside one call: no slot gets another state.
LEMMA SlotLocal ==
  ASSUME SlotInv, NEW p \in Procs, UNCHANGED <<other, kstack>>,
         pc[p] \notin {"embryo", "zombie"}, SlotOk(p)',
         \A q \in Procs \ {p} :
           /\ pc'[q] = pc[q] /\ at'[q] = at[q] /\ pgdir'[q] = pgdir[q] /\ npgdir'[q] = npgdir[q]
           /\ ptpages'[q] = ptpages[q] /\ nptpages'[q] = nptpages[q] /\ got'[q] = got[q],
         pc'[p] = "w_free" <=> pc[p] = "w_free",
         WorksOnSlot(p)' => WorksOnSlot(p)
  PROVE  SlotInv'
<1>1. \A q \in Procs : Waited(q)' <=> Waited(q)
  BY DEF Waited
<1>2. \A q \in Procs : WorksOnSlot(q) => other[q] \in Procs \ {p}
  BY SlotWork
<1>3. ASSUME NEW q \in Procs, q # p PROVE SlotOk(q)'
  <2>1. SlotOk(q)
    BY DEF SlotInv
  <2> QED BY <1>1, <1>2, <1>3, <2>1, SlotFrame
<1>4. \A q \in Procs \ {p} : WorksOnSlot(q)' => WorksOnSlot(q) /\ other'[q] = other[q]
  BY DEF WorksOnSlot
<1>5. \A q, r \in Procs : WorksOnSlot(q)' /\ WorksOnSlot(r)' /\ other'[q] = other'[r] => q = r
  BY <1>4, SlotsApart
<1> QED BY <1>3, <1>5 DEF SlotInv

-----------------------------------------------------------------------------
(***************************************************************************)
(* The actions.  First those that leave pages and page tables alone.       *)
(***************************************************************************)
LEMMA StoreStep ==
  ASSUME IInv, NEW p \in Procs, NEW v \in Vpns, NEW x \in Stores,
         UserStore(p, v, x) \/ KernelStore(p, v, x)
  PROVE  IInv'
<1> USE DEF IInv, MemInv
<1>1. /\ ~panicked /\ pgdir[p][v].pa \in AllPages
      /\ mem' = [mem EXCEPT ![pgdir[p][v].pa] = x]
      /\ SameTables /\ UNCHANGED <<pc, at, sz, nsz, other, panicked>>
  BY DEF UserStore, KernelStore, Store, RunsUser, CanStep, SameTables, kmem, local, TypeOK, Present, Pte
<1>2. TypeOK'
  BY <1>1 DEF TypeOK, SameTables, Vals
<1>3. \A q \in Procs : SizeInv(q)'
  BY <1>1, SizeFrame DEF SameTables
<1>4. SlotInv' /\ FaultInv'
  BY <1>1 DEF SlotInv, SlotOk, WorksOnSlot, FaultInv, SameTables, Waited, IrqOff
<1> QED BY <1>1, <1>2, <1>3, <1>4, QuietPages

LEMMA ForkStep ==
  ASSUME IInv, NEW p \in Procs, NEW c \in Procs, Fork(p, c)
  PROVE  IInv'
<1> USE DEF IInv, MemInv
<1>1. /\ CanStep(p) /\ ~panicked /\ pc[p] = "user" /\ pc[c] = "unused" /\ PtableFree
      /\ Present(pgdir[p], 0)
      /\ pc' = [pc EXCEPT ![p] = "f_kstack", ![c] = "embryo"]
      /\ other' = [other EXCEPT ![p] = c]
      /\ SameTables /\ UNCHANGED <<mem, at, sz, nsz, panicked>>
  BY DEF Fork, RunsUser, CanStep, SameTables, kmem
<1>2. /\ pc'[p] = "f_kstack" /\ pc'[c] = "embryo" /\ other'[p] = c /\ p # c
      /\ \A q \in Procs \ {p, c} : pc'[q] = pc[q]
      /\ \A q \in Procs \ {p} : other'[q] = other[q]
  BY <1>1 DEF TypeOK
<1>3. TypeOK'
  BY <1>1 DEF TypeOK, SameTables, Pcs
<1>4. \A q \in Procs : SizeInv(q)'
  <2>1. SizeInv(p)'
    BY <1>1, <1>2 DEF SizeInv, SameTables, Forking, Sized, Mapped
  <2>2. SizeInv(c)'
    BY <1>1, <1>2 DEF SizeInv, Forking
  <2> QED BY <1>1, <1>2, <2>1, <2>2, SizeFrame DEF SameTables
<1>5. SlotInv'
  <2>1. \A q \in Procs : ~Waited(q)' /\ ~Waited(q)
    BY <1>1, <1>2 DEF Waited, PtableFree
  <2>2. \A q \in Procs : WorksOnSlot(q) => other[q] # c /\ other[q] # p
    BY <1>1 DEF SlotInv, SlotOk, WorksOnSlot
  <2>3. SlotOk(p) /\ SlotOk(c) /\ SlotOk(p)' /\ SlotOk(c)'
    BY <1>1, <1>2, <2>1 DEF SlotInv, SlotOk, SameTables, Forking
  <2>4. ASSUME NEW q \in Procs \ {p, c} PROVE SlotOk(q)'
    <3>1. SlotOk(q)
      BY <1>1 DEF SlotInv
    <3>2. WorksOnSlot(q) => pc'[other[q]] = pc[other[q]]
      BY <1>1, <1>2, <2>2, SlotWork
    <3> QED BY <1>1, <1>2, <2>1, <3>1, <3>2, SlotFrame DEF SameTables
  <2>5. \A q \in Procs \ {p} : WorksOnSlot(q)' => WorksOnSlot(q) /\ other'[q] = other[q]
    BY <1>2 DEF WorksOnSlot, Forking
  <2>6. \A q \in Procs : SlotOk(q)'
    BY <2>3, <2>4
  <2>7. SlotInv
    BY <1>1
  <2>8. \A q, r \in Procs : WorksOnSlot(q)' /\ WorksOnSlot(r)' /\ other'[q] = other'[r] => q = r
    BY <1>2, <2>2, <2>5, <2>7, SlotsApart
  <2> QED BY <2>6, <2>8 DEF SlotInv
<1>6. FaultInv'
  BY <1>1, <1>2, NoFaults
<1> QED BY <1>1, <1>2, <1>3, <1>4, <1>5, <1>6, QuietPages

LEMMA ExitStep ==
  ASSUME IInv, NEW p \in Procs, Exit(p)
  PROVE  IInv'
<1> USE DEF IInv, MemInv
<1>1. /\ CanStep(p) /\ ~panicked /\ pc[p] = "user" /\ PtableFree
      /\ pc' = [pc EXCEPT ![p] = "zombie"]
      /\ SameTables /\ UNCHANGED <<mem, at, sz, nsz, other, panicked>>
  BY DEF Exit, At, CanStep, SameTables, kmem, local, Goto
<1>2. pc'[p] = "zombie" /\ \A q \in Procs \ {p} : pc'[q] = pc[q]
  BY <1>1 DEF TypeOK
<1>3. TypeOK'
  BY <1>1 DEF TypeOK, SameTables, Pcs
<1>4. \A q \in Procs : SizeInv(q)'
  <2>1. SizeInv(p)'
    BY <1>1, <1>2 DEF SizeInv, Forking
  <2> QED BY <1>1, <1>2, <2>1, SizeFrame DEF SameTables
<1>5. SlotInv'
  BY <1>1, <1>2 DEF SlotInv, SlotOk, WorksOnSlot, SameTables, Waited, Forking, PtableFree
<1>6. FaultInv'
  BY <1>1, <1>2, NoFaults
<1> QED BY <1>1, <1>2, <1>3, <1>4, <1>5, <1>6, QuietPages

LEMMA ExecStep ==
  ASSUME IInv, NEW p \in Procs, Exec(p)
  PROVE  IInv'
<1> USE DEF IInv, MemInv
<1>1. /\ CanStep(p) /\ ~panicked /\ pc[p] = "user" /\ Present(pgdir[p], 0)
      /\ pc' = [pc EXCEPT ![p] = "e_kvm"]
      /\ SameTables /\ UNCHANGED <<mem, at, sz, nsz, other, panicked>>
  BY DEF Exec, RunsUser, CanStep, SameTables, kmem, local, Goto
<1>2. pc'[p] = "e_kvm" /\ \A q \in Procs \ {p} : pc'[q] = pc[q]
  BY <1>1 DEF TypeOK
<1>3. TypeOK'
  BY <1>1 DEF TypeOK, SameTables, Pcs
<1>4. \A q \in Procs : SizeInv(q)'
  <2>1. SizeInv(p)'
    BY <1>1, <1>2 DEF SizeInv, Forking, SameTables, Sized, Mapped
  <2> QED BY <1>1, <1>2, <2>1, SizeFrame DEF SameTables
<1>5. SlotInv'
  BY <1>1, <1>2 DEF SlotInv, SlotOk, WorksOnSlot, SameTables, Waited, Forking, PtableFree
<1>6. FaultInv'
  BY <1>1, <1>2, NoFaults
<1> QED BY <1>1, <1>2, <1>3, <1>4, <1>5, <1>6, QuietPages

LEMMA ExecBadStep ==
  ASSUME IInv, NEW p \in Procs, ExecBad(p)
  PROVE  IInv'
<1> USE DEF IInv, MemInv
<1>1. /\ CanStep(p) /\ ~panicked /\ pc[p] = "e_load"
      /\ pc' = [pc EXCEPT ![p] = "freevm"] /\ at' = [at EXCEPT ![p] = 0]
      /\ SameTables /\ UNCHANGED <<mem, sz, nsz, other, panicked>>
  BY DEF ExecBad, At, CanStep, SameTables, kmem, Goto
<1>2. /\ pc'[p] = "freevm" /\ at'[p] = 0
      /\ \A q \in Procs \ {p} : pc'[q] = pc[q] /\ at'[q] = at[q]
  BY <1>1 DEF TypeOK
<1>3. TypeOK'
  BY <1>1, ConstantAssumptions DEF TypeOK, SameTables, Pcs
<1>4. \A q \in Procs : SizeInv(q)'
  <2>1. SizeInv(p)'
    BY <1>1, <1>2 DEF SizeInv, Forking, SameTables, Sized, Mapped
  <2> QED BY <1>1, <1>2, <2>1, SizeFrame DEF SameTables
<1>5. SlotInv'
  BY <1>1, <1>2 DEF SlotInv, SlotOk, WorksOnSlot, SameTables, Waited, Forking, PtableFree
<1>6. FaultInv'
  BY <1>1, <1>2, NoFaults
<1> QED BY <1>1, <1>2, <1>3, <1>4, <1>5, <1>6, QuietPages

LEMMA SbrkStep ==
  ASSUME IInv, NEW p \in Procs, NEW n \in SbrkArgs, Sbrk(p, n)
  PROVE  IInv'
<1> USE DEF IInv, MemInv
<1> DEFINE m == sz[p] + n
           v == PgRoundUp(IF n > 0 THEN sz[p] ELSE m)
           l == IF n > 0 THEN "grow" ELSE "shrink"
<1>1. /\ CanStep(p) /\ ~panicked /\ pc[p] = "user" /\ Present(pgdir[p], 0)
      /\ n # 0 /\ m \in 0 .. UserTop * PGSIZE
      /\ pc' = [pc EXCEPT ![p] = l] /\ at' = [at EXCEPT ![p] = v] /\ nsz' = [nsz EXCEPT ![p] = m]
      /\ SameTables /\ UNCHANGED <<mem, sz, other, panicked>>
  BY DEF Sbrk, RunsUser, CanStep, SameTables, kmem, Goto
<1>2. /\ pc'[p] = l /\ at'[p] = v /\ nsz'[p] = m
      /\ \A q \in Procs \ {p} : pc'[q] = pc[q] /\ at'[q] = at[q] /\ nsz'[q] = nsz[q]
  BY <1>1 DEF TypeOK
<1>3. /\ n \in Int /\ sz[p] \in Nat /\ m \in Nat
      /\ PgRoundUp(sz[p]) \in 0 .. UserTop /\ PgRoundUp(m) \in 0 .. UserTop
      /\ n > 0 => sz[p] < m /\ PgRoundUp(sz[p]) <= PgRoundUp(m)
      /\ ~(n > 0) => m < sz[p] /\ PgRoundUp(m) <= PgRoundUp(sz[p])
  <2>1. n \in Int /\ sz[p] \in Nat /\ m \in Nat
        /\ PgRoundUp(sz[p]) \in 0 .. UserTop /\ PgRoundUp(m) \in 0 .. UserTop
    BY <1>1, Sizes, RoundUpLimit, ConstantAssumptions
  <2> QED BY <1>1, <2>1, RoundUpMonotone
<1>4. v = (IF n > 0 THEN PgRoundUp(sz[p]) ELSE PgRoundUp(m)) /\ UserTop \in Nat
  BY <1>3, ConstantAssumptions
<1> HIDE DEF v
<1>5. TypeOK'
  BY <1>1, <1>3, <1>4 DEF TypeOK, SameTables, Pcs
<1>6. \A q \in Procs : SizeInv(q)'
  <2>1. Mapped(pgdir[p]) = 0 .. PgRoundUp(sz[p]) - 1
    BY <1>1 DEF SizeInv, Sized
  <2>2. Mapped(pgdir[p])' = Mapped(pgdir[p]) /\ sz'[p] = sz[p]
    BY <1>1 DEF SameTables, Mapped, Present
  <2>3. \A u \in Vpns : u \in Nat /\ (Present(pgdir[p], u)' <=> u < PgRoundUp(sz[p]))
    <3>1. \A u \in Vpns : u \in Nat /\ (Present(pgdir[p], u) <=> u \in Mapped(pgdir[p]))
      BY ConstantAssumptions DEF Mapped, Vpns
    <3> QED BY <1>1, <1>3, <2>1, <3>1 DEF SameTables, Present
  <2>4. SizeInv(p)'
    <3>1. CASE n > 0
      <4>1. pc'[p] = "grow" /\ at'[p] = PgRoundUp(sz[p]) /\ sz'[p] < nsz'[p]
        BY <1>1, <1>2, <1>3, <1>4, <3>1
      <4> QED BY <1>2, <1>3, <2>1, <2>2, <4>1 DEF SizeInv, Forking
    <3>2. CASE ~(n > 0)
      <4>1. pc'[p] = "shrink" /\ at'[p] = PgRoundUp(m) /\ DeallocFrom(p)' = m /\ DeallocEnd(p)' = sz[p]
        BY <1>1, <1>2, <1>3, <1>4, <3>2 DEF DeallocFrom, DeallocEnd
      <4> QED BY <1>3, <2>3, <3>2, <4>1 DEF SizeInv, Forking
    <3> QED BY <3>1, <3>2
  <2> QED BY <1>1, <1>2, <2>4, SizeFrame DEF SameTables
<1>7. SlotInv'
  <2>1. SlotInv /\ SlotOk(p)
    BY <1>1 DEF SlotInv
  <2>2. \A q \in Procs : Waited(q)' <=> Waited(q)
    BY <1>1, <1>2 DEF Waited
  <2>3. SlotOk(p)'
    BY <1>1, <1>2, <2>1, <2>2 DEF SlotOk, SameTables, Forking
  <2> QED BY <1>1, <1>2, <2>1, <2>3, SlotLocal DEF SameTables, WorksOnSlot, Forking
<1>8. FaultInv'
  BY <1>1, <1>2, NoFaults
<1> QED BY <1>1, <1>2, <1>5, <1>6, <1>7, <1>8, QuietPages

LEMMA GrowprocDoneStep ==
  ASSUME IInv, NEW p \in Procs, GrowprocDone(p)
  PROVE  IInv'
<1> USE DEF IInv, MemInv
<1> DEFINE m == IF pc[p] = "undo" \/ nsz[p] = 0 THEN sz[p] ELSE nsz[p]
<1>1. /\ CanStep(p) /\ ~panicked
      /\ \/ pc[p] = "grow" /\ at[p] * PGSIZE >= nsz[p]
         \/ pc[p] \in {"undo", "shrink"} /\ at[p] * PGSIZE >= DeallocEnd(p)
      /\ pc' = [pc EXCEPT ![p] = "user"] /\ at' = [at EXCEPT ![p] = 0]
      /\ nsz' = [nsz EXCEPT ![p] = 0] /\ sz' = [sz EXCEPT ![p] = m]
      /\ SameTables /\ UNCHANGED <<mem, other, panicked>>
  BY DEF GrowprocDone, At, CanStep, SameTables, kmem, Goto
<1>2. /\ pc'[p] = "user" /\ at'[p] = 0 /\ sz'[p] = m
      /\ \A q \in Procs \ {p} : pc'[q] = pc[q] /\ at'[q] = at[q] /\ nsz'[q] = nsz[q] /\ sz'[q] = sz[q]
  BY <1>1 DEF TypeOK
<1>3. TypeOK'
  BY <1>1, ConstantAssumptions DEF TypeOK, SameTables, Pcs
<1>4. /\ sz[p] \in Nat /\ PgRoundUp(sz[p]) \in 0 .. UserTop /\ nsz[p] \in Nat
      /\ PgRoundUp(nsz[p]) \in 0 .. UserTop /\ at[p] \in Nat /\ UserTop \in Nat
      /\ at[p] * PGSIZE \in Int
  BY Sizes, ConstantAssumptions
<1>5. \A q \in Procs : SizeInv(q)'
  <2>1. Mapped(pgdir[p])' = Mapped(pgdir[p]) /\ Mapped(pgdir[p]) \subseteq Vpns /\ Vpns \subseteq Nat
        /\ \A v \in Vpns : v < UserTop /\ (v \in Mapped(pgdir[p]) <=> Present(pgdir[p], v))
    BY <1>1, ConstantAssumptions DEF SameTables, Mapped, Present, Vpns
  <2>2. SizeInv(p)'
    <3>1. CASE pc[p] = "grow"
      <4>1. ~ at[p] < PgRoundUp(nsz[p])
        BY <1>1, <1>4, <3>1, RoundUp
      <4>2. SizeInv(p)
        OBVIOUS
      <4>3. at[p] = PgRoundUp(nsz[p]) /\ sz'[p] = nsz[p] /\ Mapped(pgdir[p]) = 0 .. at[p] - 1
        BY <1>2, <1>4, <3>1, <4>1, <4>2 DEF SizeInv
      <4>4. Mapped(pgdir[p])' = 0 .. PgRoundUp(sz'[p]) - 1
        BY <2>1, <4>3
      <4> QED BY <1>2, <4>4 DEF SizeInv, Sized, Forking
    <3>2. CASE pc[p] \in {"undo", "shrink"}
      <4> DEFINE from == DeallocFrom(p)
      <4>1. ~ at[p] < PgRoundUp(DeallocEnd(p))
        BY <1>1, <1>4, <3>2, RoundUp DEF DeallocEnd
      <4>2. SizeInv(p)
        OBVIOUS
      <4>3. PgRoundUp(from) \in 0 .. UserTop /\ PgRoundUp(DeallocEnd(p)) \in 0 .. UserTop
        BY <1>4, <3>2 DEF DeallocEnd, DeallocFrom
      <4>4. at[p] = PgRoundUp(DeallocEnd(p))
        BY <1>4, <3>2, <4>1, <4>2, <4>3 DEF SizeInv
      <4>5. \A v \in Vpns : Present(pgdir[p], v) <=> v < PgRoundUp(from)
        BY <1>4, <2>1, <3>2, <4>2, <4>3, <4>4 DEF SizeInv
      <4>6. \A v : v \in Mapped(pgdir[p]) <=> v \in Vpns /\ v < PgRoundUp(from)
        BY <2>1, <4>5
      <4>7. \A v : v \in 0 .. PgRoundUp(from) - 1 <=> v \in Vpns /\ v < PgRoundUp(from)
        BY <1>4, <4>3 DEF Vpns
      <4>8. Mapped(pgdir[p])' = 0 .. PgRoundUp(from) - 1
        BY <2>1, <4>6, <4>7
      <4>9. CASE pc[p] = "shrink" /\ nsz[p] = 0
        <5>1. ~ 0 * PGSIZE < 0 /\ 0 \in Vpns /\ from = 0
          BY <4>9, ConstantAssumptions DEF DeallocFrom, Vpns
        <5>2. ~ 0 < PgRoundUp(from)
          BY <5>1, RoundUp
        <5>3. ~Present(pgdir[p], 0)'
          BY <1>1, <4>5, <5>1, <5>2 DEF SameTables, Present
        <5> QED BY <1>2, <5>3 DEF SizeInv, Forking
      <4>10. CASE ~(pc[p] = "shrink" /\ nsz[p] = 0)
        <5>1. sz'[p] = from
          BY <1>2, <3>2, <4>10 DEF DeallocFrom
        <5> QED BY <1>2, <4>8, <5>1 DEF SizeInv, Sized, Forking
      <4> QED BY <4>9, <4>10
    <3> QED BY <1>1, <3>1, <3>2
  <2> QED BY <1>1, <1>2, <2>2, SizeFrame DEF SameTables
<1>6. SlotInv'
  <2>1. SlotInv /\ SlotOk(p)
    BY <1>1 DEF SlotInv
  <2>2. \A q \in Procs : Waited(q)' <=> Waited(q)
    BY <1>1, <1>2 DEF Waited
  <2>3. SlotOk(p)'
    BY <1>1, <1>2, <2>1, <2>2 DEF SlotOk, SameTables, Forking
  <2> QED BY <1>1, <1>2, <2>1, <2>3, SlotLocal DEF SameTables, WorksOnSlot, Forking
<1>7. FaultInv'
  BY <1>1, <1>2, NoFaults
<1> QED BY <1>1, <1>2, <1>3, <1>5, <1>6, <1>7, QuietPages

-----------------------------------------------------------------------------
(***************************************************************************)
(* Pages that are allocated, shared and freed.                             *)
(***************************************************************************)
LEMMA FreeCount ==
  ASSUME NEW S \in SUBSET Pages
  PROVE  /\ IsFiniteSet(S) /\ Cardinality(S) \in 0 .. Cardinality(Pages)
         /\ \A x \in S : S \ {x} \in SUBSET Pages /\ Cardinality(S \ {x}) = Cardinality(S) - 1
         /\ \A x \in Pages \ S : S \cup {x} \in SUBSET Pages /\ Cardinality(S \cup {x}) = Cardinality(S) + 1
<1>1. IsFiniteSet(Pages)
  BY ConstantAssumptions
<1>2. IsFiniteSet(S) /\ Cardinality(S) <= Cardinality(Pages)
  BY <1>1, FS_Subset
<1>3. Cardinality(S) \in Nat /\ Cardinality(Pages) \in Nat
  BY <1>1, <1>2, FS_CardinalityType
<1>4. \A x \in S : Cardinality(S \ {x}) = Cardinality(S) - 1
  BY <1>2, FS_RemoveElement
<1>5. \A x \in Pages \ S : Cardinality(S \cup {x}) = Cardinality(S) + 1
  BY <1>2, FS_AddElement
<1> QED BY <1>2, <1>3, <1>4, <1>5

LEMMA Kalloced ==
  ASSUME TypeOK, FreePagesExact, NEW new, Kalloc(new)
  PROVE  /\ new \in free /\ new \in Pages /\ new \notin free' /\ ref_cnt'[new] = 1
         /\ free' \in SUBSET Pages /\ free_pages' \in 0 .. Cardinality(Pages)
         /\ ref_cnt' \in [AllPages -> Int] /\ FreePagesExact'
         /\ \A pa \in AllPages \ {new} : ref_cnt'[pa] = ref_cnt[pa] /\ (pa \in free' <=> pa \in free)
<1>1. new \in free /\ free \in SUBSET Pages /\ free' = free \ {new} /\ free_pages' = free_pages - 1
  BY DEF Kalloc, TypeOK
<1>2. free' \in SUBSET Pages /\ Cardinality(free') = Cardinality(free) - 1
  BY <1>1, FreeCount
<1>3. FreePagesExact' /\ free_pages' \in 0 .. Cardinality(Pages)
  BY <1>1, <1>2, FreeCount DEF FreePagesExact
<1>4. ref_cnt' = [ref_cnt EXCEPT ![new] = 1] /\ ref_cnt \in [AllPages -> Int] /\ new \in AllPages
  BY <1>1 DEF Kalloc, TypeOK, AllPages
<1> QED BY <1>1, <1>2, <1>3, <1>4

\* kfree of a page that is not on the freelist.
LEMMA Kfreed ==
  ASSUME TypeOK, FreePagesExact, NEW x \in AllPages, Kfree(x), x \notin free
  PROVE  /\ free' \in SUBSET Pages /\ free_pages' \in 0 .. Cardinality(Pages)
         /\ ref_cnt' \in [AllPages -> Int] /\ mem' \in [AllPages -> Vals] /\ FreePagesExact'
         /\ panicked \in BOOLEAN => panicked' \in BOOLEAN
         /\ \A pa \in AllPages \ {x} : ref_cnt'[pa] = ref_cnt[pa] /\ (pa \in free' <=> pa \in free)
         /\ ~panicked' => /\ x \in Pages /\ ref_cnt'[x] = ref_cnt[x] - 1
                          /\ x \in free' <=> ref_cnt[x] = 1
<1>1. /\ free \in SUBSET Pages /\ free_pages \in 0 .. Cardinality(Pages) /\ free_pages = Cardinality(free)
      /\ ref_cnt \in [AllPages -> Int] /\ mem \in [AllPages -> Vals]
  BY DEF TypeOK, FreePagesExact
<1>2. CASE x = Page0 \/ ref_cnt[x] < 1
  BY <1>1, <1>2 DEF Kfree, FreePagesExact
<1>3. CASE ~(x = Page0 \/ ref_cnt[x] < 1)
  <2>1. /\ x \in Pages /\ ref_cnt' = [ref_cnt EXCEPT ![x] = @ - 1] /\ UNCHANGED panicked
        /\ IF ref_cnt[x] = 1
           THEN free' = free \cup {x} /\ free_pages' = free_pages + 1 /\ mem' = [mem EXCEPT ![x] = Junk]
           ELSE UNCHANGED <<free, free_pages, mem>>
    BY <1>3 DEF Kfree, AllPages
  <2>2. /\ ref_cnt' \in [AllPages -> Int] /\ mem' \in [AllPages -> Vals]
        /\ ref_cnt'[x] = ref_cnt[x] - 1 /\ \A pa \in AllPages \ {x} : ref_cnt'[pa] = ref_cnt[pa]
    BY <1>1, <2>1 DEF Vals
  <2>3. CASE ref_cnt[x] = 1
    <3>1. free' \in SUBSET Pages /\ Cardinality(free') = Cardinality(free) + 1
      BY <1>1, <2>1, <2>3, FreeCount
    <3>2. free_pages' = Cardinality(free') /\ free_pages' \in 0 .. Cardinality(Pages)
      BY <1>1, <2>1, <2>3, <3>1, FreeCount
    <3> QED BY <2>1, <2>2, <2>3, <3>1, <3>2 DEF FreePagesExact
  <2>4. CASE ref_cnt[x] # 1
    BY <1>1, <2>1, <2>2, <2>4 DEF FreePagesExact
  <2> QED BY <2>3, <2>4
<1> QED BY <1>2, <1>3

\* Nothing refers to a free page.
LEMMA FreePage ==
  ASSUME NEW pa \in Pages, PageInv(pa), pa \in free
  PROVE  /\ UserCount(pa) = 0 /\ ~Owned(pa)
         /\ \A q \in Procs, k \in Holders : pa \notin HeldBy(q, k)
         /\ \A q \in Procs, v \in Vpns : pgdir[q][v].pa # pa /\ npgdir[q][v].pa # pa
<1>1. UserCount(pa) = 0 /\ ~Owned(pa)
  BY DEF PageInv
<1>2. Count(pgdir, pa) \in Nat /\ Count(npgdir, pa) \in Nat /\ Count(pgdir, pa) + Count(npgdir, pa) = 0
  BY <1>1, Finite DEF UserCount, UserRefs, NewRefs, Count
<1>3. Count(pgdir, pa) = 0 /\ Count(npgdir, pa) = 0
  BY <1>2
<1> QED BY <1>1, <1>3, NoCount DEF Owned, InKernel

\* A page the kernel holds is held once, and no table refers to it.
LEMMA HeldPage ==
  ASSUME NEW pa \in Pages, PageInv(pa), NEW p \in Procs, NEW h \in Holders, pa \in HeldBy(p, h)
  PROVE  /\ Owned(pa) /\ pa \notin free /\ pa \notin lost /\ UserCount(pa) = 0 /\ ref_cnt[pa] = 1
         /\ \A q \in Procs, k \in Holders : pa \in HeldBy(q, k) => q = p /\ k = h
         /\ \A q \in Procs, v \in Vpns : pgdir[q][v].pa # pa /\ npgdir[q][v].pa # pa
<1>1. Owned(pa) /\ InKernel(pa)
  BY DEF Owned, InKernel
<1>2. UserCount(pa) = 0 /\ pa \notin free /\ pa \notin lost /\ ref_cnt[pa] = 1
  BY <1>1 DEF PageInv
<1>3. Count(pgdir, pa) \in Nat /\ Count(npgdir, pa) \in Nat /\ Count(pgdir, pa) + Count(npgdir, pa) = 0
  BY <1>2, Finite DEF UserCount, UserRefs, NewRefs, Count
<1>4. Count(pgdir, pa) = 0 /\ Count(npgdir, pa) = 0
  BY <1>3
<1>5. \A q \in Procs, k \in Holders : pa \in HeldBy(q, k) => q = p /\ k = h
  BY DEF PageInv
<1> QED BY <1>1, <1>2, <1>4, <1>5, NoCount

\* A free page becomes one that p holds.
LEMMA PageTaken ==
  ASSUME NEW pa \in Pages, PageInv(pa), pa \in free, pa \notin free', ref_cnt'[pa] = 1,
         UNCHANGED <<pgdir, npgdir, lost>>,
         \E p \in Procs, h \in Holders : \A q \in Procs, k \in Holders :
           pa \in HeldBy(q, k)' <=> q = p /\ k = h
  PROVE  PageInv(pa)'
<1>0. PICK p \in Procs, h \in Holders : \A q \in Procs, k \in Holders :
        pa \in HeldBy(q, k)' <=> q = p /\ k = h
  OBVIOUS
<1>1. UserCount(pa)' = 0 /\ Owned(pa)'
  BY <1>0, FreePage DEF UserCount, UserRefs, NewRefs, Owned, InKernel
<1>2. pa \notin lost'
  BY FreePage DEF Owned
<1>3. \A q \in Procs, v \in Vpns : pgdir'[q][v].pa # pa /\ npgdir'[q][v].pa # pa
  BY FreePage
<1> QED BY <1>0, <1>1, <1>2, <1>3 DEF PageInv

\* The step writes e, in place of an entry for old, at page v of one of p's tables.
Written(p, v, e, old) ==
  \/ pgdir' = [pgdir EXCEPT ![p][v] = e] /\ npgdir' = npgdir /\ old = pgdir[p][v].pa
  \/ npgdir' = [npgdir EXCEPT ![p][v] = e] /\ pgdir' = pgdir /\ old = npgdir[p][v].pa

\* The count of a table changes with the entry.
LEMMA EntryCount ==
  ASSUME TypeOK, NEW p \in Procs, NEW v \in Vpns, NEW e \in Pte, NEW old, NEW pa,
         Written(p, v, e, old)
  PROVE  UserCount(pa)' = UserCount(pa) - One(old = pa) + One(e.pa = pa)
<1>1. pgdir \in Tables /\ npgdir \in Tables
  BY DEF TypeOK, Tables
<1>2. Count(pgdir, pa) \in Nat /\ Count(npgdir, pa) \in Nat
  BY Finite
<1>3. /\ UserCount(pa)' = Count(pgdir', pa) + Count(npgdir', pa)
      /\ UserCount(pa) = Count(pgdir, pa) + Count(npgdir, pa)
  BY DEF UserCount, UserRefs, NewRefs, Count
<1>4. One(old = pa) \in Int /\ One(e.pa = pa) \in Int
  BY DEF One
<1>5. CASE pgdir' = [pgdir EXCEPT ![p][v] = e] /\ npgdir' = npgdir /\ old = pgdir[p][v].pa
  <2>0. Count([pgdir EXCEPT ![p][v] = e], pa) = Count(pgdir, pa) - One(pgdir[p][v].pa = pa) + One(e.pa = pa)
    BY <1>1, CountEntry
  <2>1. Count(pgdir', pa) = Count(pgdir, pa) - One(old = pa) + One(e.pa = pa)
    BY <1>5, <2>0
  <2> QED BY <1>2, <1>3, <1>4, <1>5, <2>1
<1>6. CASE npgdir' = [npgdir EXCEPT ![p][v] = e] /\ pgdir' = pgdir /\ old = npgdir[p][v].pa
  <2>0. Count([npgdir EXCEPT ![p][v] = e], pa) = Count(npgdir, pa) - One(npgdir[p][v].pa = pa) + One(e.pa = pa)
    BY <1>1, CountEntry
  <2>1. Count(npgdir', pa) = Count(npgdir, pa) - One(old = pa) + One(e.pa = pa)
    BY <1>6, <2>0
  <2> QED BY <1>2, <1>3, <1>4, <1>6, <2>1
<1> QED BY <1>5, <1>6 DEF Written

\* A page with one user, which no step is about to count.
LEMMA PageUsed ==
  ASSUME NEW pa \in Pages, ~Owned(pa)', pa \notin free', ref_cnt'[pa] = 1,
         UserCount(pa)' = 1, Uncounted(pa)' = {}
  PROVE  PageInv(pa)'
<1>1. Cardinality({}) = 0
  BY FS_EmptySet
<1>2. Cardinality(Uncounted(pa)') = 0
  BY <1>1
<1> QED BY <1>2 DEF PageInv, Owned, InKernel

\* A page without users, on the freelist.
LEMMA PageUnused ==
  ASSUME NEW pa \in Pages, ~Owned(pa)', pa \in free', ref_cnt'[pa] = 0,
         UserCount(pa)' = 0, Uncounted(pa)' = {},
         \A q \in Procs, v \in Vpns : pgdir'[q][v].pa # pa /\ npgdir'[q][v].pa # pa
  PROVE  PageInv(pa)'
<1>1. Cardinality({}) = 0
  BY FS_EmptySet
<1>2. Cardinality(Uncounted(pa)') = 0
  BY <1>1
<1> QED BY <1>2 DEF PageInv, Owned, InKernel

\* p is not about to count a reference, and no other process takes a step.
OnlySteps(p) == /\ pc[p] # "f_inc" /\ pc'[p] # "f_inc"
                /\ \A q \in Procs \ {p} : pc'[q] = pc[q] /\ at'[q] = at[q]

LEMMA ExceptEntry ==
  ASSUME NEW F \in Tables, NEW p \in Procs, NEW v \in Vpns, NEW e \in Pte
  PROVE  /\ [F EXCEPT ![p][v] = e] \in Tables
         /\ \A q \in Procs \ {p} : [F EXCEPT ![p][v] = e][q] = F[q]
         /\ \A q \in Procs, u \in Vpns : (q # p \/ u # v) => [F EXCEPT ![p][v] = e][q][u] = F[q][u]
         /\ [F EXCEPT ![p][v] = e][p][v] = e
BY DEF Tables

LEMMA WrittenEntries ==
  ASSUME TypeOK, NEW p \in Procs, NEW v \in Vpns, NEW e \in Pte, NEW old, Written(p, v, e, old)
  PROVE  /\ pgdir' \in [Procs -> [Vpns -> Pte]] /\ npgdir' \in [Procs -> [Vpns -> Pte]]
         /\ \A q \in Procs \ {p} : pgdir'[q] = pgdir[q] /\ npgdir'[q] = npgdir[q]
         /\ \A q \in Procs, u \in Vpns :
              (q # p \/ u # v) => pgdir'[q][u] = pgdir[q][u] /\ npgdir'[q][u] = npgdir[q][u]
         /\ \/ pgdir'[p][v] = e /\ pgdir[p][v].pa = old /\ npgdir' = npgdir
            \/ npgdir'[p][v] = e /\ npgdir[p][v].pa = old /\ pgdir' = pgdir
<1>1. pgdir \in Tables /\ npgdir \in Tables
  BY DEF TypeOK, Tables
<1>2. CASE pgdir' = [pgdir EXCEPT ![p][v] = e] /\ npgdir' = npgdir /\ old = pgdir[p][v].pa
  <2>0. /\ [pgdir EXCEPT ![p][v] = e] \in Tables
        /\ \A q \in Procs \ {p} : [pgdir EXCEPT ![p][v] = e][q] = pgdir[q]
        /\ \A q \in Procs, u \in Vpns : (q # p \/ u # v) => [pgdir EXCEPT ![p][v] = e][q][u] = pgdir[q][u]
        /\ [pgdir EXCEPT ![p][v] = e][p][v] = e
    BY <1>1, ExceptEntry
  <2>1. /\ pgdir' \in Tables
        /\ \A q \in Procs \ {p} : pgdir'[q] = pgdir[q]
        /\ \A q \in Procs, u \in Vpns : (q # p \/ u # v) => pgdir'[q][u] = pgdir[q][u]
        /\ pgdir'[p][v] = e
    BY <1>2, <2>0
  <2> QED BY <1>1, <1>2, <2>1 DEF Tables
<1>3. CASE npgdir' = [npgdir EXCEPT ![p][v] = e] /\ pgdir' = pgdir /\ old = npgdir[p][v].pa
  <2>0. /\ [npgdir EXCEPT ![p][v] = e] \in Tables
        /\ \A q \in Procs \ {p} : [npgdir EXCEPT ![p][v] = e][q] = npgdir[q]
        /\ \A q \in Procs, u \in Vpns : (q # p \/ u # v) => [npgdir EXCEPT ![p][v] = e][q][u] = npgdir[q][u]
        /\ [npgdir EXCEPT ![p][v] = e][p][v] = e
    BY <1>1, ExceptEntry
  <2>1. /\ npgdir' \in Tables
        /\ \A q \in Procs \ {p} : npgdir'[q] = npgdir[q]
        /\ \A q \in Procs, u \in Vpns : (q # p \/ u # v) => npgdir'[q][u] = npgdir[q][u]
        /\ npgdir'[p][v] = e
    BY <1>3, <2>0
  <2> QED BY <1>1, <1>3, <2>1 DEF Tables
<1> QED BY <1>2, <1>3 DEF Written

LEMMA WrittenPteInv ==
  ASSUME TypeOK, PteInv, NEW p \in Procs, NEW v \in Vpns, NEW e \in Pte, NEW old,
         Written(p, v, e, old), e.w => e.pa # NoPage
  PROVE  PteInv'
<1> SUFFICES ASSUME NEW q \in Procs, NEW u \in Vpns
             PROVE  /\ pgdir'[q][u].w => pgdir'[q][u].pa # NoPage
                    /\ npgdir'[q][u].w => npgdir'[q][u].pa # NoPage
  BY DEF PteInv, Present
<1>1. /\ pgdir[q][u].w => pgdir[q][u].pa # NoPage
      /\ npgdir[q][u].w => npgdir[q][u].pa # NoPage
  BY DEF PteInv, Present
<1>2. pgdir'[q][u] = pgdir[q][u] \/ pgdir'[q][u] = e
  BY WrittenEntries
<1>3. npgdir'[q][u] = npgdir[q][u] \/ npgdir'[q][u] = e
  BY WrittenEntries
<1> QED BY <1>1, <1>2, <1>3

\* Pages other than the two that an entry refers to before and after.
LEMMA OtherPages ==
  ASSUME IInv, ~panicked, NEW p \in Procs, NEW v \in Vpns, NEW e \in Pte, NEW old,
         Written(p, v, e, old), OnlySteps(p), NEW pa \in Pages, pa # old, pa # e.pa,
         \A q \in Procs, k \in Holders : pa \in HeldBy(q, k)' <=> pa \in HeldBy(q, k),
         pa \in lost' <=> pa \in lost, pa \in free' <=> pa \in free, ref_cnt'[pa] = ref_cnt[pa]
  PROVE  PageInv(pa)'
<1>1. TypeOK /\ PageInv(pa)
  BY DEF IInv, MemInv
<1>2. \A q \in Procs, u \in Vpns :
        /\ pgdir'[q][u].pa = pa <=> pgdir[q][u].pa = pa
        /\ npgdir'[q][u].pa = pa <=> npgdir[q][u].pa = pa
        /\ pgdir'[q][u].pa = pa /\ pgdir'[q][u].w => pgdir[q][u].w
        /\ npgdir'[q][u].pa = pa /\ npgdir'[q][u].w => npgdir[q][u].w
  BY <1>1, WrittenEntries
<1>3. \A q \in Procs : (pc'[q] = "f_inc" /\ pgdir'[q][at'[q]].pa = pa) <=>
                       (pc[q] = "f_inc" /\ pgdir[q][at[q]].pa = pa)
  BY <1>1, WrittenEntries DEF OnlySteps
<1> QED BY <1>1, <1>2, <1>3, PageFrame

\* A new page is mapped where no page was.
LEMMA EntryMapped ==
  ASSUME IInv, ~panicked, NEW p \in Procs, NEW v \in Vpns, NEW new, Kalloc(new),
         Written(p, v, [pa |-> new, w |-> TRUE], NoPage), OnlySteps(p),
         UNCHANGED <<kstack, ptpages, nptpages, got, lost>>
  PROVE  PteInv' /\ \A pa \in Pages : PageInv(pa)'
<1> DEFINE e == [pa |-> new, w |-> TRUE]
<1>1. /\ TypeOK /\ FreePagesExact /\ PteInv /\ \A q \in Procs : SizeInv(q)
      /\ \A pa \in Pages : PageInv(pa)
  BY DEF IInv, MemInv
<1>2. /\ new \in free /\ new \in Pages /\ new \notin free' /\ ref_cnt'[new] = 1
      /\ \A pa \in AllPages \ {new} : ref_cnt'[pa] = ref_cnt[pa] /\ (pa \in free' <=> pa \in free)
  BY <1>1, Kalloced
<1>3. e \in Pte /\ e.pa = new /\ new # NoPage /\ NoPage \notin Pages /\ NoPage \notin AllPages
  BY <1>2, ConstantAssumptions DEF Pte, AllPages
<1> HIDE DEF e
<1>4. Written(p, v, e, NoPage)
  BY DEF e
<1>5. PteInv'
  BY <1>1, <1>3, <1>4, WrittenPteInv
<1>6. \A q \in Procs, k \in Holders : HeldBy(q, k)' = HeldBy(q, k)
  BY DEF HeldBy, Holders
<1>7. PageInv(new)'
  <2>1. PageInv(new)
    BY <1>1, <1>2
  <2>2. /\ UserCount(new) = 0 /\ ~Owned(new)
        /\ \A q \in Procs, u \in Vpns : pgdir[q][u].pa # new /\ npgdir[q][u].pa # new
    BY <1>2, <2>1, FreePage
  <2>3. UserCount(new)' = UserCount(new) - One(NoPage = new) + One(e.pa = new)
    BY <1>1, <1>3, <1>4, EntryCount
  <2>4. UserCount(new)' = 1
    BY <1>3, <2>2, <2>3 DEF One
  <2>5. ~Owned(new)'
    BY <1>6, <2>2 DEF Owned, InKernel
  <2>6. Uncounted(new)' = {}
    <3>1. \A q \in Procs : pc'[q] = "f_inc" => pc[q] = "f_inc" /\ at'[q] = at[q] /\ q # p
      BY DEF OnlySteps
    <3>2. \A q \in Procs : pc'[q] = "f_inc" => at[q] \in Vpns /\ pgdir'[q] = pgdir[q]
      BY <1>1, <1>3, <1>4, <3>1, Sharing, WrittenEntries
    <3> QED BY <2>2, <3>1, <3>2 DEF Uncounted
  <2> QED BY <1>2, <2>4, <2>5, <2>6, PageUsed
<1>8. ASSUME NEW pa \in Pages, pa # new PROVE PageInv(pa)'
  <2>1. pa # NoPage /\ pa # e.pa /\ pa \in AllPages /\ lost' = lost
    BY <1>3, <1>8 DEF AllPages
  <2> QED BY <1>2, <1>3, <1>4, <1>6, <1>8, <2>1, OtherPages
<1> QED BY <1>5, <1>7, <1>8

\* The entry that is overwritten was the one writable entry for its page.
LEMMA NotWritable ==
  ASSUME TypeOK, NEW p \in Procs, NEW v \in Vpns, NEW e \in Pte, NEW x \in Pages, PageInv(x),
         Written(p, v, e, x), e.pa # x
  PROVE  \A q \in Procs, u \in Vpns :
           /\ ~(pgdir'[q][u].pa = x /\ pgdir'[q][u].w)
           /\ ~(npgdir'[q][u].pa = x /\ npgdir'[q][u].w)
<1> SUFFICES ASSUME NEW q \in Procs, NEW u \in Vpns,
                    \/ pgdir'[q][u].pa = x /\ pgdir'[q][u].w
                    \/ npgdir'[q][u].pa = x /\ npgdir'[q][u].w
             PROVE  FALSE
  OBVIOUS
<1>1. /\ pgdir'[q][u].pa = x => pgdir'[q][u] = pgdir[q][u]
      /\ npgdir'[q][u].pa = x => npgdir'[q][u] = npgdir[q][u]
  BY WrittenEntries
<1>2. UserCount(x) = 1
  BY <1>1 DEF PageInv
<1>3. pgdir[q][u].pa = x \/ npgdir[q][u].pa = x
  BY <1>1
<1>4. q = p /\ u = v /\ ~(pgdir[q][u].pa = x /\ npgdir[q][u].pa = x)
  <2>1. \A r \in Procs, w \in Vpns : /\ pgdir[r][w].pa = x <=> <<r, w>> \in UserRefs(x)
                                     /\ npgdir[r][w].pa = x <=> <<r, w>> \in NewRefs(x)
    BY DEF UserRefs, NewRefs, TableRefs
  <2>2. pgdir[p][v].pa = x \/ npgdir[p][v].pa = x
    BY DEF Written
  <2>3. \/ UserRefs(x) = {<<p, v>>} /\ NewRefs(x) = {}
        \/ NewRefs(x) = {<<p, v>>} /\ UserRefs(x) = {}
    BY <1>2, <2>2, Sole
  <2>4. <<q, u>> = <<p, v>> /\ ~(<<q, u>> \in UserRefs(x) /\ <<q, u>> \in NewRefs(x))
    BY <1>3, <2>1, <2>3
  <2> QED BY <2>1, <2>4
<1>5. \/ pgdir'[p][v] = e /\ pgdir[p][v].pa = x /\ npgdir' = npgdir
      \/ npgdir'[p][v] = e /\ npgdir[p][v].pa = x /\ pgdir' = pgdir
  BY WrittenEntries
<1> QED BY <1>1, <1>4, <1>5

\* One reference to a page is given up.
LEMMA EntryDropped ==
  ASSUME IInv, ~panicked, NEW p \in Procs, NEW v \in Vpns, NEW x \in AllPages,
         Written(p, v, NoPte, x), Kfree(x), ~panicked', OnlySteps(p),
         UNCHANGED <<kstack, ptpages, nptpages, got, lost>>
  PROVE  PteInv' /\ \A pa \in Pages : PageInv(pa)'
<1>1. /\ TypeOK /\ FreePagesExact /\ PteInv /\ \A q \in Procs : SizeInv(q)
      /\ \A pa \in Pages : PageInv(pa)
  BY DEF IInv, MemInv
<1>2. NoPte \in Pte /\ NoPte.pa = NoPage /\ NoPte.w = FALSE /\ NoPage \notin Pages /\ NoPage \notin AllPages
  BY ConstantAssumptions DEF Pte, NoPte, AllPages
<1>3. PteInv'
  BY <1>1, <1>2, WrittenPteInv
<1>4. pgdir[p][v].pa = x \/ npgdir[p][v].pa = x
  BY DEF Written
<1>5. x \notin free
  <2>1. x \in Pages => x \notin free
    BY <1>1, <1>4, MappedPage
  <2> QED BY <1>1, <2>1 DEF TypeOK
<1>6. /\ \A pa \in AllPages \ {x} : ref_cnt'[pa] = ref_cnt[pa] /\ (pa \in free' <=> pa \in free)
      /\ x \in Pages /\ ref_cnt'[x] = ref_cnt[x] - 1 /\ (x \in free' <=> ref_cnt[x] = 1)
  BY <1>1, <1>5, Kfreed
<1>7. \A q \in Procs, k \in Holders : HeldBy(q, k)' = HeldBy(q, k)
  BY DEF HeldBy, Holders
<1>8. ASSUME NEW pa \in Pages, pa # x PROVE PageInv(pa)'
  <2>1. pa # NoPte.pa /\ pa \in AllPages /\ lost' = lost
    BY <1>2 DEF AllPages
  <2> QED BY <1>2, <1>6, <1>7, <1>8, <2>1, OtherPages
<1>9. PageInv(x)'
  <2> DEFINE c == Cardinality(Uncounted(x))
  <2>0. PageInv(x)
    BY <1>1, <1>6
  <2>1. /\ ~Owned(x) /\ UserCount(x) \in Nat \ {0} /\ c \in Nat
        /\ ref_cnt[x] = UserCount(x) - c /\ ref_cnt[x] >= 1
        /\ ref_cnt[x] <= 1 => UserCount(x) = 1 /\ c = 0
    BY <1>1, <1>4, <1>6, <2>0, MappedPage DEF OnlySteps
  <2>2. UserCount(x)' = UserCount(x) - One(x = x) + One(NoPte.pa = x)
    BY <1>1, <1>2, EntryCount
  <2>3. UserCount(x)' = UserCount(x) - 1
    BY <1>2, <1>6, <2>1, <2>2 DEF One
  <2>4. Uncounted(x)' = Uncounted(x)
    <3>1. \A q \in Procs \ {p} : pgdir'[q] = pgdir[q]
      BY <1>1, <1>2, WrittenEntries
    <3> QED BY <3>1 DEF Uncounted, OnlySteps
  <2>5. ~Owned(x)' /\ ~InKernel(x)'
    BY <1>7, <2>1 DEF Owned, InKernel
  <2>6. ref_cnt'[x] = UserCount(x)' - Cardinality(Uncounted(x))'
    BY <1>6, <2>1, <2>3, <2>4
  <2>7. /\ x \in free' => UserCount(x)' = 0
        /\ x \in free' \/ UserCount(x)' > 0
    BY <1>6, <2>1, <2>3
  <2>8. \A q \in Procs, u \in Vpns :
           /\ ~(pgdir'[q][u].pa = x /\ pgdir'[q][u].w)
           /\ ~(npgdir'[q][u].pa = x /\ npgdir'[q][u].w)
    BY <1>1, <1>2, <1>6, <2>0, NotWritable
  <2> HIDE DEF c
  <2>9. \A q, r \in Procs, h, k \in Holders : ~(x \in HeldBy(q, h)' /\ x \in HeldBy(r, k)')
    BY <2>5 DEF InKernel
  <2> QED BY <2>5, <2>6, <2>7, <2>8, <2>9 DEF PageInv
<1> QED BY <1>3, <1>8, <1>9

\* The pages that are mapped, after an entry is written.
LEMMA MappedWritten ==
  ASSUME NEW t \in [Vpns -> Pte], NEW v \in Vpns, NEW e \in Pte
  PROVE  /\ e.pa # NoPage => Mapped([t EXCEPT ![v] = e]) = Mapped(t) \cup {v}
         /\ e.pa = NoPage => Mapped([t EXCEPT ![v] = e]) = Mapped(t) \ {v}
BY DEF Mapped, Present

LEMMA GrowPageStep ==
  ASSUME IInv, NEW p \in Procs, GrowPage(p)
  PROVE  IInv'
<1> USE DEF IInv, MemInv
<1> DEFINE v == at[p]
<1>1. /\ CanStep(p) /\ ~panicked /\ pc[p] = "grow" /\ v * PGSIZE < nsz[p]
      /\ UNCHANGED <<kstack, ptpages, sz, npgdir, nptpages, nsz, other, got, lost, panicked>>
  BY DEF GrowPage, At, CanStep
<1>2. /\ sz[p] \in Nat /\ PgRoundUp(sz[p]) \in 0 .. UserTop /\ nsz[p] \in Nat
      /\ PgRoundUp(nsz[p]) \in 0 .. UserTop /\ v \in Nat /\ UserTop \in Nat
  BY Sizes
<1>3. /\ sz[p] < nsz[p] /\ v \in PgRoundUp(sz[p]) .. PgRoundUp(nsz[p])
      /\ Mapped(pgdir[p]) = 0 .. v - 1
  <2>1. SizeInv(p)
    OBVIOUS
  <2> QED BY <1>1, <2>1 DEF SizeInv
<1>4. v < PgRoundUp(nsz[p]) /\ v \in Vpns /\ v \notin Mapped(pgdir[p])
  <2>1. v < PgRoundUp(nsz[p])
    BY <1>1, <1>2, RoundUp
  <2> QED BY <1>2, <1>3, <2>1 DEF Vpns
<1>5. SlotInv /\ SlotOk(p) /\ \A q \in Procs : SizeInv(q)
  BY <1>1 DEF SlotInv
<1>6. ASSUME NEW new \in free, Kalloc(new), mem' = [mem EXCEPT ![new] = Zero],
             pgdir' = [pgdir EXCEPT ![p][v] = [pa |-> new, w |-> TRUE]],
             at' = [at EXCEPT ![p] = v + 1], pc' = pc
      PROVE  IInv'
  <2> DEFINE e == [pa |-> new, w |-> TRUE]
  <2>1. /\ new \in Pages /\ free' \in SUBSET Pages /\ free_pages' \in 0 .. Cardinality(Pages)
        /\ ref_cnt' \in [AllPages -> Int] /\ FreePagesExact'
    BY <1>6, Kalloced
  <2>2. e \in Pte /\ e.pa # NoPage
    BY <2>1, ConstantAssumptions DEF Pte, AllPages
  <2>3. pgdir[p][v].pa = NoPage /\ Written(p, v, e, NoPage)
    BY <1>1, <1>4, <1>6 DEF Mapped, Present, Written
  <2> HIDE DEF e
  <2>4. at' \in [Procs -> 0 .. UserTop] /\ at'[p] = v + 1 /\ \A q \in Procs \ {p} : at'[q] = at[q]
    BY <1>2, <1>4, <1>6 DEF TypeOK
  <2>5. /\ pgdir' \in [Procs -> [Vpns -> Pte]] /\ \A q \in Procs \ {p} : pgdir'[q] = pgdir[q]
    BY <1>4, <2>2, <2>3, WrittenEntries
  <2>6. TypeOK'
    BY <1>1, <1>6, <2>1, <2>4, <2>5 DEF TypeOK, Vals
  <2>7. SizeInv(p)'
    <3>1. pgdir[p] \in [Vpns -> Pte] /\ pgdir'[p] = [pgdir[p] EXCEPT ![v] = e]
      BY <1>6 DEF TypeOK, e
    <3>4. Mapped([pgdir[p] EXCEPT ![v] = e]) = Mapped(pgdir[p]) \cup {v}
      BY <1>4, <2>2, <3>1, MappedWritten, Zenon
    <3>2. Mapped(pgdir'[p]) = Mapped(pgdir[p]) \cup {v}
      BY <3>1, <3>4
    <3>3. Mapped(pgdir[p])' = 0 .. (v + 1) - 1
      BY <1>2, <1>3, <3>2 DEF Mapped, Present
    <3> QED BY <1>1, <1>2, <1>3, <1>4, <1>6, <2>4, <3>3 DEF SizeInv, Forking
  <2>8. \A q \in Procs : SizeInv(q)'
    BY <1>1, <1>5, <1>6, <2>4, <2>5, <2>7, SizeFrame
  <2>9. SlotInv'
    <3>1. \A q \in Procs : Waited(q)' <=> Waited(q)
      BY <1>1, <1>6 DEF Waited
    <3>2. SlotOk(p)'
      BY <1>1, <1>5, <1>6, <3>1, NotWaited DEF SlotOk, Forking
    <3> QED BY <1>1, <1>5, <1>6, <2>4, <2>5, <3>2, SlotLocal DEF WorksOnSlot
  <2>10. FaultInv'
    BY <1>1, <1>6, NoFaults
  <2>11. PteInv' /\ \A pa \in Pages : PageInv(pa)'
    <3>1. OnlySteps(p)
      BY <1>1, <1>6, <2>4 DEF OnlySteps
    <3>2. Written(p, v, [pa |-> new, w |-> TRUE], NoPage)
      BY <2>3 DEF e
    <3> QED BY <1>1, <1>4, <1>6, <3>1, <3>2, EntryMapped
  <2> QED BY <2>1, <2>6, <2>8, <2>9, <2>10, <2>11
<1>7. ASSUME KallocFails, at' = [at EXCEPT ![p] = PgRoundUp(sz[p])], Goto(p, "undo"),
             UNCHANGED <<mem, pgdir>>
      PROVE  IInv'
  <2>1. SameTables /\ UNCHANGED <<sz, nsz, mem, other, panicked>>
    BY <1>1, <1>7 DEF SameTables, KallocFails, kmem
  <2>2. /\ pc'[p] = "undo" /\ at'[p] = PgRoundUp(sz[p])
        /\ \A q \in Procs \ {p} : pc'[q] = pc[q] /\ at'[q] = at[q]
    BY <1>7 DEF Goto, TypeOK
  <2>3. TypeOK'
    BY <1>2, <1>7, <2>1 DEF TypeOK, SameTables, Goto, Pcs
  <2>4. SizeInv(p)'
    <3>1. DeallocFrom(p)' = sz[p] /\ DeallocEnd(p)' = nsz[p]
      BY <2>1, <2>2 DEF DeallocFrom, DeallocEnd
    <3>2. \A u \in Vpns : u \in Nat /\ (Present(pgdir[p], u)' <=> u < v)
      <4>1. \A u \in Vpns : u \in Nat /\ (Present(pgdir[p], u) <=> u \in Mapped(pgdir[p]))
        BY ConstantAssumptions DEF Mapped, Vpns
      <4> QED BY <1>2, <1>3, <2>1, <4>1 DEF SameTables, Present
    <3> QED BY <1>2, <1>3, <2>2, <3>1, <3>2 DEF SizeInv, Forking
  <2>5. \A q \in Procs : SizeInv(q)'
    BY <1>5, <2>1, <2>2, <2>4, SizeFrame DEF SameTables
  <2>6. SlotInv'
    <3>1. \A q \in Procs : Waited(q)' <=> Waited(q)
      BY <1>1, <2>1, <2>2 DEF Waited
    <3>2. SlotOk(p)'
      BY <1>1, <1>5, <2>1, <2>2, <3>1 DEF SlotOk, SameTables, Forking
    <3> QED BY <1>1, <1>5, <2>1, <2>2, <3>2, SlotLocal DEF SameTables, WorksOnSlot, Forking
  <2>7. FaultInv'
    BY <1>1, <2>2, NoFaults
  <2> QED BY <1>1, <2>1, <2>2, <2>3, <2>5, <2>6, <2>7, QuietPages
<1> QED BY <1>6, <1>7 DEF GrowPage

LEMMA DeallocPageStep ==
  ASSUME IInv, NEW p \in Procs, DeallocPage(p)
  PROVE  IInv'
<1> USE DEF IInv, MemInv
<1> DEFINE v == at[p]
<1>1. /\ CanStep(p) /\ ~panicked /\ pc[p] \in {"undo", "shrink"} /\ v * PGSIZE < DeallocEnd(p)
      /\ at' = [at EXCEPT ![p] = v + 1]
      /\ UNCHANGED <<pc, kstack, ptpages, sz, npgdir, nptpages, nsz, other, got, lost>>
  BY DEF DeallocPage, At, CanStep
<1>2. /\ sz[p] \in Nat /\ PgRoundUp(sz[p]) \in 0 .. UserTop /\ nsz[p] \in Nat
      /\ PgRoundUp(nsz[p]) \in 0 .. UserTop /\ v \in Nat /\ UserTop \in Nat
  BY Sizes
<1>3. SlotInv /\ SlotOk(p) /\ \A q \in Procs : SizeInv(q)
  BY <1>1 DEF SlotInv
<1>4. /\ PgRoundUp(DeallocFrom(p)) <= v /\ v < PgRoundUp(DeallocEnd(p)) /\ v \in Vpns
      /\ PgRoundUp(DeallocFrom(p)) \in Nat
  <2>1. DeallocEnd(p) \in Nat /\ PgRoundUp(DeallocEnd(p)) \in 0 .. UserTop
        /\ PgRoundUp(DeallocFrom(p)) \in 0 .. UserTop
    BY <1>2 DEF DeallocEnd, DeallocFrom
  <2>2. v < PgRoundUp(DeallocEnd(p))
    BY <1>1, <1>2, <2>1, RoundUp
  <2>3. PgRoundUp(DeallocFrom(p)) <= v
    BY <1>1, <1>2, <1>3, <2>1 DEF SizeInv
  <2> QED BY <1>2, <2>1, <2>2, <2>3 DEF Vpns
<1>5. at' \in [Procs -> 0 .. UserTop] /\ at'[p] = v + 1 /\ \A q \in Procs \ {p} : at'[q] = at[q]
  BY <1>1, <1>2, <1>4 DEF TypeOK, Vpns
<1>6. ASSUME \A q \in Procs \ {p} : pgdir'[q] = pgdir[q],
             \A u \in Vpns : Present(pgdir[p], u)' <=> Present(pgdir[p], u) /\ u # v
      PROVE  \A q \in Procs : SizeInv(q)'
  <2>1. DeallocEnd(p)' = DeallocEnd(p) /\ DeallocFrom(p)' = DeallocFrom(p)
    BY <1>1 DEF DeallocEnd, DeallocFrom
  <2>2. PgRoundUp(DeallocEnd(p)) \in Nat /\ \A u \in Vpns : u \in Nat
    BY <1>2 DEF DeallocEnd, Vpns
  <2>3. SizeInv(p)'
    BY <1>1, <1>2, <1>3, <1>4, <1>5, <1>6, <2>1, <2>2 DEF SizeInv, Forking
  <2> QED BY <1>1, <1>3, <1>5, <1>6, <2>3, SizeFrame
<1>7. ASSUME \A q \in Procs \ {p} : pgdir'[q] = pgdir[q] PROVE SlotInv'
  <2>1. \A q \in Procs : Waited(q)' <=> Waited(q)
    BY <1>1 DEF Waited
  <2>2. SlotOk(p)'
    BY <1>1, <1>3, <2>1, NotWaited DEF SlotOk, Forking
  <2> QED BY <1>1, <1>3, <1>5, <1>7, <2>2, SlotLocal DEF WorksOnSlot
<1>8. FaultInv'
  BY <1>1, NoFaults
<1>9. CASE Present(pgdir[p], v)
  <2> DEFINE x == pgdir[p][v].pa
  <2>1. Kfree(x) /\ pgdir' = [pgdir EXCEPT ![p][v] = NoPte] /\ x \in AllPages
    BY <1>4, <1>9 DEF DeallocPage, Present, TypeOK, Pte
  <2>2. NoPte \in Pte /\ NoPte.pa = NoPage
    BY DEF NoPte, Pte
  <2>3. Written(p, v, NoPte, x)
    BY <1>1, <2>1 DEF Written
  <2>4. /\ pgdir' \in [Procs -> [Vpns -> Pte]] /\ \A q \in Procs \ {p} : pgdir'[q] = pgdir[q]
        /\ \A u \in Vpns : Present(pgdir[p], u)' <=> Present(pgdir[p], u) /\ u # v
    BY <1>4, <2>1, <2>2 DEF TypeOK, Present
  <2>5. x \notin free
    <3>1. x \in Pages => x \notin free
      BY <1>1, <1>3, <1>4, MappedPage
    <3> QED BY <3>1 DEF TypeOK
  <2>6. /\ free' \in SUBSET Pages /\ free_pages' \in 0 .. Cardinality(Pages)
        /\ ref_cnt' \in [AllPages -> Int] /\ mem' \in [AllPages -> Vals] /\ FreePagesExact'
        /\ panicked' \in BOOLEAN
    BY <2>1, <2>5, Kfreed DEF TypeOK
  <2>7. TypeOK'
    BY <1>1, <1>5, <2>4, <2>6 DEF TypeOK
  <2>8. ASSUME ~panicked' PROVE PteInv' /\ \A pa \in Pages : PageInv(pa)'
    <3>1. OnlySteps(p)
      BY <1>1, <1>5 DEF OnlySteps
    <3> QED BY <1>1, <1>4, <2>1, <2>3, <2>8, <3>1, EntryDropped
  <2> QED BY <1>6, <1>7, <1>8, <2>4, <2>6, <2>7, <2>8
<1>10. CASE ~Present(pgdir[p], v)
  <2>1. SameTables /\ UNCHANGED <<mem, panicked>>
    BY <1>1, <1>10 DEF DeallocPage, SameTables, kmem
  <2>2. TypeOK'
    BY <1>1, <1>5, <2>1 DEF TypeOK, SameTables
  <2>3. \A q \in Procs : SizeInv(q)'
    BY <1>6, <1>10, <2>1 DEF SameTables, Present
  <2>4. SlotInv'
    BY <1>7, <2>1 DEF SameTables
  <2> QED BY <1>1, <1>5, <1>8, <2>1, <2>2, <2>3, <2>4, QuietPages
<1> QED BY <1>9, <1>10

LEMMA ExecLoadStep ==
  ASSUME IInv, NEW p \in Procs, ExecLoad(p)
  PROVE  IInv'
<1> USE DEF IInv, MemInv
<1> DEFINE v == at[p]
<1>1. PICK new \in free :
        /\ CanStep(p) /\ ~panicked /\ pc[p] = "e_load" /\ v < ExecPages /\ Kalloc(new)
        /\ mem' = [mem EXCEPT ![new] = Image]
        /\ npgdir' = [npgdir EXCEPT ![p][v] = [pa |-> new, w |-> TRUE]]
        /\ at' = [at EXCEPT ![p] = v + 1]
        /\ UNCHANGED <<pc, kstack, pgdir, ptpages, sz, nptpages, nsz, other, got, lost, panicked>>
  BY DEF ExecLoad, At, CanStep
<1> DEFINE e == [pa |-> new, w |-> TRUE]
<1>2. SlotInv /\ SlotOk(p) /\ \A q \in Procs : SizeInv(q)
  BY <1>1 DEF SlotInv
<1>3. v \in Vpns /\ v \in Nat /\ Mapped(npgdir[p]) = 0 .. v - 1 /\ ExecPages \in Nat /\ ExecPages <= UserTop
      /\ UserTop \in Nat
  BY <1>1, <1>2, Sizes, ConstantAssumptions DEF SizeInv, Vpns
<1>4. /\ new \in Pages /\ free' \in SUBSET Pages /\ free_pages' \in 0 .. Cardinality(Pages)
      /\ ref_cnt' \in [AllPages -> Int] /\ FreePagesExact'
  BY <1>1, Kalloced
<1>5. e \in Pte /\ e.pa # NoPage
  BY <1>4, ConstantAssumptions DEF Pte, AllPages
<1>6. npgdir[p][v].pa = NoPage
  <2>1. v \notin Mapped(npgdir[p])
    BY <1>3
  <2> QED BY <1>3, <2>1 DEF Mapped, Present
<1>7. Written(p, v, e, NoPage)
  BY <1>1, <1>6 DEF Written
<1>8. at' \in [Procs -> 0 .. UserTop] /\ at'[p] = v + 1 /\ \A q \in Procs \ {p} : at'[q] = at[q]
  BY <1>1, <1>3 DEF TypeOK
<1> HIDE DEF e
<1>9. npgdir' \in [Procs -> [Vpns -> Pte]] /\ \A q \in Procs \ {p} : npgdir'[q] = npgdir[q]
  BY <1>3, <1>5, <1>7, WrittenEntries
<1>10. TypeOK'
  BY <1>1, <1>4, <1>8, <1>9 DEF TypeOK, Vals
<1>11. SizeInv(p)'
  <2>1. npgdir[p] \in [Vpns -> Pte] /\ npgdir'[p] = [npgdir[p] EXCEPT ![v] = e]
    BY <1>1 DEF TypeOK, e
  <2>2. Mapped([npgdir[p] EXCEPT ![v] = e]) = Mapped(npgdir[p]) \cup {v}
    BY <1>3, <1>5, <2>1, MappedWritten, Zenon
  <2>3. Mapped(npgdir'[p]) = Mapped(npgdir[p]) \cup {v}
    BY <2>1, <2>2
  <2>4. Mapped(npgdir[p])' = 0 .. (v + 1) - 1
    BY <1>3, <2>3 DEF Mapped, Present
  <2>5. Sized(pgdir[p], sz[p])'
    BY <1>1, <1>2 DEF SizeInv, Sized, Mapped, Present
  <2> QED BY <1>1, <1>3, <1>8, <2>4, <2>5 DEF SizeInv, Forking
<1>12. \A q \in Procs : SizeInv(q)'
  BY <1>1, <1>2, <1>8, <1>9, <1>11, SizeFrame
<1>13. SlotInv'
  <2>1. \A q \in Procs : Waited(q)' <=> Waited(q)
    BY <1>1 DEF Waited
  <2>2. SlotOk(p)'
    BY <1>1, <1>2, <2>1, NotWaited DEF SlotOk, Forking
  <2> QED BY <1>1, <1>2, <1>8, <1>9, <2>2, SlotLocal DEF WorksOnSlot
<1>14. FaultInv'
  BY <1>1, NoFaults
<1>15. PteInv' /\ \A pa \in Pages : PageInv(pa)'
  <2>1. OnlySteps(p)
    BY <1>1, <1>8 DEF OnlySteps
  <2>2. Written(p, v, [pa |-> new, w |-> TRUE], NoPage)
    BY <1>7 DEF e
  <2> QED BY <1>1, <1>3, <2>1, <2>2, EntryMapped
<1> QED BY <1>4, <1>10, <1>12, <1>13, <1>14, <1>15

\* What PageInv says of a page, when a step changes neither table nor the reference
\* that fork is about to count.
LEMMA TablesKept ==
  ASSUME IInv, ~panicked, UNCHANGED <<pgdir, npgdir>>, NEW pa \in Pages,
         \A q \in Procs : /\ pc'[q] = "f_inc" <=> pc[q] = "f_inc"
                          /\ pc[q] = "f_inc" => at'[q] = at[q],
         \A q \in Procs, k \in Holders : pa \in HeldBy(q, k)' <=> pa \in HeldBy(q, k),
         pa \in lost' <=> pa \in lost, pa \in free' <=> pa \in free, ref_cnt'[pa] = ref_cnt[pa]
  PROVE  PageInv(pa)'
<1>1. PageInv(pa)
  BY DEF IInv
<1>2. \A q \in Procs : (pc'[q] = "f_inc" /\ pgdir'[q][at'[q]].pa = pa) <=>
                       (pc[q] = "f_inc" /\ pgdir[q][at[q]].pa = pa)
  OBVIOUS
<1> QED BY <1>1, <1>2, PageFrame

LEMMA PageFaultOwnerStep ==
  ASSUME IInv, NEW p \in Procs, NEW v \in Vpns, PageFaultOwner(p, v)
  PROVE  IInv'
<1> USE DEF IInv, MemInv
<1> DEFINE x == pgdir[p][v].pa
           e == [pa |-> x, w |-> TRUE]
<1>1. /\ CanStep(p) /\ ~panicked /\ pc[p] = "user" /\ x # NoPage /\ ref_cnt[x] <= 1
      /\ pgdir' = [pgdir EXCEPT ![p][v].w = TRUE]
      /\ UNCHANGED <<free, free_pages, ref_cnt, mem, pc, kstack, ptpages, sz, npgdir, nptpages,
                     nsz, at, other, got, lost, panicked>>
  BY DEF PageFaultOwner, Faults, RunsUser, CanStep, Present, kmem, local
<1>2. x \in AllPages /\ e \in Pte
  BY <1>1 DEF TypeOK, Pte
<1>3. pgdir' = [pgdir EXCEPT ![p][v] = e]
  <2>1. pgdir \in Tables
    BY DEF TypeOK, Tables
  <2> DEFINE b == TRUE
  <2>2. b \in BOOLEAN /\ pgdir' = [pgdir EXCEPT ![p][v].w = b]
    BY <1>1
  <2>3. e = [pa |-> pgdir[p][v].pa, w |-> b]
    OBVIOUS
  <2> HIDE DEF b, e
  <2>4. [pgdir[p][v] EXCEPT !.w = b] = [pa |-> pgdir[p][v].pa, w |-> b]
    <3>1. pgdir[p][v] \in Pte
      BY <2>1 DEF Tables
    <3> QED BY <2>2, <3>1 DEF Pte
  <2>5. [pgdir EXCEPT ![p][v].w = b] = [pgdir EXCEPT ![p][v] = [pgdir[p][v] EXCEPT !.w = b]]
    BY <2>1 DEF Tables
  <2> QED BY <2>2, <2>3, <2>4, <2>5
<1>4. Written(p, v, e, x) /\ e.pa = x /\ (e.w => e.pa # NoPage)
  BY <1>1, <1>3 DEF Written
<1>5. SlotInv /\ SlotOk(p) /\ PteInv /\ \A q \in Procs : SizeInv(q)
  BY <1>1 DEF SlotInv
<1> HIDE DEF e
<1>6. /\ pgdir' \in [Procs -> [Vpns -> Pte]] /\ \A q \in Procs \ {p} : pgdir'[q] = pgdir[q]
      /\ \A q \in Procs, u \in Vpns : (q # p \/ u # v) => pgdir'[q][u] = pgdir[q][u]
      /\ pgdir'[p][v].pa = x
  <2>1. pgdir'[p][v] = e
    BY <1>3 DEF TypeOK
  <2> QED BY <1>2, <1>4, <2>1, WrittenEntries
<1>7. TypeOK' /\ FreePagesExact' /\ PteInv'
  <2>1. PteInv'
    BY <1>2, <1>4, <1>5, WrittenPteInv
  <2> QED BY <1>1, <1>6, <2>1 DEF TypeOK, FreePagesExact
<1>8. \A q \in Procs : SizeInv(q)'
  <2>1. \A u \in Vpns : Present(pgdir[p], u)' <=> Present(pgdir[p], u)
    BY <1>6 DEF Present
  <2>2. Mapped(pgdir[p])' = Mapped(pgdir[p])
    BY <2>1 DEF Mapped
  <2>3. SizeInv(p)'
    BY <1>1, <1>5, <1>6, <2>1, <2>2, ConstantAssumptions DEF SizeInv, Sized, Forking, Present, Vpns
  <2> QED BY <1>1, <1>5, <1>6, <2>3, SizeFrame
<1>9. SlotInv'
  <2>1. \A q \in Procs : Waited(q)' <=> Waited(q)
    BY <1>1 DEF Waited
  <2>2. SlotOk(p)'
    BY <1>1, <1>5, <2>1, NotWaited DEF SlotOk, Forking
  <2> QED BY <1>1, <1>5, <1>6, <2>2, SlotLocal DEF WorksOnSlot
<1>10. FaultInv'
  BY <1>1, NoFaults
<1>11. ASSUME NEW pa \in Pages PROVE PageInv(pa)'
  <2>1. PageInv(pa)
    BY <1>1
  <2>2. pa = x => UserCount(pa) = 1
    BY <1>1, <1>5, <2>1, MappedPage
  <2>3. \A q \in Procs, u \in Vpns :
          /\ pgdir'[q][u].pa = pa <=> pgdir[q][u].pa = pa
          /\ npgdir'[q][u].pa = pa <=> npgdir[q][u].pa = pa
          /\ pgdir'[q][u].pa = pa /\ pgdir'[q][u].w => pgdir[q][u].w \/ UserCount(pa) = 1
          /\ npgdir'[q][u].pa = pa /\ npgdir'[q][u].w => npgdir[q][u].w
    BY <1>1, <1>6, <2>2
  <2>4. \A q \in Procs : (pc'[q] = "f_inc" /\ pgdir'[q][at'[q]].pa = pa) <=>
                         (pc[q] = "f_inc" /\ pgdir[q][at[q]].pa = pa)
    BY <1>1, <1>6
  <2>5. \A q \in Procs, k \in Holders : pa \in HeldBy(q, k)' <=> pa \in HeldBy(q, k)
    BY <1>1 DEF HeldBy
  <2> QED BY <1>1, <2>1, <2>3, <2>4, <2>5, PageFrame
<1> QED BY <1>7, <1>8, <1>9, <1>10, <1>11

LEMMA PageFaultCopyStep ==
  ASSUME IInv, NEW p \in Procs, NEW v \in Vpns, PageFaultCopy(p, v)
  PROVE  IInv'
<1> USE DEF IInv, MemInv
<1> DEFINE x == pgdir[p][v].pa
<1>1. /\ CanStep(p) /\ ~panicked /\ pc[p] = "user" /\ Present(pgdir[p], 0) /\ x # NoPage /\ ref_cnt[x] > 1
      /\ at' = [at EXCEPT ![p] = v] /\ pc' = [pc EXCEPT ![p] = "fault"]
      /\ UNCHANGED <<kstack, pgdir, ptpages, sz, npgdir, nptpages, nsz, other, lost, panicked>>
  BY DEF PageFaultCopy, Faults, RunsUser, CanStep, Present, Goto
<1>2. /\ x \in AllPages /\ mem[x] \in Vals /\ pgdir[p][0].pa \in AllPages
  <2>1. 0 \in Vpns
    BY ConstantAssumptions DEF Vpns
  <2> QED BY <1>1, <2>1 DEF TypeOK, Pte, Present
<1>3. /\ pc'[p] = "fault" /\ at'[p] = v /\ \A q \in Procs \ {p} : pc'[q] = pc[q] /\ at'[q] = at[q]
  BY <1>1 DEF TypeOK
<1>4. SlotInv /\ SlotOk(p) /\ PteInv /\ \A q \in Procs : SizeInv(q)
  BY <1>1 DEF SlotInv
<1>5. got[p] = NoPage /\ Page0 # NoPage /\ NoPage \notin Pages /\ NoPage \notin AllPages
  BY <1>1, <1>4, ConstantAssumptions DEF SlotOk, AllPages
<1>6. /\ pc' \in [Procs -> Pcs] /\ at' \in [Procs -> 0 .. UserTop] /\ PteInv'
  BY <1>1, <1>4, ConstantAssumptions DEF TypeOK, Pcs, Vpns, PteInv, Present
<1>7. \A q \in Procs : SizeInv(q)'
  <2>1. SizeInv(p)'
    BY <1>1, <1>3, <1>4 DEF SizeInv, Sized, Mapped, Forking, Present
  <2> QED BY <1>1, <1>3, <1>4, <2>1, SizeFrame
<1>8. ASSUME got' \in [Procs -> AllPages \cup {NoPage}], got'[p] # NoPage,
             \A q \in Procs \ {p} : got'[q] = got[q]
      PROVE  SlotInv'
  <2>1. \A q \in Procs : Waited(q)' <=> Waited(q)
    BY <1>1, <1>3 DEF Waited
  <2>2. SlotOk(p)'
    BY <1>1, <1>3, <1>4, <1>8, <2>1, NotWaited DEF SlotOk, Forking
  <2> QED BY <1>1, <1>3, <1>4, <1>8, <2>2, SlotLocal DEF WorksOnSlot, Forking
<1>9. ASSUME x \in Pages => ref_cnt'[x] = ref_cnt[x] PROVE FaultInv'
  BY <1>1, <1>3, <1>9, Alone DEF FaultInv, IrqOff
<1>10. ASSUME NEW pa \in Pages, pa # got'[p], \A q \in Procs \ {p} : got'[q] = got[q],
              pa \in free' <=> pa \in free, ref_cnt'[pa] = ref_cnt[pa]
       PROVE  PageInv(pa)'
  <2>1. \A q \in Procs, k \in Holders : pa \in HeldBy(q, k)' <=> pa \in HeldBy(q, k)
    BY <1>1, <1>5, <1>10 DEF HeldBy
  <2> QED BY <1>1, <1>3, <1>10, <2>1, TablesKept
<1>11. ASSUME NEW new \in free, Kalloc(new), mem' = [mem EXCEPT ![new] = mem[x]],
              got' = [got EXCEPT ![p] = new]
       PROVE  IInv'
  <2>1. /\ new \in Pages /\ free' \in SUBSET Pages /\ free_pages' \in 0 .. Cardinality(Pages)
        /\ ref_cnt' \in [AllPages -> Int] /\ FreePagesExact' /\ new \notin free' /\ ref_cnt'[new] = 1
        /\ \A pa \in AllPages \ {new} : ref_cnt'[pa] = ref_cnt[pa] /\ (pa \in free' <=> pa \in free)
    BY <1>11, Kalloced
  <2>2. got' \in [Procs -> AllPages \cup {NoPage}] /\ got'[p] = new /\ new # NoPage
        /\ \A q \in Procs \ {p} : got'[q] = got[q]
    BY <1>5, <1>11, <2>1 DEF TypeOK, AllPages
  <2>3. TypeOK'
    BY <1>1, <1>2, <1>6, <1>11, <2>1, <2>2 DEF TypeOK
  <2>4. PageInv(new) /\ PageInv(new)'
    <3>1. PageInv(new)
      BY <1>1, <2>1
    <3>2. \A q \in Procs, k \in Holders : new \notin HeldBy(q, k)
      BY <1>11, <2>1, <3>1, FreePage
    <3>3. \A q \in Procs, k \in Holders : new \in HeldBy(q, k)' <=> q = p /\ k = "got"
      BY <1>1, <2>2, <3>2 DEF HeldBy, Holders
    <3>4. "got" \in Holders
      BY DEF Holders
    <3>5. \E r \in Procs, h \in Holders : \A q \in Procs, k \in Holders :
            new \in HeldBy(q, k)' <=> q = r /\ k = h
      BY <3>3, <3>4
    <3>6. new \in free /\ UNCHANGED <<pgdir, npgdir, lost>>
      BY <1>1
    <3> QED BY <2>1, <3>1, <3>5, <3>6, PageTaken
  <2>5. \A pa \in Pages : PageInv(pa)'
    BY <1>10, <2>1, <2>2, <2>4 DEF AllPages
  <2>6. x # new
    BY <1>11, <2>1, <2>4, FreePage
  <2>7. FaultInv'
    BY <1>2, <1>9, <2>1, <2>6
  <2>8. SlotInv'
    BY <1>8, <2>2
  <2> QED BY <1>6, <1>7, <2>1, <2>3, <2>5, <2>7, <2>8
<1>12. ASSUME KallocFails, mem' = [mem EXCEPT ![pgdir[p][0].pa] = mem[x]],
              got' = [got EXCEPT ![p] = Page0]
       PROVE  IInv'
  <2>1. UNCHANGED <<free, free_pages, ref_cnt>>
    BY <1>12 DEF KallocFails, kmem
  <2>2. got' \in [Procs -> AllPages \cup {NoPage}] /\ got'[p] = Page0
        /\ \A q \in Procs \ {p} : got'[q] = got[q]
    BY <1>12 DEF TypeOK, AllPages
  <2>3. TypeOK' /\ FreePagesExact'
    BY <1>1, <1>2, <1>6, <1>12, <2>1, <2>2 DEF TypeOK, FreePagesExact
  <2>4. \A pa \in Pages : PageInv(pa)'
    BY <1>10, <2>1, <2>2, ConstantAssumptions
  <2> QED BY <1>5, <1>6, <1>7, <1>8, <1>9, <2>1, <2>2, <2>3, <2>4
<1> QED BY <1>11, <1>12 DEF PageFaultCopy

LEMMA PageFaultDoneStep ==
  ASSUME IInv, NEW p \in Procs, PageFaultDone(p)
  PROVE  IInv'
<1> USE DEF IInv, MemInv
<1> DEFINE v == at[p]
           x == pgdir[p][v].pa
           y == got[p]
           e == [pa |-> y, w |-> TRUE]
<1>1. /\ CanStep(p) /\ ~panicked /\ pc[p] = "fault"
      /\ ref_cnt' = [ref_cnt EXCEPT ![x] = @ - 1]
      /\ pgdir' = [pgdir EXCEPT ![p][v] = e]
      /\ got' = [got EXCEPT ![p] = NoPage] /\ at' = [at EXCEPT ![p] = 0]
      /\ pc' = [pc EXCEPT ![p] = "user"]
      /\ UNCHANGED <<free, free_pages, mem, kstack, ptpages, sz, npgdir, nptpages, nsz, other,
                     lost, panicked>>
  BY DEF PageFaultDone, At, CanStep, Goto
<1>2. SlotInv /\ SlotOk(p) /\ PteInv /\ FaultInv /\ \A q \in Procs : SizeInv(q)
  BY <1>1 DEF SlotInv
<1>3. v \in Vpns /\ Present(pgdir[p], v) /\ Sized(pgdir[p], sz[p]) /\ y # NoPage /\ y \in AllPages
  BY <1>1, <1>2 DEF SizeInv, SlotOk, TypeOK
<1>4. x \in AllPages /\ x # NoPage /\ e \in Pte /\ e.pa = y /\ NoPage \notin Pages
  BY <1>3, ConstantAssumptions DEF TypeOK, Pte, Present, AllPages
<1>5. Written(p, v, e, x)
  BY <1>1 DEF Written
<1> HIDE DEF e
<1>6. /\ pc'[p] = "user" /\ at'[p] = 0 /\ got'[p] = NoPage
      /\ \A q \in Procs \ {p} : pc'[q] = pc[q] /\ at'[q] = at[q] /\ got'[q] = got[q]
      /\ pc' \in [Procs -> Pcs] /\ at' \in [Procs -> 0 .. UserTop] /\ got' \in [Procs -> AllPages \cup {NoPage}]
      /\ ref_cnt' \in [AllPages -> Int] /\ ref_cnt'[x] = ref_cnt[x] - 1
      /\ \A pa \in AllPages \ {x} : ref_cnt'[pa] = ref_cnt[pa]
  BY <1>1, <1>4, ConstantAssumptions DEF TypeOK, Pcs
<1>7. /\ pgdir' \in [Procs -> [Vpns -> Pte]] /\ \A q \in Procs \ {p} : pgdir'[q] = pgdir[q]
      /\ \A u \in Vpns : Present(pgdir[p], u)' <=> Present(pgdir[p], u)
  <2>1. pgdir'[p][v] = e
    BY <1>1, <1>3 DEF TypeOK
  <2> QED BY <1>3, <1>4, <1>5, <2>1, WrittenEntries DEF Present
<1>8. TypeOK' /\ FreePagesExact' /\ PteInv'
  <2>1. PteInv'
    BY <1>2, <1>3, <1>4, <1>5, WrittenPteInv
  <2> QED BY <1>1, <1>6, <1>7, <2>1 DEF TypeOK, FreePagesExact
<1>9. \A q \in Procs : SizeInv(q)'
  <2>1. Mapped(pgdir[p])' = Mapped(pgdir[p])
    BY <1>7 DEF Mapped
  <2>2. SizeInv(p)'
    BY <1>1, <1>3, <1>6, <2>1 DEF SizeInv, Sized, Forking
  <2> QED BY <1>1, <1>2, <1>6, <1>7, <2>2, SizeFrame
<1>10. SlotInv'
  <2>1. \A q \in Procs : Waited(q)' <=> Waited(q)
    BY <1>1, <1>6 DEF Waited
  <2>2. SlotOk(p)'
    BY <1>1, <1>2, <1>6, <2>1, NotWaited DEF SlotOk, Forking
  <2> QED BY <1>1, <1>2, <1>6, <1>7, <2>2, SlotLocal DEF WorksOnSlot, Forking
<1>11. FaultInv'
  BY <1>1, <1>6, NoFaults
<1>12. OnlySteps(p)
  BY <1>1, <1>6 DEF OnlySteps
<1>13. ASSUME NEW pa \in Pages PROVE PageInv(pa)'
  <2>1. PageInv(pa) /\ pa \in AllPages
    BY <1>1 DEF AllPages
  <2>2. UserCount(pa)' = UserCount(pa) - One(x = pa) + One(y = pa)
    BY <1>3, <1>4, <1>5, EntryCount
  <2>3. ASSUME pa # y PROVE \A q \in Procs, k \in Holders : pa \in HeldBy(q, k)' <=> pa \in HeldBy(q, k)
    BY <1>1, <1>4, <1>6, <2>3 DEF HeldBy
  <2>4. \A q \in Procs : pc'[q] = "f_inc" => /\ pc[q] = "f_inc" /\ at'[q] = at[q] /\ q # p
                                             /\ at[q] \in Vpns /\ pgdir'[q] = pgdir[q]
    BY <1>2, <1>7, <1>12, Sharing DEF OnlySteps
  <2>5. CASE pa = y
    <3>1. y \in HeldBy(p, "got") /\ "got" \in Holders
      BY DEF HeldBy, Holders
    <3>2. /\ pa \notin free /\ pa \notin lost /\ UserCount(pa) = 0 /\ ref_cnt[pa] = 1
          /\ \A q \in Procs, k \in Holders : pa \in HeldBy(q, k) => q = p /\ k = "got"
          /\ \A q \in Procs, u \in Vpns : pgdir[q][u].pa # pa
      BY <2>1, <2>5, <3>1, HeldPage
    <3>3. x # pa
      BY <1>3, <3>2
    <3>4. UserCount(pa)' = 1 /\ ref_cnt'[pa] = 1
      BY <1>6, <2>1, <2>2, <2>5, <3>2, <3>3 DEF One
    <3>5. ~Owned(pa)'
      BY <1>1, <1>4, <1>6, <3>2 DEF Owned, InKernel, HeldBy, Holders
    <3>6. Uncounted(pa)' = {}
      BY <2>4, <3>2 DEF Uncounted
    <3> QED BY <1>1, <3>2, <3>4, <3>5, <3>6, PageUsed
  <2>6. CASE pa = x /\ pa # y
    <3> DEFINE c == Cardinality(Uncounted(pa))
    <3>1. /\ ~Owned(pa) /\ pa \notin free /\ UserCount(pa) \in Nat \ {0} /\ c \in Nat
          /\ ref_cnt[pa] = UserCount(pa) - c
      BY <1>1, <1>2, <1>3, <2>1, <2>6, MappedPage
    <3>2. UserCount(pa)' = UserCount(pa) - 1
      BY <2>2, <2>6, <3>1 DEF One
    <3>3. Uncounted(pa)' = Uncounted(pa)
      BY <1>7, <1>12 DEF Uncounted, OnlySteps
    <3>4. ~Owned(pa)' /\ ~InKernel(pa)' /\ pa \notin free'
      BY <1>1, <2>3, <2>6, <3>1 DEF Owned, InKernel
    <3>5. ref_cnt'[pa] = UserCount(pa)' - Cardinality(Uncounted(pa))'
      BY <1>6, <2>6, <3>1, <3>2, <3>3
    <3>6. NCPU = 1 => ref_cnt[pa] > 1
      BY <1>1, <1>2, <2>6 DEF FaultInv
    <3>7. NCPU = 1 => UserCount(pa)' > 0
      BY <3>1, <3>2, <3>6
    <3>8. \A q \in Procs, u \in Vpns :
           /\ ~(pgdir'[q][u].pa = pa /\ pgdir'[q][u].w)
           /\ ~(npgdir'[q][u].pa = pa /\ npgdir'[q][u].w)
      BY <1>3, <1>4, <1>5, <2>1, <2>6, NotWritable
    <3>9. \A q, r \in Procs, h, k \in Holders : ~(pa \in HeldBy(q, h)' /\ pa \in HeldBy(r, k)')
      BY <3>4 DEF InKernel
    <3> HIDE DEF c
    <3> QED BY <3>4, <3>5, <3>7, <3>8, <3>9 DEF PageInv
  <2>7. CASE pa # x /\ pa # y
    BY <1>1, <1>3, <1>4, <1>5, <1>6, <1>12, <2>1, <2>3, <2>7, OtherPages
  <2> QED BY <2>5, <2>6, <2>7
<1> QED BY <1>8, <1>9, <1>10, <1>11, <1>13

LEMMA SetupKvmStep ==
  ASSUME IInv, NEW p \in Procs, SetupKvm(p)
  PROVE  IInv'
<1> USE DEF IInv, MemInv
<1> DEFINE full == Cardinality(nptpages[p]) + 1 = KvmPages
           more == IF ~full THEN pc[p] ELSE IF pc[p] = "f_kvm" THEN "f_map" ELSE "e_load"
           done == IF pc[p] = "f_kvm" THEN "f_fail" ELSE "user"
<1>1. /\ CanStep(p) /\ ~panicked /\ pc[p] \in {"f_kvm", "e_kvm"}
      /\ UNCHANGED <<mem, kstack, pgdir, ptpages, sz, npgdir, nsz, at, other, got, panicked>>
  BY DEF SetupKvm, At, CanStep, local
<1>2. SlotInv /\ SlotOk(p) /\ PteInv /\ PteInv' /\ \A q \in Procs : SizeInv(q)
  BY <1>1 DEF SlotInv, PteInv, Present
<1>3. /\ at[p] = 0 /\ npgdir[p] = EmptyPgdir /\ Sized(pgdir[p], sz[p])
  BY <1>1, <1>2 DEF SlotOk, SizeInv, Forking
<1>4. /\ \A u \in Vpns : npgdir[p][u].w = FALSE /\ npgdir[p][u].pa = NoPage /\ ~(u < 0)
      /\ Mapped(npgdir[p]) = {} /\ PgRoundUp(sz[p]) \in Nat
  BY <1>3, Sizes, ConstantAssumptions DEF EmptyPgdir, NoPte, Mapped, Present, Vpns
<1>5. ASSUME NEW l \in {more, done}, pc' = [pc EXCEPT ![p] = l],
             nptpages' \in [Procs -> SUBSET Pages], \A q \in Procs \ {p} : nptpages'[q] = nptpages[q],
             l = done => nptpages'[p] = {}
      PROVE  /\ \A q \in Procs : SizeInv(q)'
             /\ SlotInv' /\ FaultInv' /\ pc' \in [Procs -> Pcs] /\ OnlySteps(p)
  <2>1. /\ l \in {"f_kvm", "e_kvm", "f_map", "e_load", "f_fail", "user"}
        /\ pc[p] = "f_kvm" => l \in {"f_kvm", "f_map", "f_fail"}
        /\ pc[p] = "e_kvm" => l \in {"e_kvm", "e_load", "user"}
        /\ l \in {"f_fail", "user"} => nptpages'[p] = {}
    BY <1>1, <1>5
  <2> HIDE DEF more, done
  <2>2. pc'[p] = l /\ pc' \in [Procs -> Pcs] /\ \A q \in Procs \ {p} : pc'[q] = pc[q]
    BY <1>5, <2>1 DEF TypeOK, Pcs
  <2>3. SizeInv(p)'
    <3>1. Mapped(pgdir[p])' = Mapped(pgdir[p]) /\ Mapped(npgdir[p])' = {}
      BY <1>1, <1>4 DEF Mapped, Present
    <3>2. Mapped(npgdir[p])' = 0 .. 0 - 1 /\ 0 <= ExecPages
      BY <3>1, ConstantAssumptions
    <3> QED BY <1>1, <1>3, <1>4, <2>1, <2>2, <3>1, <3>2 DEF SizeInv, Sized, Forking
  <2>4. \A q \in Procs : SizeInv(q)'
    BY <1>1, <1>2, <2>2, <2>3, SizeFrame
  <2>5. SlotInv'
    <3>1. \A q \in Procs : Waited(q)' <=> Waited(q)
      BY <1>1, <2>1, <2>2 DEF Waited
    <3>2. other[p] \in Procs /\ pc[p] = "f_kvm" => pc'[other[p]] = pc[other[p]]
      BY <1>1, <1>2, <2>2 DEF SlotOk, Forking
    <3>3. SlotOk(p)'
      BY <1>1, <1>2, <1>3, <2>1, <2>2, <3>1, <3>2, NotWaited DEF SlotOk, Forking
    <3> QED BY <1>1, <1>2, <1>5, <2>1, <2>2, <3>3, SlotLocal DEF WorksOnSlot, Forking
  <2>6. FaultInv'
    BY <1>1, <2>1, <2>2, NoFaults
  <2> QED BY <1>1, <2>1, <2>2, <2>4, <2>5, <2>6 DEF OnlySteps
<1>6. ASSUME NEW new \in free, Kalloc(new), nptpages' = [nptpages EXCEPT ![p] = @ \cup {new}],
             pc' = [pc EXCEPT ![p] = more], lost' = lost
      PROVE  IInv'
  <2>1. /\ new \in Pages /\ free' \in SUBSET Pages /\ free_pages' \in 0 .. Cardinality(Pages)
        /\ ref_cnt' \in [AllPages -> Int] /\ FreePagesExact' /\ new \notin free' /\ ref_cnt'[new] = 1
        /\ \A pa \in AllPages \ {new} : ref_cnt'[pa] = ref_cnt[pa] /\ (pa \in free' <=> pa \in free)
    BY <1>6, Kalloced
  <2>2. /\ nptpages' \in [Procs -> SUBSET Pages] /\ nptpages'[p] = nptpages[p] \cup {new}
        /\ \A q \in Procs \ {p} : nptpages'[q] = nptpages[q]
    BY <1>6, <2>1 DEF TypeOK
  <2>3. more # done
    BY <1>1
  <2> HIDE DEF more, done
  <2>4. /\ \A q \in Procs : SizeInv(q)'
        /\ SlotInv' /\ FaultInv' /\ pc' \in [Procs -> Pcs] /\ OnlySteps(p)
    BY <1>5, <1>6, <2>2, <2>3
  <2>5. TypeOK'
    BY <1>1, <1>6, <2>1, <2>2, <2>4 DEF TypeOK
  <2>6. PageInv(new)'
    <3>1. PageInv(new)
      BY <1>1, <2>1
    <3>2. \A q \in Procs, k \in Holders : new \notin HeldBy(q, k)
      BY <1>6, <2>1, <3>1, FreePage
    <3>3. \A q \in Procs, k \in Holders : new \in HeldBy(q, k)' <=> q = p /\ k = "nptpages"
      BY <1>1, <2>2, <3>2 DEF HeldBy, Holders
    <3>4. "nptpages" \in Holders
      BY DEF Holders
    <3>5. UNCHANGED <<pgdir, npgdir, lost>>
      BY <1>1, <1>6
    <3>6. \E r \in Procs, h \in Holders : \A q \in Procs, k \in Holders :
            new \in HeldBy(q, k)' <=> q = r /\ k = h
      BY <3>3, <3>4
    <3> QED BY <2>1, <3>1, <3>5, <3>6, PageTaken
  <2>7. ASSUME NEW pa \in Pages, pa # new PROVE PageInv(pa)'
    <3>1. \A q \in Procs, k \in Holders : pa \in HeldBy(q, k)' <=> pa \in HeldBy(q, k)
      BY <1>1, <2>2, <2>7 DEF HeldBy
    <3>2. pa \in AllPages
      BY DEF AllPages
    <3> QED BY <1>1, <1>6, <2>1, <2>4, <2>7, <3>1, <3>2, TablesKept DEF OnlySteps
  <2> QED BY <1>2, <2>1, <2>4, <2>5, <2>6, <2>7
<1>7. ASSUME KallocFails, lost' = lost \cup nptpages[p], nptpages' = [nptpages EXCEPT ![p] = {}],
             pc' = [pc EXCEPT ![p] = done]
      PROVE  IInv'
  <2>1. UNCHANGED <<free, free_pages, ref_cnt>>
    BY <1>7 DEF KallocFails, kmem
  <2>2. /\ nptpages' \in [Procs -> SUBSET Pages] /\ nptpages'[p] = {}
        /\ \A q \in Procs \ {p} : nptpages'[q] = nptpages[q]
    BY <1>7 DEF TypeOK
  <2> HIDE DEF more, done
  <2>3. /\ \A q \in Procs : SizeInv(q)'
        /\ SlotInv' /\ FaultInv' /\ pc' \in [Procs -> Pcs] /\ OnlySteps(p)
    BY <1>5, <1>7, <2>2
  <2>4. TypeOK' /\ FreePagesExact'
    BY <1>1, <1>7, <2>1, <2>2, <2>3 DEF TypeOK, FreePagesExact
  <2>5. ASSUME NEW pa \in nptpages[p] PROVE PageInv(pa)'
    <3>1. pa \in HeldBy(p, "nptpages") /\ "nptpages" \in Holders
      BY DEF HeldBy, Holders
    <3>2. pa \in Pages /\ PageInv(pa)
      BY <1>1 DEF TypeOK
    <3>3. /\ pa \notin free /\ UserCount(pa) = 0 /\ ref_cnt[pa] = 1
          /\ \A q \in Procs, k \in Holders : pa \in HeldBy(q, k) => q = p /\ k = "nptpages"
          /\ \A q \in Procs, u \in Vpns : pgdir[q][u].pa # pa /\ npgdir[q][u].pa # pa
      BY <3>1, <3>2, HeldPage
    <3>4. \A q \in Procs, k \in Holders : pa \notin HeldBy(q, k)'
      BY <1>1, <2>2, <3>3 DEF HeldBy, Holders
    <3>5. UserCount(pa)' = 0
      BY <1>1, <3>3 DEF UserCount, UserRefs, NewRefs
    <3>6. Owned(pa)' /\ ~InKernel(pa)'
      BY <1>7, <3>4 DEF Owned, InKernel
    <3> QED BY <1>1, <2>1, <3>3, <3>4, <3>5, <3>6 DEF PageInv
  <2>6. ASSUME NEW pa \in Pages, pa \notin nptpages[p] PROVE PageInv(pa)'
    <3>1. \A q \in Procs, k \in Holders : pa \in HeldBy(q, k)' <=> pa \in HeldBy(q, k)
      BY <1>1, <2>2, <2>6 DEF HeldBy
    <3> QED BY <1>1, <1>7, <2>1, <2>3, <2>6, <3>1, TablesKept DEF OnlySteps
  <2> QED BY <1>2, <2>3, <2>4, <2>5, <2>6
<1> QED BY <1>6, <1>7 DEF SetupKvm, Goto

\* The process that p forks or waits for gets a new state, and p is done with it.
LEMMA SlotReturn ==
  ASSUME SlotInv, NEW p \in Procs, WorksOnSlot(p), NEW c, c = other[p],
         pc'[p] = "user", pc'[c] \in {"unused", "user"}, other' = [other EXCEPT ![p] = NoProc],
         other \in [Procs -> Procs \cup {NoProc}],
         \A q \in Procs \ {p, c} :
           /\ pc'[q] = pc[q] /\ at'[q] = at[q] /\ pgdir'[q] = pgdir[q] /\ npgdir'[q] = npgdir[q]
           /\ ptpages'[q] = ptpages[q] /\ nptpages'[q] = nptpages[q] /\ got'[q] = got[q]
           /\ kstack'[q] = kstack[q],
         ~Waited(p)' /\ ~Waited(c)' => SlotOk(p)' /\ SlotOk(c)'
  PROVE  SlotInv'
<1>1. c \in Procs /\ p # c /\ pc[p] \notin {"embryo", "zombie"} /\ NoProc \notin Procs
      /\ other'[p] = NoProc /\ \A q \in Procs \ {p} : other'[q] = other[q]
  BY SlotWork, ConstantAssumptions DEF WorksOnSlot, Forking
<1>2. \A q \in Procs : WorksOnSlot(q)' => q \notin {p, c} /\ WorksOnSlot(q)
  BY <1>1 DEF WorksOnSlot, Forking
<1>3. \A q \in Procs : WorksOnSlot(q) /\ q # p => other[q] \in Procs \ {p, c}
  BY <1>1, SlotWork DEF SlotInv
<1>4. ~Waited(p)' /\ ~Waited(c)'
  <2>1. \A q \in Procs : pc'[q] = "w_free" => other'[q] \notin {p, c}
    BY <1>1, <1>2, <1>3 DEF WorksOnSlot
  <2> QED BY <2>1 DEF Waited
<1>5. \A q \in Procs \ {p, c} : Waited(q)' <=> Waited(q)
  <2> SUFFICES ASSUME NEW q \in Procs \ {p, c} PROVE Waited(q)' <=> Waited(q)
    OBVIOUS
  <2>1. ASSUME NEW r \in Procs, pc'[r] = "w_free", other'[r] = q PROVE pc[r] = "w_free" /\ other[r] = q
    BY <1>1, <2>1
  <2>2. ASSUME NEW r \in Procs, pc[r] = "w_free", other[r] = q PROVE pc'[r] = "w_free" /\ other'[r] = q
    <3>1. r # p /\ r # c
      BY <1>1, <2>2, SlotWork DEF WorksOnSlot, Forking
    <3> QED BY <1>1, <2>2, <3>1
  <2> QED BY <2>1, <2>2 DEF Waited
<1>6. ASSUME NEW q \in Procs \ {p, c} PROVE SlotOk(q)'
  <2>1. SlotOk(q)
    BY DEF SlotInv
  <2>2. WorksOnSlot(q) => pc'[other[q]] = pc[other[q]] /\ kstack'[other[q]] = kstack[other[q]]
    BY <1>3
  <2> QED BY <1>1, <1>5, <2>1, <2>2, SlotFrame
<1>7. \A q, r \in Procs : WorksOnSlot(q)' /\ WorksOnSlot(r)' /\ other'[q] = other'[r] => q = r
  <2>1. \A q \in Procs \ {p} : WorksOnSlot(q)' => WorksOnSlot(q) /\ other'[q] = other[q]
    BY <1>1, <1>2
  <2> QED BY <1>2, <2>1, SlotsApart
<1> QED BY <1>4, <1>6, <1>7 DEF SlotInv

LEMMA ForkKstackStep ==
  ASSUME IInv, NEW p \in Procs, ForkKstack(p)
  PROVE  IInv'
<1> USE DEF IInv, MemInv
<1>1. /\ CanStep(p) /\ ~panicked /\ pc[p] = "f_kstack"
      /\ UNCHANGED <<mem, pgdir, ptpages, sz, npgdir, nptpages, nsz, at, got, lost, panicked>>
  BY DEF ForkKstack, At, CanStep
<1>2. SlotInv /\ SlotOk(p) /\ PteInv /\ PteInv' /\ \A q \in Procs : SizeInv(q)
  BY <1>1 DEF SlotInv, PteInv, Present
<1>3. PICK c \in Procs : /\ c = other[p] /\ WorksOnSlot(p) /\ pc[c] = "embryo" /\ c # p
                        /\ kstack[c] = NoPage /\ SlotOk(c)
  BY <1>1, <1>2 DEF SlotInv, SlotOk, WorksOnSlot, Forking
<1>4. ASSUME NEW new \in free, Kalloc(new), kstack' = [kstack EXCEPT ![c] = new],
             pc' = [pc EXCEPT ![p] = "f_kvm"], other' = other
      PROVE  IInv'
  <2>1. /\ new \in Pages /\ free' \in SUBSET Pages /\ free_pages' \in 0 .. Cardinality(Pages)
        /\ ref_cnt' \in [AllPages -> Int] /\ FreePagesExact' /\ new \notin free' /\ ref_cnt'[new] = 1
        /\ \A pa \in AllPages \ {new} : ref_cnt'[pa] = ref_cnt[pa] /\ (pa \in free' <=> pa \in free)
    BY <1>4, Kalloced
  <2>2. /\ kstack' \in [Procs -> Pages \cup {NoPage}] /\ kstack'[c] = new /\ new # NoPage
        /\ \A q \in Procs \ {c} : kstack'[q] = kstack[q]
        /\ pc' \in [Procs -> Pcs] /\ pc'[p] = "f_kvm" /\ \A q \in Procs \ {p} : pc'[q] = pc[q]
    BY <1>3, <1>4, <2>1, ConstantAssumptions DEF TypeOK, Pcs, AllPages
  <2>3. TypeOK'
    BY <1>1, <1>4, <2>1, <2>2 DEF TypeOK
  <2>4. \A q \in Procs : SizeInv(q)'
    <3>1. SizeInv(p)'
      BY <1>1, <1>2, <2>2 DEF SizeInv, Sized, Mapped, Present, Forking
    <3> QED BY <1>1, <1>2, <2>2, <3>1, SizeFrame
  <2>5. SlotInv'
    <3>1. \A q \in Procs : Waited(q)' <=> Waited(q)
      BY <1>1, <1>4, <2>2 DEF Waited
    <3>2. \A q \in Procs \ {p} : WorksOnSlot(q) => other[q] \in Procs \ {p, c}
      BY <1>1, <1>2, <1>3, SlotWork DEF SlotInv
    <3>3. SlotOk(p)'
      BY <1>1, <1>2, <1>3, <1>4, <2>2, <3>1, NotWaited DEF SlotOk, Forking
    <3>4. SlotOk(c)'
      BY <1>1, <1>2, <1>3, <1>4, <2>2, <3>1, NotWaited DEF SlotOk, Forking
    <3>5. ASSUME NEW q \in Procs \ {p, c} PROVE SlotOk(q)'
      <4>1. SlotOk(q)
        BY <1>2 DEF SlotInv
      <4>2. WorksOnSlot(q) => pc'[other[q]] = pc[other[q]] /\ kstack'[other[q]] = kstack[other[q]]
        BY <2>2, <3>2
      <4> QED BY <1>1, <1>4, <2>2, <3>1, <4>1, <4>2, SlotFrame
    <3>6. \A q \in Procs : WorksOnSlot(q)' => WorksOnSlot(q) /\ other'[q] = other[q]
      BY <1>1, <1>4, <2>2 DEF WorksOnSlot, Forking
    <3>7. \A q, r \in Procs : WorksOnSlot(q)' /\ WorksOnSlot(r)' /\ other'[q] = other'[r] => q = r
      BY <1>2, <3>6, SlotsApart
    <3> QED BY <3>3, <3>4, <3>5, <3>7 DEF SlotInv
  <2>6. FaultInv'
    BY <1>1, <2>2, NoFaults
  <2>7. PageInv(new)'
    <3>1. PageInv(new)
      BY <1>1, <2>1
    <3>2. \A q \in Procs, k \in Holders : new \notin HeldBy(q, k)
      BY <1>4, <2>1, <3>1, FreePage
    <3>3. \A q \in Procs, k \in Holders : new \in HeldBy(q, k)' <=> q = c /\ k = "kstack"
      BY <1>1, <2>2, <3>2 DEF HeldBy, Holders
    <3>4. "kstack" \in Holders
      BY DEF Holders
    <3>5. UNCHANGED <<pgdir, npgdir, lost>>
      BY <1>1
    <3>6. new \in free /\ new \in Pages /\ new \notin free' /\ ref_cnt'[new] = 1
      BY <2>1
    <3>7. c \in Procs
      BY <1>3
    <3>8. \E r \in Procs, h \in Holders : \A q \in Procs, k \in Holders :
            new \in HeldBy(q, k)' <=> q = r /\ k = h
      BY <3>3, <3>4, <3>7
    <3> QED BY <3>1, <3>5, <3>6, <3>8, PageTaken
  <2>8. ASSUME NEW pa \in Pages, pa # new PROVE PageInv(pa)'
    <3>1. \A q \in Procs, k \in Holders : pa \in HeldBy(q, k)' <=> pa \in HeldBy(q, k)
      <4>1. pa # NoPage
        BY ConstantAssumptions DEF AllPages
      <4>2. \A q \in Procs : pa = kstack'[q] <=> pa = kstack[q]
        BY <1>3, <2>2, <2>8, <4>1
      <4> QED BY <1>1, <4>2 DEF HeldBy, Holders
    <3>2. pa \in AllPages
      BY DEF AllPages
    <3>3. \A q \in Procs : /\ pc'[q] = "f_inc" <=> pc[q] = "f_inc"
                           /\ pc[q] = "f_inc" => at'[q] = at[q]
      BY <1>1, <2>2
    <3> QED BY <1>1, <1>4, <2>1, <2>8, <3>1, <3>2, <3>3, TablesKept
  <2> QED BY <1>2, <2>1, <2>3, <2>4, <2>5, <2>6, <2>7, <2>8
<1>5. ASSUME KallocFails, Return(p, "unused"), kstack' = kstack
      PROVE  IInv'
  <2>1. SameTables /\ UNCHANGED <<mem, at, sz, nsz, panicked>>
    BY <1>1, <1>5 DEF SameTables, KallocFails, kmem
  <2>2. /\ pc'[p] = "user" /\ pc'[c] = "unused" /\ other' = [other EXCEPT ![p] = NoProc]
        /\ \A q \in Procs \ {p, c} : pc'[q] = pc[q]
        /\ pc' \in [Procs -> Pcs]
    BY <1>3, <1>5 DEF Return, TypeOK, Pcs
  <2>3. TypeOK'
    BY <2>1, <2>2 DEF TypeOK, SameTables
  <2>4. \A q \in Procs : SizeInv(q)'
    <3>1. SizeInv(p)'
      BY <1>1, <1>2, <2>1, <2>2 DEF SizeInv, Sized, Mapped, Present, Forking, SameTables
    <3>2. SizeInv(c)'
      BY <2>2 DEF SizeInv, Forking
    <3> QED BY <1>2, <2>1, <2>2, <3>1, <3>2, SizeFrame DEF SameTables
  <2>5. SlotInv'
    <3>1. ~Waited(p)' /\ ~Waited(c)' => SlotOk(p)' /\ SlotOk(c)'
      BY <1>1, <1>2, <1>3, <2>1, <2>2, NotWaited DEF SlotOk, Forking, SameTables
    <3> QED BY <1>2, <1>3, <2>1, <2>2, <3>1, SlotReturn DEF SameTables, TypeOK
  <2>6. FaultInv'
    BY <1>1, <2>2, NoFaults
  <2>7. \A q \in Procs : /\ pc'[q] = "f_inc" <=> pc[q] = "f_inc"
                         /\ pc[q] = "f_inc" => at'[q] = at[q]
    BY <1>1, <1>3, <2>1, <2>2
  <2> QED BY <1>1, <2>1, <2>3, <2>4, <2>5, <2>6, <2>7, QuietPages
<1> QED BY <1>1, <1>3, <1>4, <1>5 DEF ForkKstack, Goto

LEMMA ForkMapStep ==
  ASSUME IInv, NEW p \in Procs, ForkMap(p)
  PROVE  IInv'
<1> USE DEF IInv, MemInv
<1>1. /\ CanStep(p) /\ ~panicked /\ pc[p] = "f_map" /\ at[p] * PGSIZE < sz[p]
      /\ UNCHANGED <<free, free_pages, ref_cnt, mem, kstack, ptpages, sz, nptpages, nsz, at, other,
                     got, lost>>
  BY DEF ForkMap, At, CanStep, CowMore, kmem, local
<1>2. SlotInv /\ SlotOk(p) /\ PteInv /\ \A q \in Procs : SizeInv(q)
  BY <1>1 DEF SlotInv
<1>3. PICK v \in Vpns : v = at[p] /\ v \in Nat /\ v < PgRoundUp(sz[p]) /\ Present(pgdir[p], v)
                        /\ PgRoundUp(sz[p]) \in Nat
  <2>1. /\ at[p] \in Nat /\ PgRoundUp(sz[p]) \in 0 .. UserTop /\ UserTop \in Nat /\ sz[p] \in Nat
    BY Sizes
  <2>2. at[p] < PgRoundUp(sz[p])
    BY <1>1, <2>1, RoundUp
  <2>3. at[p] \in Mapped(pgdir[p])
    BY <1>1, <1>2, <2>1, <2>2 DEF SizeInv, Sized, Forking
  <2> QED BY <2>1, <2>2, <2>3 DEF Mapped
<1>4. PICK x \in AllPages : x = pgdir[p][v].pa /\ x # NoPage
  BY <1>3 DEF Present, TypeOK, Pte
<1>5. /\ pgdir' = [pgdir EXCEPT ![p][v].w = FALSE]
      /\ npgdir' = [npgdir EXCEPT ![p][v] = [pa |-> x, w |-> FALSE]]
      /\ pc' = [pc EXCEPT ![p] = "f_inc"] /\ UNCHANGED panicked
  BY <1>3, <1>4 DEF ForkMap, Goto
<1>6. PICK e \in Pte : /\ e.pa = x /\ e.w = FALSE
                       /\ pgdir' = [pgdir EXCEPT ![p][v] = e] /\ npgdir' = [npgdir EXCEPT ![p][v] = e]
  <2> DEFINE b == FALSE
             e == [pa |-> x, w |-> b]
  <2>1. b \in BOOLEAN /\ pgdir' = [pgdir EXCEPT ![p][v].w = b] /\ e \in Pte /\ e.pa = x /\ e.w = FALSE
        /\ npgdir' = [npgdir EXCEPT ![p][v] = e]
    BY <1>5 DEF Pte
  <2>2. pgdir \in Tables
    BY DEF TypeOK, Tables
  <2>3. e = [pa |-> pgdir[p][v].pa, w |-> b]
    BY <1>4
  <2> HIDE DEF b, e
  <2>4. [pgdir[p][v] EXCEPT !.w = b] = [pa |-> pgdir[p][v].pa, w |-> b]
    <3>1. pgdir[p][v] \in Pte
      BY <2>2 DEF Tables
    <3> QED BY <2>1, <3>1 DEF Pte
  <2>5. [pgdir EXCEPT ![p][v].w = b] = [pgdir EXCEPT ![p][v] = [pgdir[p][v] EXCEPT !.w = b]]
    BY <2>2 DEF Tables
  <2> QED BY <2>1, <2>3, <2>4, <2>5
<1>7. /\ pgdir' \in [Procs -> [Vpns -> Pte]] /\ npgdir' \in [Procs -> [Vpns -> Pte]]
      /\ \A q \in Procs \ {p} : pgdir'[q] = pgdir[q] /\ npgdir'[q] = npgdir[q]
      /\ \A q \in Procs, u \in Vpns :
           (q # p \/ u # v) => pgdir'[q][u] = pgdir[q][u] /\ npgdir'[q][u] = npgdir[q][u]
      /\ pgdir'[p][v] = e /\ npgdir'[p][v] = e
  BY <1>6 DEF TypeOK
<1>8. pc'[p] = "f_inc" /\ pc' \in [Procs -> Pcs] /\ \A q \in Procs \ {p} : pc'[q] = pc[q]
  BY <1>5 DEF TypeOK, Pcs
<1>9. TypeOK' /\ FreePagesExact'
  BY <1>1, <1>5, <1>7, <1>8 DEF TypeOK, FreePagesExact
<1>10. PteInv'
  <2> SUFFICES ASSUME NEW q \in Procs, NEW u \in Vpns
               PROVE  /\ pgdir'[q][u].w => pgdir'[q][u].pa # NoPage
                      /\ npgdir'[q][u].w => npgdir'[q][u].pa # NoPage
    BY DEF PteInv, Present
  <2>1. CASE q = p /\ u = v
    BY <1>4, <1>6, <1>7, <2>1
  <2>2. CASE q # p \/ u # v
    BY <1>2, <1>7, <2>2 DEF PteInv, Present
  <2> QED BY <2>1, <2>2
<1>11. /\ \A u \in Vpns : pgdir'[p][u].pa = pgdir[p][u].pa
       /\ \A u \in Vpns : /\ npgdir[p][u].w = FALSE
                          /\ npgdir[p][u].pa = IF u < v THEN pgdir[p][u].pa ELSE NoPage
  <2>1. \A u \in Vpns : pgdir'[p][u].pa = pgdir[p][u].pa
    BY <1>4, <1>6, <1>7
  <2> QED BY <1>1, <1>2, <1>3, <2>1 DEF SizeInv
<1>12. \A q \in Procs : SizeInv(q)'
  <2>1. Mapped(pgdir[p])' = Mapped(pgdir[p])
    BY <1>11 DEF Mapped, Present
  <2>2. Sized(pgdir[p], sz[p])
    BY <1>1, <1>2 DEF SizeInv, Forking
  <2>3. \A u \in Vpns : u \in Nat
    BY ConstantAssumptions DEF Vpns
  <2>4. \A u \in Vpns : /\ npgdir'[p][u].w = FALSE
                        /\ npgdir'[p][u].pa = IF u < v \/ u = v THEN pgdir'[p][u].pa ELSE NoPage
    <3> TAKE u \in Vpns
    <3>1. CASE u = v
      BY <1>3, <1>4, <1>6, <1>7, <1>11, <3>1
    <3>2. CASE u # v
      BY <1>7, <1>11, <3>2
    <3> QED BY <3>1, <3>2
  <2>5. SizeInv(p)'
    BY <1>1, <1>3, <1>8, <2>1, <2>2, <2>4 DEF SizeInv, Sized, Forking
  <2> QED BY <1>1, <1>2, <1>7, <1>8, <2>5, SizeFrame
<1>13. SlotInv'
  <2>1. \A q \in Procs : Waited(q)' <=> Waited(q)
    BY <1>1, <1>8 DEF Waited
  <2>2. other[p] \in Procs /\ pc'[other[p]] = "embryo"
    BY <1>1, <1>2, <1>8 DEF SlotOk, Forking
  <2>3. SlotOk(p)'
    BY <1>1, <1>2, <1>8, <2>1, <2>2, NotWaited DEF SlotOk, Forking
  <2> QED BY <1>1, <1>2, <1>7, <1>8, <2>3, SlotLocal DEF WorksOnSlot, Forking
<1>14. FaultInv'
  BY <1>1, <1>8, NoFaults
<1>15. ASSUME NEW pa \in Pages PROVE PageInv(pa)'
  <2>1. PageInv(pa)
    BY <1>1
  <2>2. \A q \in Procs, k \in Holders : pa \in HeldBy(q, k)' <=> pa \in HeldBy(q, k)
    BY <1>1 DEF HeldBy
  <2>3. npgdir[p][v].pa = NoPage /\ NoPage # pa
    BY <1>3, <1>11, ConstantAssumptions DEF AllPages
  <2>4. CASE pa # x
    <3>1. \A q \in Procs, u \in Vpns :
            /\ pgdir'[q][u].pa = pa <=> pgdir[q][u].pa = pa
            /\ npgdir'[q][u].pa = pa <=> npgdir[q][u].pa = pa
            /\ pgdir'[q][u].pa = pa /\ pgdir'[q][u].w => pgdir[q][u].w
            /\ npgdir'[q][u].pa = pa /\ npgdir'[q][u].w => npgdir[q][u].w
      <4> TAKE q \in Procs, u \in Vpns
      <4>1. CASE q = p /\ u = v
        BY <1>4, <1>6, <1>7, <2>3, <2>4, <4>1
      <4>2. CASE q # p \/ u # v
        BY <1>7, <4>2
      <4> QED BY <4>1, <4>2
    <3>2. \A q \in Procs : (pc'[q] = "f_inc" /\ pgdir'[q][at'[q]].pa = pa) <=>
                           (pc[q] = "f_inc" /\ pgdir[q][at[q]].pa = pa)
      BY <1>1, <1>3, <1>4, <1>6, <1>7, <1>8, <2>4
    <3> QED BY <1>1, <2>1, <2>2, <3>1, <3>2, PageFrame
  <2>5. CASE pa = x
    <3> DEFINE c == Cardinality(Uncounted(pa))
    <3>1. /\ ~Owned(pa) /\ pa \notin free /\ UserCount(pa) \in Nat \ {0} /\ c \in Nat
          /\ ref_cnt[pa] = UserCount(pa) - c
      BY <1>2, <1>4, <2>1, <2>5, MappedPage
    <3>2. UserCount(pa)' = UserCount(pa) + 1
      <4>1. pgdir \in Tables /\ npgdir \in Tables /\ Count(pgdir, pa) \in Nat /\ Count(npgdir, pa) \in Nat
        BY Finite DEF TypeOK, Tables
      <4>2. /\ Count([pgdir EXCEPT ![p][v] = e], pa) =
                 Count(pgdir, pa) - One(pgdir[p][v].pa = pa) + One(e.pa = pa)
            /\ Count([npgdir EXCEPT ![p][v] = e], pa) =
                 Count(npgdir, pa) - One(npgdir[p][v].pa = pa) + One(e.pa = pa)
        BY <4>1, CountEntry
      <4>3. Count(pgdir', pa) = Count(pgdir, pa) /\ Count(npgdir', pa) = Count(npgdir, pa) + 1
        BY <1>4, <1>6, <2>3, <2>5, <4>1, <4>2 DEF One
      <4> QED BY <4>1, <4>3 DEF UserCount, UserRefs, NewRefs, Count
    <3>3. Cardinality(Uncounted(pa))' = c + 1
      <4>1. Uncounted(pa)' = Uncounted(pa) \cup {p} /\ p \notin Uncounted(pa)
        BY <1>1, <1>3, <1>4, <1>6, <1>7, <1>8, <2>5 DEF Uncounted
      <4>2. IsFiniteSet(Uncounted(pa))
        <5>1. Uncounted(pa) \in SUBSET Procs
          BY DEF Uncounted
        <5> QED BY <5>1, ConstantAssumptions, FS_Subset
      <4> QED BY <4>1, <4>2, FS_AddElement
    <3>4. ~Owned(pa)' /\ ~InKernel(pa)' /\ pa \notin free'
      BY <1>1, <2>2, <3>1 DEF Owned, InKernel
    <3>5. ref_cnt'[pa] = UserCount(pa)' - Cardinality(Uncounted(pa))' /\ UserCount(pa)' > 0
      BY <1>1, <3>1, <3>2, <3>3
    <3>6. ASSUME NEW q \in Procs, NEW u \in Vpns
          PROVE  /\ ~(pgdir'[q][u].pa = pa /\ pgdir'[q][u].w)
                 /\ ~(npgdir'[q][u].pa = pa /\ npgdir'[q][u].w)
      <4>1. CASE q = p /\ u = v
        BY <1>6, <1>7, <4>1
      <4>2. CASE q # p \/ u # v
        <5>1. pgdir'[q][u] = pgdir[q][u] /\ npgdir'[q][u] = npgdir[q][u]
          BY <1>7, <4>2
        <5>2. UserCount(pa) = 1 => UserRefs(pa) = {<<p, v>>} /\ NewRefs(pa) = {}
          BY <1>4, <2>5, Sole
        <5>3. UserCount(pa) = 1 => pgdir[q][u].pa # pa /\ npgdir[q][u].pa # pa
          <6>1. /\ pgdir[q][u].pa = pa <=> <<q, u>> \in UserRefs(pa)
                /\ npgdir[q][u].pa = pa <=> <<q, u>> \in NewRefs(pa)
            BY DEF UserRefs, NewRefs, TableRefs
          <6>2. <<q, u>> # <<p, v>>
            BY <4>2
          <6> QED BY <5>2, <6>1, <6>2
        <5> QED BY <2>1, <5>1, <5>3 DEF PageInv
      <4> QED BY <4>1, <4>2
    <3>7. \A q, r \in Procs, h, k \in Holders : ~(pa \in HeldBy(q, h)' /\ pa \in HeldBy(r, k)')
      BY <3>4 DEF InKernel
    <3> HIDE DEF c
    <3> QED BY <3>4, <3>5, <3>6, <3>7 DEF PageInv
  <2> QED BY <2>4, <2>5
<1> QED BY <1>9, <1>10, <1>12, <1>13, <1>14, <1>15

LEMMA ForkIncStep ==
  ASSUME IInv, NEW p \in Procs, ForkInc(p)
  PROVE  IInv'
<1> USE DEF IInv, MemInv
<1>1. /\ CanStep(p) /\ ~panicked /\ pc[p] = "f_inc"
      /\ ref_cnt' = [ref_cnt EXCEPT ![pgdir[p][at[p]].pa] = @ + 1]
      /\ at' = [at EXCEPT ![p] = @ + 1] /\ pc' = [pc EXCEPT ![p] = "f_map"]
      /\ UNCHANGED <<free, free_pages, mem, kstack, pgdir, ptpages, sz, npgdir, nptpages, nsz, other,
                     got, lost, panicked>>
  BY DEF ForkInc, At, CanStep, Goto
<1>2. SlotInv /\ SlotOk(p) /\ PteInv /\ PteInv' /\ \A q \in Procs : SizeInv(q)
  BY <1>1 DEF SlotInv, PteInv, Present
<1>3. PICK v \in Vpns : v = at[p] /\ v \in Nat /\ v < PgRoundUp(sz[p]) /\ Present(pgdir[p], v)
                        /\ PgRoundUp(sz[p]) \in 0 .. UserTop /\ UserTop \in Nat
  <2>1. /\ at[p] \in Nat /\ PgRoundUp(sz[p]) \in 0 .. UserTop /\ UserTop \in Nat
    BY Sizes
  <2>2. at[p] < PgRoundUp(sz[p])
    BY <1>1, <1>2 DEF SizeInv
  <2>3. at[p] \in Mapped(pgdir[p])
    BY <1>1, <1>2, <2>1, <2>2 DEF SizeInv, Sized, Forking
  <2> QED BY <2>1, <2>2, <2>3 DEF Mapped
<1>4. PICK x \in AllPages : x = pgdir[p][v].pa
  BY <1>3 DEF Present, TypeOK, Pte
<1>5. /\ pc'[p] = "f_map" /\ at'[p] = v + 1 /\ pc' \in [Procs -> Pcs] /\ at' \in [Procs -> 0 .. UserTop]
      /\ \A q \in Procs \ {p} : pc'[q] = pc[q] /\ at'[q] = at[q]
      /\ ref_cnt' \in [AllPages -> Int] /\ ref_cnt'[x] = ref_cnt[x] + 1
      /\ \A pa \in AllPages \ {x} : ref_cnt'[pa] = ref_cnt[pa]
  BY <1>1, <1>3, <1>4 DEF TypeOK, Pcs
<1>6. TypeOK' /\ FreePagesExact'
  BY <1>1, <1>5 DEF TypeOK, FreePagesExact
<1>7. \A q \in Procs : SizeInv(q)'
  <2>1. \A u \in Vpns : u \in Nat
    BY ConstantAssumptions DEF Vpns
  <2>2. \A u \in Vpns : npgdir[p][u].w = FALSE /\ npgdir[p][u].pa = IF u < v + 1 THEN pgdir[p][u].pa ELSE NoPage
    BY <1>1, <1>2, <1>3, <2>1 DEF SizeInv
  <2>3. Sized(pgdir[p], sz[p])' <=> Sized(pgdir[p], sz[p])
    BY <1>1 DEF Sized, Mapped, Present
  <2>4. SizeInv(p)'
    BY <1>1, <1>2, <1>3, <1>5, <2>2, <2>3 DEF SizeInv, Forking
  <2> QED BY <1>1, <1>2, <1>5, <2>4, SizeFrame
<1>8. SlotInv'
  <2>1. \A q \in Procs : Waited(q)' <=> Waited(q)
    BY <1>1, <1>5 DEF Waited
  <2>2. other[p] \in Procs /\ pc'[other[p]] = "embryo"
    BY <1>1, <1>2, <1>5 DEF SlotOk, Forking
  <2>3. SlotOk(p)'
    BY <1>1, <1>2, <1>5, <2>1, <2>2, NotWaited DEF SlotOk, Forking
  <2> QED BY <1>1, <1>2, <1>5, <2>3, SlotLocal DEF WorksOnSlot, Forking
<1>9. FaultInv'
  BY <1>1, <1>5, NoFaults
<1>10. ASSUME NEW pa \in Pages PROVE PageInv(pa)'
  <2>1. PageInv(pa)
    BY <1>1
  <2>2. \A q \in Procs, k \in Holders : HeldBy(q, k)' = HeldBy(q, k)
    BY <1>1 DEF HeldBy, Holders
  <2>3. CASE pa # x
    <3>1. \A q \in Procs : (pc'[q] = "f_inc" /\ pgdir'[q][at'[q]].pa = pa) <=>
                           (pc[q] = "f_inc" /\ pgdir[q][at[q]].pa = pa)
      BY <1>1, <1>3, <1>4, <1>5, <2>3
    <3>2. pa \in AllPages /\ ref_cnt'[pa] = ref_cnt[pa]
      BY <1>5, <2>3 DEF AllPages
    <3> QED BY <1>1, <2>1, <2>2, <3>1, <3>2, PageFrame
  <2>4. CASE pa = x
    <3> DEFINE c == Cardinality(Uncounted(pa))
    <3>1. /\ ~Owned(pa) /\ pa \notin free /\ UserCount(pa) \in Nat \ {0} /\ c \in Nat
          /\ ref_cnt[pa] = UserCount(pa) - c
      BY <1>2, <1>4, <2>1, <2>4, MappedPage
    <3>2. UserCount(pa)' = UserCount(pa)
      BY <1>1 DEF UserCount, UserRefs, NewRefs
    <3>3. Cardinality(Uncounted(pa))' = c - 1
      <4>1. Uncounted(pa)' = Uncounted(pa) \ {p} /\ p \in Uncounted(pa)
        BY <1>1, <1>3, <1>4, <1>5, <2>4 DEF Uncounted
      <4>2. IsFiniteSet(Uncounted(pa))
        <5>1. Uncounted(pa) \in SUBSET Procs
          BY DEF Uncounted
        <5> QED BY <5>1, ConstantAssumptions, FS_Subset
      <4> QED BY <4>1, <4>2, FS_RemoveElement
    <3>4. ~Owned(pa)' /\ ~InKernel(pa)' /\ pa \notin free'
      BY <1>1, <2>2, <3>1 DEF Owned, InKernel
    <3>5. ref_cnt'[pa] = UserCount(pa)' - Cardinality(Uncounted(pa))' /\ UserCount(pa)' > 0
      BY <1>5, <2>4, <3>1, <3>2, <3>3
    <3>6. \A q \in Procs, u \in Vpns :
            (\/ pgdir'[q][u].pa = pa /\ pgdir'[q][u].w
             \/ npgdir'[q][u].pa = pa /\ npgdir'[q][u].w) => UserCount(pa) = 1
      BY <1>1, <2>1 DEF PageInv
    <3>7. \A q, r \in Procs, h, k \in Holders : ~(pa \in HeldBy(q, h)' /\ pa \in HeldBy(r, k)')
      BY <3>4 DEF InKernel
    <3> HIDE DEF c
    <3> QED BY <3>2, <3>4, <3>5, <3>6, <3>7 DEF PageInv
  <2> QED BY <2>3, <2>4
<1> QED BY <1>2, <1>6, <1>7, <1>8, <1>9, <1>10

\* Nothing that is about to count a reference refers to a page without users.
LEMMA NotCounted ==
  ASSUME IInv, NEW p \in Procs, OnlySteps(p), \A q \in Procs \ {p} : pgdir'[q] = pgdir[q], NEW pa,
         \A q \in Procs, u \in Vpns : pgdir[q][u].pa # pa
  PROVE  Uncounted(pa)' = {}
<1>1. \A q \in Procs : pc'[q] = "f_inc" => /\ pc[q] = "f_inc" /\ at'[q] = at[q] /\ q # p
                                           /\ at[q] \in Vpns /\ pgdir'[q] = pgdir[q]
  BY Sharing DEF OnlySteps, IInv, MemInv
<1> QED BY <1>1 DEF Uncounted

LEMMA FreeVmStep ==
  ASSUME IInv, NEW p \in Procs, FreeVm(p)
  PROVE  IInv'
<1> USE DEF IInv, MemInv
<1>1. /\ CanStep(p) /\ ~panicked /\ pc[p] \in {"freevm", "w_free"}
      /\ UNCHANGED <<pc, kstack, pgdir, ptpages, sz, nsz, at, other, got, lost>>
  BY DEF FreeVm, At, CanStep, local
<1>2. SlotInv /\ SlotOk(p) /\ PteInv /\ OnlySteps(p) /\ \A q \in Procs : SizeInv(q)
  BY <1>1 DEF SlotInv, OnlySteps
<1>3. ASSUME \A q \in Procs \ {p} : npgdir'[q] = npgdir[q] /\ nptpages'[q] = nptpages[q]
      PROVE  (\A q \in Procs : SizeInv(q)') /\ SlotInv' /\ FaultInv'
  <2>1. SizeInv(p)'
    BY <1>1, <1>2 DEF SizeInv, Sized, Mapped, Present, Forking
  <2>2. \A q \in Procs : SizeInv(q)'
    BY <1>1, <1>2, <1>3, <2>1, SizeFrame
  <2>3. \A q \in Procs : Waited(q)' <=> Waited(q)
    BY <1>1 DEF Waited
  <2>4. SlotOk(p)'
    BY <1>1, <1>2, <2>3, NotWaited DEF SlotOk, Forking
  <2>5. SlotInv'
    BY <1>1, <1>2, <1>3, <2>4, SlotLocal DEF WorksOnSlot
  <2>6. FaultInv'
    BY <1>1, NoFaults
  <2> QED BY <2>2, <2>5, <2>6
<1>4. CASE Mapped(npgdir[p]) # {}
  <2>1. PICK v \in Vpns : v = Lowest(Mapped(npgdir[p])) /\ Present(npgdir[p], v)
    <3>1. Mapped(npgdir[p]) \in SUBSET Vpns
      BY DEF Mapped
    <3>2. Lowest(Mapped(npgdir[p])) \in Mapped(npgdir[p])
      BY <1>4, <3>1, LowestIn
    <3> QED BY <3>2 DEF Mapped
  <2>2. PICK x \in AllPages : x = npgdir[p][v].pa
    BY <2>1 DEF Present, TypeOK, Pte
  <2>3. Kfree(x) /\ npgdir' = [npgdir EXCEPT ![p][v] = NoPte] /\ nptpages' = nptpages
    BY <1>4, <2>1, <2>2 DEF FreeVm
  <2>4. NoPte \in Pte
    BY DEF NoPte, Pte
  <2>5. Written(p, v, NoPte, x)
    BY <1>1, <2>2, <2>3 DEF Written
  <2>6. /\ npgdir' \in [Procs -> [Vpns -> Pte]]
        /\ \A q \in Procs \ {p} : npgdir'[q] = npgdir[q] /\ nptpages'[q] = nptpages[q]
    BY <2>3, <2>4 DEF TypeOK
  <2>7. x \notin free
    <3>1. x \in Pages => x \notin free
      BY <1>1, <1>2, <2>2, MappedPage
    <3> QED BY <3>1 DEF TypeOK
  <2>8. /\ free' \in SUBSET Pages /\ free_pages' \in 0 .. Cardinality(Pages)
        /\ ref_cnt' \in [AllPages -> Int] /\ mem' \in [AllPages -> Vals] /\ FreePagesExact'
        /\ panicked' \in BOOLEAN
    BY <2>3, <2>7, Kfreed DEF TypeOK
  <2>9. TypeOK'
    BY <1>1, <2>3, <2>6, <2>8 DEF TypeOK
  <2>10. ASSUME ~panicked' PROVE PteInv' /\ \A pa \in Pages : PageInv(pa)'
    BY <1>1, <1>2, <2>3, <2>5, <2>10, EntryDropped
  <2> QED BY <1>3, <2>6, <2>8, <2>9, <2>10
<1>5. CASE Mapped(npgdir[p]) = {}
  <2>1. PICK x \in nptpages[p] : Kfree(x) /\ nptpages' = [nptpages EXCEPT ![p] = @ \ {x}] /\ npgdir' = npgdir
    BY <1>5 DEF FreeVm
  <2>2. x \in Pages /\ x \in AllPages /\ PageInv(x) /\ x \in HeldBy(p, "nptpages") /\ "nptpages" \in Holders
    BY <1>1 DEF TypeOK, AllPages, HeldBy, Holders
  <2>3. /\ x \notin free /\ x \notin lost /\ UserCount(x) = 0 /\ ref_cnt[x] = 1
        /\ \A q \in Procs, k \in Holders : x \in HeldBy(q, k) => q = p /\ k = "nptpages"
        /\ \A q \in Procs, u \in Vpns : pgdir[q][u].pa # x /\ npgdir[q][u].pa # x
    BY <2>2, HeldPage
  <2>4. x # Page0
    BY <2>2, ConstantAssumptions
  <2>5. /\ free' \in SUBSET Pages /\ free_pages' \in 0 .. Cardinality(Pages)
        /\ ref_cnt' \in [AllPages -> Int] /\ mem' \in [AllPages -> Vals] /\ FreePagesExact'
        /\ panicked' \in BOOLEAN /\ ~panicked'
        /\ \A pa \in AllPages \ {x} : ref_cnt'[pa] = ref_cnt[pa] /\ (pa \in free' <=> pa \in free)
        /\ ref_cnt'[x] = 0 /\ x \in free'
    <3>1. ~panicked'
      BY <1>1, <2>1, <2>3, <2>4 DEF Kfree
    <3> QED BY <2>1, <2>2, <2>3, <3>1, Kfreed DEF TypeOK
  <2>6. /\ nptpages' \in [Procs -> SUBSET Pages] /\ nptpages'[p] = nptpages[p] \ {x}
        /\ \A q \in Procs \ {p} : npgdir'[q] = npgdir[q] /\ nptpages'[q] = nptpages[q]
    BY <2>1 DEF TypeOK
  <2>7. TypeOK' /\ PteInv'
    BY <1>1, <1>2, <2>1, <2>5, <2>6 DEF TypeOK, PteInv, Present
  <2>8. PageInv(x)'
    <3>1. ~Owned(x)'
      BY <1>1, <2>3, <2>6 DEF Owned, InKernel, HeldBy, Holders
    <3>2. UserCount(x)' = 0
      BY <1>1, <2>1, <2>3 DEF UserCount, UserRefs, NewRefs
    <3>3. Uncounted(x)' = {}
      BY <1>1, <1>2, <2>3, NotCounted
    <3>4. \A q \in Procs, u \in Vpns : pgdir'[q][u].pa # x /\ npgdir'[q][u].pa # x
      BY <1>1, <2>1, <2>3
    <3> QED BY <2>2, <2>5, <3>1, <3>2, <3>3, <3>4, PageUnused
  <2>9. ASSUME NEW pa \in Pages, pa # x PROVE PageInv(pa)'
    <3>1. \A q \in Procs, k \in Holders : pa \in HeldBy(q, k)' <=> pa \in HeldBy(q, k)
      BY <1>1, <2>6, <2>9 DEF HeldBy, Holders
    <3>2. pa \in AllPages
      BY DEF AllPages
    <3> QED BY <1>1, <2>1, <2>5, <2>9, <3>1, <3>2, TablesKept
  <2> QED BY <1>3, <2>5, <2>6, <2>7, <2>8, <2>9
<1> QED BY <1>4, <1>5

LEMMA FreeVmDoneStep ==
  ASSUME IInv, NEW p \in Procs, FreeVmDone(p)
  PROVE  IInv'
<1> USE DEF IInv, MemInv
<1>1. /\ CanStep(p) /\ ~panicked /\ pc[p] \in {"freevm", "w_free"}
      /\ Mapped(npgdir[p]) = {} /\ nptpages[p] = {}
      /\ SameTables /\ UNCHANGED <<mem, sz, nsz, at, panicked>>
  BY DEF FreeVmDone, At, CanStep, kmem, SameTables
<1>2. SlotInv /\ SlotOk(p) /\ PteInv /\ \A q \in Procs : SizeInv(q)
  BY <1>1 DEF SlotInv
<1>3. npgdir[p] = EmptyPgdir
  <2>1. \A v \in Vpns : npgdir[p][v] = NoPte
    <3> TAKE v \in Vpns
    <3>1. npgdir[p][v] \in Pte /\ npgdir[p][v].pa = NoPage
      BY <1>1 DEF TypeOK, Mapped, Present
    <3>2. ~npgdir[p][v].w
      BY <1>2, <3>1 DEF PteInv, Present
    <3>3. npgdir[p][v].w = FALSE
      BY <3>1, <3>2 DEF Pte
    <3> QED BY <3>1, <3>3 DEF Pte, NoPte
  <2> QED BY <2>1 DEF EmptyPgdir, TypeOK
<1>4. CASE pc[p] = "freevm"
  <2>1. pc' = [pc EXCEPT ![p] = "user"] /\ other' = other
    BY <1>4 DEF FreeVmDone, Goto
  <2>2. pc'[p] = "user" /\ pc' \in [Procs -> Pcs] /\ \A q \in Procs \ {p} : pc'[q] = pc[q]
    BY <2>1 DEF TypeOK, Pcs
  <2>3. TypeOK'
    BY <1>1, <2>1, <2>2 DEF TypeOK, SameTables
  <2>4. \A q \in Procs : SizeInv(q)'
    <3>1. SizeInv(p)'
      BY <1>1, <1>2, <1>4, <2>2 DEF SizeInv, Sized, Mapped, Present, Forking, SameTables
    <3> QED BY <1>1, <1>2, <2>2, <3>1, SizeFrame DEF SameTables
  <2>5. SlotInv'
    <3>1. \A q \in Procs : Waited(q)' <=> Waited(q)
      BY <1>4, <2>1, <2>2 DEF Waited
    <3>2. SlotOk(p)'
      BY <1>1, <1>2, <1>3, <1>4, <2>1, <2>2, <3>1, NotWaited DEF SlotOk, Forking, SameTables
    <3> QED BY <1>1, <1>2, <1>4, <2>1, <2>2, <3>2, SlotLocal DEF WorksOnSlot, SameTables, Forking
  <2>6. FaultInv'
    BY <1>1, <2>2, NoFaults
  <2>7. \A q \in Procs : /\ pc'[q] = "f_inc" <=> pc[q] = "f_inc"
                         /\ pc[q] = "f_inc" => at'[q] = at[q]
    BY <1>1, <2>2
  <2> QED BY <1>1, <2>3, <2>4, <2>5, <2>6, <2>7, QuietPages
<1>5. CASE pc[p] = "w_free"
  <2>1. PICK c \in Procs : /\ c = other[p] /\ WorksOnSlot(p) /\ pc[c] = "zombie" /\ c # p
                           /\ Waited(c) /\ SlotOk(c)
    BY <1>2, <1>5 DEF SlotInv, SlotOk, WorksOnSlot, Waited
  <2>2. /\ pc'[p] = "user" /\ pc'[c] = "unused" /\ other' = [other EXCEPT ![p] = NoProc]
        /\ \A q \in Procs \ {p, c} : pc'[q] = pc[q]
        /\ pc' \in [Procs -> Pcs]
    BY <1>5, <2>1 DEF FreeVmDone, Return, TypeOK, Pcs
  <2>3. TypeOK'
    BY <1>1, <2>2 DEF TypeOK, SameTables
  <2>4. \A q \in Procs : SizeInv(q)'
    <3>1. SizeInv(p)'
      BY <1>2, <1>1, <1>5, <2>2 DEF SizeInv, Sized, Mapped, Present, Forking, SameTables
    <3>2. SizeInv(c)'
      BY <2>2 DEF SizeInv, Forking
    <3> QED BY <1>1, <1>2, <2>2, <3>1, <3>2, SizeFrame DEF SameTables
  <2>5. SlotInv'
    <3>1. ~Waited(p)' /\ ~Waited(c)' => SlotOk(p)' /\ SlotOk(c)'
      BY <1>1, <1>2, <1>3, <1>5, <2>1, <2>2, NotWaited DEF SlotOk, Forking, SameTables
    <3> QED BY <1>1, <1>2, <2>1, <2>2, <3>1, SlotReturn DEF SameTables, TypeOK
  <2>6. FaultInv'
    BY <1>1, <2>2, NoFaults
  <2>7. \A q \in Procs : /\ pc'[q] = "f_inc" <=> pc[q] = "f_inc"
                         /\ pc[q] = "f_inc" => at'[q] = at[q]
    BY <1>1, <1>5, <2>1, <2>2
  <2> QED BY <1>1, <2>3, <2>4, <2>5, <2>6, <2>7, QuietPages
<1> QED BY <1>1, <1>4, <1>5

-----------------------------------------------------------------------------
(***************************************************************************)
(* Page tables that change hands: the new table of p and the table of c    *)
(* (of fork's child, of wait's zombie, of exec's own process).             *)
(***************************************************************************)
Exchange(p, c) ==
  /\ pgdir' = [pgdir EXCEPT ![c] = npgdir[p]] /\ npgdir' = [npgdir EXCEPT ![p] = pgdir[c]]
  /\ ptpages' = [ptpages EXCEPT ![c] = nptpages[p]] /\ nptpages' = [nptpages EXCEPT ![p] = ptpages[c]]
  /\ \A q \in {p, c} : pc[q] # "f_inc" /\ pc'[q] # "f_inc"
  /\ \A q \in Procs \ {p, c} : pc'[q] = pc[q] /\ at'[q] = at[q]

LEMMA Exchanged ==
  ASSUME TypeOK, NEW p \in Procs, NEW c \in Procs, Exchange(p, c)
  PROVE  /\ pgdir' \in [Procs -> [Vpns -> Pte]] /\ npgdir' \in [Procs -> [Vpns -> Pte]]
         /\ ptpages' \in [Procs -> SUBSET Pages] /\ nptpages' \in [Procs -> SUBSET Pages]
         /\ pgdir'[c] = npgdir[p] /\ npgdir'[p] = pgdir[c]
         /\ ptpages'[c] = nptpages[p] /\ nptpages'[p] = ptpages[c]
         /\ \A q \in Procs \ {c} : pgdir'[q] = pgdir[q] /\ ptpages'[q] = ptpages[q]
         /\ \A q \in Procs \ {p} : npgdir'[q] = npgdir[q] /\ nptpages'[q] = nptpages[q]
         /\ PteInv => PteInv'
<1>1. /\ pgdir' \in [Procs -> [Vpns -> Pte]] /\ npgdir' \in [Procs -> [Vpns -> Pte]]
      /\ pgdir'[c] = npgdir[p] /\ npgdir'[p] = pgdir[c]
      /\ \A q \in Procs \ {c} : pgdir'[q] = pgdir[q]
      /\ \A q \in Procs \ {p} : npgdir'[q] = npgdir[q]
  BY DEF TypeOK, Exchange
<1>2. /\ ptpages' \in [Procs -> SUBSET Pages] /\ nptpages' \in [Procs -> SUBSET Pages]
      /\ ptpages'[c] = nptpages[p] /\ nptpages'[p] = ptpages[c]
      /\ \A q \in Procs \ {c} : ptpages'[q] = ptpages[q]
      /\ \A q \in Procs \ {p} : nptpages'[q] = nptpages[q]
  BY DEF TypeOK, Exchange
<1>3. PteInv => PteInv'
  BY <1>1 DEF PteInv, Present
<1> QED BY <1>1, <1>2, <1>3

LEMMA ExchangeCount ==
  ASSUME TypeOK, NEW p \in Procs, NEW c \in Procs, Exchange(p, c), NEW pa
  PROVE  /\ UserCount(pa)' = UserCount(pa)
         /\ Uncounted(pa)' = Uncounted(pa)
         /\ (\A q \in Procs, u \in Vpns : pgdir[q][u].pa # pa /\ npgdir[q][u].pa # pa) =>
              \A q \in Procs, u \in Vpns : pgdir'[q][u].pa # pa /\ npgdir'[q][u].pa # pa
<1>1. /\ pgdir \in Tables /\ npgdir \in Tables
      /\ pgdir[c] \in [Vpns -> Pte] /\ npgdir[p] \in [Vpns -> Pte]
  BY DEF TypeOK, Tables
<1>2. /\ Count(pgdir, pa) \in Nat /\ Count(npgdir, pa) \in Nat
      /\ Cardinality(Row(pgdir[c], pa)) \in Nat /\ Cardinality(Row(npgdir[p], pa)) \in Nat
  BY Finite
<1>3. Count([pgdir EXCEPT ![c] = npgdir[p]], pa) =
        Count(pgdir, pa) - Cardinality(Row(pgdir[c], pa)) + Cardinality(Row(npgdir[p], pa))
  BY <1>1, CountRow
<1>4. Count([npgdir EXCEPT ![p] = pgdir[c]], pa) =
        Count(npgdir, pa) - Cardinality(Row(npgdir[p], pa)) + Cardinality(Row(pgdir[c], pa))
  BY <1>1, CountRow
<1>5. Count(pgdir', pa) + Count(npgdir', pa) = Count(pgdir, pa) + Count(npgdir, pa)
  BY <1>2, <1>3, <1>4 DEF Exchange
<1>6. UserCount(pa)' = UserCount(pa)
  BY <1>5 DEF UserCount, UserRefs, NewRefs, Count
<1>7. Uncounted(pa)' = Uncounted(pa)
  BY Exchanged DEF Uncounted, Exchange
<1>8. ASSUME \A q \in Procs, u \in Vpns : pgdir[q][u].pa # pa /\ npgdir[q][u].pa # pa
      PROVE  \A q \in Procs, u \in Vpns : pgdir'[q][u].pa # pa /\ npgdir'[q][u].pa # pa
  <2> TAKE q \in Procs, u \in Vpns
  <2>1. pgdir'[q] = pgdir[q] \/ pgdir'[q] = npgdir[p]
    BY Exchanged
  <2>2. npgdir'[q] = npgdir[q] \/ npgdir'[q] = pgdir[c]
    BY Exchanged
  <2> QED BY <1>8, <2>1, <2>2
<1> QED BY <1>6, <1>7, <1>8

LEMMA ExchangePage ==
  ASSUME TypeOK, NEW p \in Procs, NEW c \in Procs, Exchange(p, c), NEW pa \in Pages, PageInv(pa),
         UNCHANGED <<got, lost>>, pa \in free' <=> pa \in free, ref_cnt'[pa] = ref_cnt[pa],
         \A q \in Procs : pa = kstack'[q] <=> pa = kstack[q]
  PROVE  PageInv(pa)'
<1> DEFINE P(q, k) == IF q = c /\ k = "ptpages" THEN p ELSE IF q = p /\ k = "nptpages" THEN c ELSE q
           H(q, k) == IF q = c /\ k = "ptpages" THEN "nptpages"
                      ELSE IF q = p /\ k = "nptpages" THEN "ptpages" ELSE k
<1>1. \A q \in Procs, k \in Holders : P(q, k) \in Procs /\ H(q, k) \in Holders
  BY DEF Holders
<1>2. \A q, r \in Procs, h, k \in Holders : P(q, h) = P(r, k) /\ H(q, h) = H(r, k) => q = r /\ h = k
  BY DEF Holders
<1>3. \A q \in Procs, k \in Holders : pa \in HeldBy(q, k)' <=> pa \in HeldBy(P(q, k), H(q, k))
  <2> SUFFICES ASSUME NEW q \in Procs, NEW k \in Holders
               PROVE  pa \in HeldBy(q, k)' <=> pa \in HeldBy(P(q, k), H(q, k))
    OBVIOUS
  <2>1. CASE k = "kstack"
    BY <2>1 DEF HeldBy
  <2>2. CASE k = "got"
    BY <2>2 DEF HeldBy
  <2>3. CASE k = "ptpages"
    BY <2>3, Exchanged DEF HeldBy
  <2>4. CASE k = "nptpages"
    BY <2>4, Exchanged DEF HeldBy
  <2> QED BY <2>1, <2>2, <2>3, <2>4 DEF Holders
<1>4. \A q \in Procs, k \in Holders : P(P(q, k), H(q, k)) = q /\ H(P(q, k), H(q, k)) = k
  BY DEF Holders
<1> HIDE DEF P, H
<1>5. ASSUME NEW q \in Procs, NEW r \in Procs, NEW h \in Holders, NEW k \in Holders,
             pa \in HeldBy(q, h)', pa \in HeldBy(r, k)'
      PROVE  q = r /\ h = k
  <2>1. pa \in HeldBy(P(q, h), H(q, h)) /\ pa \in HeldBy(P(r, k), H(r, k))
    BY <1>3, <1>5
  <2>2. P(q, h) \in Procs /\ P(r, k) \in Procs /\ H(q, h) \in Holders /\ H(r, k) \in Holders
    BY <1>1
  <2>3. \A x, y \in Procs, i, j \in Holders : pa \in HeldBy(x, i) /\ pa \in HeldBy(y, j) => x = y /\ i = j
    BY DEF PageInv
  <2>4. P(q, h) = P(r, k) /\ H(q, h) = H(r, k)
    BY <2>1, <2>2, <2>3, Zenon
  <2> QED BY <1>2, <2>4
<1>6. InKernel(pa)' <=> InKernel(pa)
  <2>1. InKernel(pa)' => InKernel(pa)
    BY <1>1, <1>3 DEF InKernel
  <2>2. InKernel(pa) => InKernel(pa)'
    BY <1>1, <1>3, <1>4 DEF InKernel
  <2> QED BY <2>1, <2>2
<1>7. Owned(pa)' <=> Owned(pa)
  BY <1>6 DEF Owned
<1>8. UserCount(pa)' = UserCount(pa) /\ Uncounted(pa)' = Uncounted(pa)
  BY ExchangeCount
<1>9. ASSUME NEW q \in Procs, NEW u \in Vpns,
             \/ pgdir'[q][u].pa = pa /\ pgdir'[q][u].w
             \/ npgdir'[q][u].pa = pa /\ npgdir'[q][u].w
      PROVE  UserCount(pa) = 1
  <2>1. pgdir'[q] = pgdir[q] \/ pgdir'[q] = npgdir[p]
    BY Exchanged
  <2>2. npgdir'[q] = npgdir[q] \/ npgdir'[q] = pgdir[c]
    BY Exchanged
  <2> QED BY <1>9, <2>1, <2>2 DEF PageInv
<1> QED BY <1>5, <1>6, <1>7, <1>8, <1>9 DEF PageInv

LEMMA ExecCommitStep ==
  ASSUME IInv, NEW p \in Procs, ExecCommit(p)
  PROVE  IInv'
<1> USE DEF IInv, MemInv
<1>1. /\ CanStep(p) /\ ~panicked /\ pc[p] = "e_load" /\ at[p] = ExecPages
      /\ pgdir' = [pgdir EXCEPT ![p] = npgdir[p]] /\ npgdir' = [npgdir EXCEPT ![p] = pgdir[p]]
      /\ ptpages' = [ptpages EXCEPT ![p] = nptpages[p]] /\ nptpages' = [nptpages EXCEPT ![p] = ptpages[p]]
      /\ sz' = [sz EXCEPT ![p] = ExecPages * PGSIZE] /\ at' = [at EXCEPT ![p] = 0]
      /\ pc' = [pc EXCEPT ![p] = "freevm"]
      /\ UNCHANGED <<free, free_pages, ref_cnt, mem, kstack, nsz, other, got, lost, panicked>>
  BY DEF ExecCommit, At, CanStep, Goto, kmem
<1>2. SlotInv /\ SlotOk(p) /\ PteInv /\ \A q \in Procs : SizeInv(q)
  BY <1>1 DEF SlotInv
<1>3. ExecPages \in Nat /\ ExecPages * PGSIZE \in 0 .. UserTop * PGSIZE /\ PgRoundUp(ExecPages * PGSIZE) = ExecPages
  <2>1. ExecPages \in Nat /\ UserTop \in Nat /\ ExecPages <= UserTop
    BY ConstantAssumptions
  <2>2. ExecPages * PGSIZE <= UserTop * PGSIZE /\ UserTop * PGSIZE \in Int
    BY <2>1, Scale, ConstantAssumptions
  <2> QED BY <2>1, <2>2, RoundUpExact
<1>4. /\ pc'[p] = "freevm" /\ at'[p] = 0 /\ sz'[p] = ExecPages * PGSIZE
      /\ \A q \in Procs \ {p} : pc'[q] = pc[q] /\ at'[q] = at[q] /\ sz'[q] = sz[q]
      /\ pc' \in [Procs -> Pcs] /\ at' \in [Procs -> 0 .. UserTop] /\ sz' \in [Procs -> 0 .. UserTop * PGSIZE]
  BY <1>1, <1>3, ConstantAssumptions DEF TypeOK, Pcs
<1>5. Exchange(p, p)
  BY <1>1, <1>4 DEF Exchange
<1>6. TypeOK' /\ FreePagesExact' /\ PteInv'
  BY <1>1, <1>2, <1>4, <1>5, Exchanged DEF TypeOK, FreePagesExact
<1>7. \A q \in Procs : SizeInv(q)'
  <2>1. Mapped(pgdir[p])' = 0 .. ExecPages - 1
    <3>1. Mapped(npgdir[p]) = 0 .. ExecPages - 1 /\ pgdir'[p] = npgdir[p]
      BY <1>1, <1>2, <1>5, Exchanged DEF SizeInv
    <3> QED BY <3>1 DEF Mapped, Present
  <2>2. SizeInv(p)'
    BY <1>3, <1>4, <2>1 DEF SizeInv, Sized, Forking
  <2> QED BY <1>1, <1>2, <1>4, <1>5, <2>2, Exchanged, SizeFrame
<1>8. SlotInv'
  <2>1. \A q \in Procs : Waited(q)' <=> Waited(q)
    BY <1>1, <1>4 DEF Waited
  <2>2. SlotOk(p)'
    BY <1>1, <1>2, <1>4, <2>1, NotWaited DEF SlotOk, Forking
  <2> QED BY <1>1, <1>2, <1>4, <1>5, <2>2, Exchanged, SlotLocal DEF WorksOnSlot, Forking
<1>9. FaultInv'
  BY <1>1, <1>4, NoFaults
<1>10. \A pa \in Pages : PageInv(pa)'
  BY <1>1, <1>5, ExchangePage
<1> QED BY <1>6, <1>7, <1>8, <1>9, <1>10

LEMMA ForkDoneStep ==
  ASSUME IInv, NEW p \in Procs, ForkDone(p)
  PROVE  IInv'
<1> USE DEF IInv, MemInv
<1>1. /\ CanStep(p) /\ ~panicked /\ pc[p] = "f_map" /\ ~CowMore(p) /\ Return(p, "user")
      /\ pgdir' = [pgdir EXCEPT ![other[p]] = npgdir[p]] /\ npgdir' = [npgdir EXCEPT ![p] = EmptyPgdir]
      /\ ptpages' = [ptpages EXCEPT ![other[p]] = nptpages[p]] /\ nptpages' = [nptpages EXCEPT ![p] = {}]
      /\ sz' = [sz EXCEPT ![other[p]] = sz[p]] /\ at' = [at EXCEPT ![p] = 0]
      /\ UNCHANGED <<free, free_pages, ref_cnt, mem, kstack, nsz, got, lost, panicked>>
  BY DEF ForkDone, At, CanStep, kmem
<1>2. SlotInv /\ SlotOk(p) /\ PteInv /\ \A q \in Procs : SizeInv(q)
  BY <1>1 DEF SlotInv
<1>3. PICK c \in Procs : /\ c = other[p] /\ WorksOnSlot(p) /\ pc[c] = "embryo" /\ c # p /\ SlotOk(c)
                         /\ ~Waited(c) /\ kstack[c] # NoPage
                         /\ pgdir[c] = EmptyPgdir /\ ptpages[c] = {} /\ npgdir[c] = EmptyPgdir
                         /\ nptpages[c] = {} /\ got[c] = NoPage /\ at[c] = 0
  <2>1. other[p] \in Procs /\ pc[other[p]] = "embryo" /\ WorksOnSlot(p)
    BY <1>1, <1>2 DEF SlotOk, WorksOnSlot, Forking
  <2>2. SlotOk(other[p]) /\ ~Waited(other[p])
    BY <1>2, <2>1, NotWaited DEF SlotInv
  <2>3. kstack[other[p]] # NoPage
    BY <1>1, <1>2 DEF SlotOk, Forking
  <2> QED BY <1>1, <2>1, <2>2, <2>3 DEF SlotOk
<1>4. /\ pc'[p] = "user" /\ pc'[c] = "user" /\ other' = [other EXCEPT ![p] = NoProc]
      /\ \A q \in Procs \ {p, c} : pc'[q] = pc[q]
      /\ \A q \in Procs \ {p} : at'[q] = at[q]
      /\ \A q \in Procs \ {c} : sz'[q] = sz[q]
      /\ at'[p] = 0 /\ sz'[c] = sz[p]
      /\ pc' \in [Procs -> Pcs] /\ at' \in [Procs -> 0 .. UserTop] /\ sz' \in [Procs -> 0 .. UserTop * PGSIZE]
  BY <1>1, <1>3, ConstantAssumptions DEF Return, TypeOK, Pcs
<1>5. Exchange(p, c)
  BY <1>1, <1>3, <1>4 DEF Exchange
<1>6. TypeOK' /\ FreePagesExact' /\ PteInv'
  BY <1>1, <1>2, <1>4, <1>5, Exchanged DEF TypeOK, FreePagesExact
<1>7. \A q \in Procs : SizeInv(q)'
  <2>1. Sized(pgdir[p], sz[p])
    BY <1>1, <1>2 DEF SizeInv, Forking
  <2>2. SizeInv(p)'
    <3>1. pgdir'[p] = pgdir[p] /\ sz'[p] = sz[p]
      BY <1>3, <1>4, <1>5, Exchanged
    <3> QED BY <1>4, <2>1, <3>1 DEF SizeInv, Sized, Mapped, Present, Forking
  <2>3. SizeInv(c)'
    <3>1. /\ sz[p] \in Nat /\ at[p] \in Nat /\ PgRoundUp(sz[p]) \in 0 .. UserTop
      BY Sizes
    <3>2. ~ at[p] < PgRoundUp(sz[p])
      BY <1>1, <3>1, RoundUp DEF CowMore
    <3>3. \A u \in Vpns : npgdir[p][u].pa = IF u < at[p] THEN pgdir[p][u].pa ELSE NoPage
      BY <1>1, <1>2 DEF SizeInv
    <3>4. ASSUME NEW u \in Vpns
          PROVE  u \in Nat /\ (Present(pgdir[p], u) => u < PgRoundUp(sz[p]))
      <4>1. u \in Nat
        BY ConstantAssumptions DEF Vpns
      <4>2. Present(pgdir[p], u) => u \in 0 .. PgRoundUp(sz[p]) - 1
        BY <2>1 DEF Sized, Mapped
      <4> QED BY <3>1, <4>1, <4>2
    <3>5. at[p] = PgRoundUp(sz[p])
      BY <1>1, <1>2, <3>1, <3>2 DEF SizeInv
    <3>6. \A u \in Vpns : Present(npgdir[p], u) <=> Present(pgdir[p], u)
      BY <3>1, <3>3, <3>4, <3>5 DEF Present
    <3>7. Mapped(npgdir[p]) = Mapped(pgdir[p])
      BY <3>6 DEF Mapped
    <3>8. pgdir'[c] = npgdir[p]
      BY <1>5, Exchanged
    <3>9. Mapped(pgdir[c])' = Mapped(pgdir[p])
      BY <3>7, <3>8 DEF Mapped, Present
    <3> QED BY <1>4, <2>1, <3>9 DEF SizeInv, Sized, Forking
  <2> QED BY <1>1, <1>2, <1>4, <1>5, <2>2, <2>3, Exchanged, SizeFrame
<1>8. SlotInv'
  <2>1. /\ npgdir'[p] = EmptyPgdir /\ nptpages'[p] = {} /\ npgdir'[c] = EmptyPgdir /\ nptpages'[c] = {}
    BY <1>3, <1>5, Exchanged
  <2>2. SlotOk(p)' /\ SlotOk(c)'
    <3>1. ~Waited(p)' /\ ~Waited(c)' => SlotOk(p)' /\ SlotOk(c)'
      BY <1>1, <1>2, <1>3, <1>4, <2>1, NotWaited DEF SlotOk, Forking
    <3>2. ~Waited(p)' /\ ~Waited(c)'
      <4>1. \A q \in Procs : pc'[q] = "w_free" => pc[q] = "w_free" /\ q # p /\ other'[q] = other[q]
        BY <1>4 DEF TypeOK
      <4>2. ~Waited(p)
        BY <1>1, <1>2, NotWaited
      <4> QED BY <1>3, <4>1, <4>2 DEF Waited
    <3> QED BY <3>1, <3>2
  <2>3. \A q \in Procs \ {p, c} : /\ pgdir'[q] = pgdir[q] /\ npgdir'[q] = npgdir[q]
                                  /\ ptpages'[q] = ptpages[q] /\ nptpages'[q] = nptpages[q]
    BY <1>5, Exchanged
  <2>4. \A q \in Procs \ {p, c} : /\ pc'[q] = pc[q] /\ at'[q] = at[q] /\ got'[q] = got[q]
                                  /\ kstack'[q] = kstack[q]
    BY <1>1, <1>4
  <2>5. /\ pc'[p] = "user" /\ pc'[c] \in {"unused", "user"} /\ WorksOnSlot(p) /\ c = other[p]
        /\ other' = [other EXCEPT ![p] = NoProc] /\ other \in [Procs -> Procs \cup {NoProc}]
    BY <1>3, <1>4 DEF TypeOK
  <2>6. \A q \in Procs \ {p, c} :
          /\ pc'[q] = pc[q] /\ at'[q] = at[q] /\ pgdir'[q] = pgdir[q] /\ npgdir'[q] = npgdir[q]
          /\ ptpages'[q] = ptpages[q] /\ nptpages'[q] = nptpages[q] /\ got'[q] = got[q]
          /\ kstack'[q] = kstack[q]
    BY <2>3, <2>4
  <2>7. SlotInv
    BY <1>2
  <2>8. ~Waited(p)' /\ ~Waited(c)' => SlotOk(p)' /\ SlotOk(c)'
    BY <2>2
  <2> HIDE DEF IInv, MemInv
  <2> QED BY <2>5, <2>6, <2>7, <2>8, SlotReturn
<1>9. FaultInv'
  BY <1>1, <1>4, NoFaults
<1>10. \A pa \in Pages : PageInv(pa)'
  BY <1>1, <1>5, ExchangePage
<1> QED BY <1>6, <1>7, <1>8, <1>9, <1>10

LEMMA WaitStep ==
  ASSUME IInv, NEW p \in Procs, NEW c \in Procs, Wait(p, c)
  PROVE  IInv'
<1> USE DEF IInv, MemInv
<1>1. /\ CanStep(p) /\ ~panicked /\ pc[p] = "user" /\ Present(pgdir[p], 0) /\ pc[c] = "zombie" /\ PtableFree
      /\ Kfree(kstack[c]) /\ kstack' = [kstack EXCEPT ![c] = NoPage]
      /\ npgdir' = [npgdir EXCEPT ![p] = pgdir[c]] /\ nptpages' = [nptpages EXCEPT ![p] = ptpages[c]]
      /\ pgdir' = [pgdir EXCEPT ![c] = EmptyPgdir] /\ ptpages' = [ptpages EXCEPT ![c] = {}]
      /\ sz' = [sz EXCEPT ![c] = 0] /\ other' = [other EXCEPT ![p] = c] /\ pc' = [pc EXCEPT ![p] = "w_free"]
      /\ UNCHANGED <<nsz, at, got, lost>>
  BY DEF Wait, RunsUser, CanStep, Goto
<1>2. SlotInv /\ SlotOk(p) /\ SlotOk(c) /\ PteInv /\ \A q \in Procs : SizeInv(q)
  BY <1>1 DEF SlotInv
<1>3. p # c /\ \A q \in Procs : ~Waited(q)
  BY <1>1 DEF PtableFree, Waited
<1>4. /\ npgdir[p] = EmptyPgdir /\ nptpages[p] = {} /\ npgdir[c] = EmptyPgdir /\ nptpages[c] = {}
      /\ got[p] = NoPage /\ got[c] = NoPage /\ at[p] = 0 /\ at[c] = 0 /\ kstack[p] # NoPage
      /\ kstack[c] # NoPage
  BY <1>1, <1>2, <1>3 DEF SlotOk
<1>5. PICK x \in Pages : x = kstack[c] /\ x \in AllPages /\ x # Page0 /\ x # NoPage
  BY <1>4, ConstantAssumptions DEF TypeOK, AllPages
<1>6. /\ pc'[p] = "w_free" /\ \A q \in Procs \ {p} : pc'[q] = pc[q] /\ other'[q] = other[q]
      /\ other'[p] = c /\ sz'[c] = 0 /\ \A q \in Procs \ {c} : sz'[q] = sz[q] /\ kstack'[q] = kstack[q]
      /\ kstack'[c] = NoPage /\ pc' \in [Procs -> Pcs] /\ sz' \in [Procs -> 0 .. UserTop * PGSIZE]
      /\ other' \in [Procs -> Procs \cup {NoProc}] /\ kstack' \in [Procs -> Pages \cup {NoPage}]
  <2>1. 0 \in 0 .. UserTop * PGSIZE
    BY Scale, ConstantAssumptions
  <2> QED BY <1>1, <1>3, <2>1 DEF TypeOK, Pcs
<1>7. Exchange(p, c)
  BY <1>1, <1>3, <1>4, <1>6 DEF Exchange
<1>8. x \in HeldBy(c, "kstack") /\ "kstack" \in Holders
  BY <1>5 DEF HeldBy, Holders
<1>9. /\ x \notin free /\ x \notin lost /\ UserCount(x) = 0 /\ ref_cnt[x] = 1
      /\ \A q \in Procs, k \in Holders : x \in HeldBy(q, k) => q = c /\ k = "kstack"
      /\ \A q \in Procs, u \in Vpns : pgdir[q][u].pa # x /\ npgdir[q][u].pa # x
  BY <1>1, <1>5, <1>8, HeldPage
<1>10. /\ free' \in SUBSET Pages /\ free_pages' \in 0 .. Cardinality(Pages)
       /\ ref_cnt' \in [AllPages -> Int] /\ mem' \in [AllPages -> Vals] /\ FreePagesExact'
       /\ panicked' \in BOOLEAN /\ ~panicked'
       /\ \A pa \in AllPages \ {x} : ref_cnt'[pa] = ref_cnt[pa] /\ (pa \in free' <=> pa \in free)
       /\ ref_cnt'[x] = 0 /\ x \in free'
  <2>1. ~panicked'
    BY <1>1, <1>5, <1>9 DEF Kfree
  <2>2. Kfree(x)
    BY <1>1, <1>5
  <2> QED BY <1>5, <1>9, <2>1, <2>2, Kfreed DEF TypeOK
<1>11. TypeOK' /\ PteInv'
  BY <1>1, <1>2, <1>6, <1>7, <1>10, Exchanged DEF TypeOK
<1>12. \A q \in Procs : SizeInv(q)'
  <2>1. SizeInv(p)'
    <3>1. pgdir'[p] = pgdir[p] /\ sz'[p] = sz[p] /\ Sized(pgdir[p], sz[p])
      BY <1>1, <1>2, <1>3, <1>6, <1>7, Exchanged DEF SizeInv
    <3> QED BY <1>6, <3>1 DEF SizeInv, Sized, Mapped, Present, Forking
  <2>2. SizeInv(c)'
    BY <1>1, <1>3, <1>6 DEF SizeInv, Forking
  <2> QED BY <1>1, <1>2, <1>6, <1>7, <2>1, <2>2, Exchanged, SizeFrame
<1>13. SlotInv'
  <2>1. \A q \in Procs : (Waited(q)' <=> q = c) /\ (WorksOnSlot(q) => pc[other[q]] = "embryo")
    BY <1>1, <1>2, <1>3, <1>6, SlotWork DEF Waited, PtableFree
  <2>2. pgdir'[c] = EmptyPgdir /\ ptpages'[c] = {} /\ npgdir'[c] = EmptyPgdir /\ nptpages'[c] = {}
    BY <1>3, <1>4, <1>7, Exchanged
  <2>3. SlotOk(p)'
    BY <1>1, <1>3, <1>4, <1>6, <2>1 DEF SlotOk, Forking
  <2>4. SlotOk(c)'
    BY <1>1, <1>3, <1>4, <1>6, <2>1, <2>2 DEF SlotOk, Forking
  <2>5. ASSUME NEW q \in Procs, q \notin {p, c} PROVE SlotOk(q)'
    <3>1. SlotOk(q)
      BY <1>2 DEF SlotInv
    <3>2. WorksOnSlot(q) => pc'[other[q]] = pc[other[q]] /\ kstack'[other[q]] = kstack[other[q]]
      <4>1. WorksOnSlot(q) => other[q] \in Procs /\ pc[other[q]] = "embryo"
        BY <1>2, <2>1, SlotWork
      <4> QED BY <1>1, <1>6, <4>1
    <3>3. /\ pgdir'[q] = pgdir[q] /\ npgdir'[q] = npgdir[q]
          /\ ptpages'[q] = ptpages[q] /\ nptpages'[q] = nptpages[q]
      BY <1>7, <2>5, Exchanged
    <3>4. Waited(q)' <=> Waited(q)
      BY <1>3, <2>1, <2>5
    <3> QED BY <1>1, <1>6, <2>5, <3>1, <3>2, <3>3, <3>4, SlotFrame
  <2>6. \A q, r \in Procs : WorksOnSlot(q)' /\ WorksOnSlot(r)' /\ other'[q] = other'[r] => q = r
    <3>1. \A q \in Procs \ {p} : WorksOnSlot(q)' => WorksOnSlot(q) /\ other'[q] = other[q]
      BY <1>6 DEF WorksOnSlot
    <3>2. \A q \in Procs : WorksOnSlot(q) => other[q] # other'[p]
      BY <1>1, <1>6, <2>1
    <3> QED BY <1>2, <3>1, <3>2, SlotsApart
  <2> QED BY <2>3, <2>4, <2>5, <2>6 DEF SlotInv
<1>14. FaultInv'
  BY <1>1, <1>6, NoFaults
<1>15. PageInv(x)'
  <2>1. ~Owned(x)'
    <3> SUFFICES ASSUME NEW q \in Procs, NEW k \in Holders, x \in HeldBy(q, k)' PROVE FALSE
      BY <1>1, <1>9 DEF Owned, InKernel
    <3>1. CASE k = "kstack"
      <4>1. x = kstack'[q]
        BY <3>1 DEF HeldBy
      <4>2. q # c /\ x = kstack[q]
        BY <1>5, <1>6, <4>1
      <4> QED BY <1>8, <1>9, <4>2 DEF HeldBy
    <3>2. CASE k = "got"
      <4>1. x \in HeldBy(q, "got")
        BY <1>1, <3>2 DEF HeldBy
      <4> QED BY <1>9, <4>1 DEF Holders
    <3>3. CASE k \in {"ptpages", "nptpages"}
      <4>1. x \in ptpages'[q] \/ x \in nptpages'[q]
        BY <3>3 DEF HeldBy
      <4>2. \E r \in Procs : x \in ptpages[r] \/ x \in nptpages[r]
        BY <1>7, <4>1, Exchanged
      <4>3. \E r \in Procs : x \in HeldBy(r, "ptpages") \/ x \in HeldBy(r, "nptpages")
        BY <4>2 DEF HeldBy
      <4> QED BY <1>9, <4>3 DEF Holders
    <3> QED BY <3>1, <3>2, <3>3 DEF Holders
  <2>2. /\ UserCount(x)' = 0 /\ Uncounted(x)' = Uncounted(x)
        /\ \A q \in Procs, u \in Vpns : pgdir'[q][u].pa # x /\ npgdir'[q][u].pa # x
    BY <1>7, <1>9, ExchangeCount
  <2>3. Uncounted(x) = {}
    BY <1>2, <1>9, Sharing DEF Uncounted
  <2> QED BY <1>10, <2>1, <2>2, <2>3, PageUnused
<1>16. ASSUME NEW pa \in Pages, pa # x PROVE PageInv(pa)'
  <2>1. pa # NoPage /\ pa \in AllPages
    BY ConstantAssumptions DEF AllPages
  <2>2. \A q \in Procs : pa = kstack'[q] <=> pa = kstack[q]
    BY <1>5, <1>6, <1>16, <2>1
  <2>3. PageInv(pa) /\ UNCHANGED <<got, lost>> /\ (pa \in free' <=> pa \in free) /\ ref_cnt'[pa] = ref_cnt[pa]
    BY <1>1, <1>10, <1>16, <2>1
  <2> QED BY <1>7, <2>2, <2>3, ExchangePage
<1> QED BY <1>10, <1>11, <1>12, <1>13, <1>14, <1>15, <1>16

LEMMA ForkFailStep ==
  ASSUME IInv, NEW p \in Procs, ForkFail(p)
  PROVE  IInv'
<1> USE DEF IInv, MemInv
<1>1. /\ CanStep(p) /\ ~panicked /\ pc[p] = "f_fail" /\ Return(p, "unused")
      /\ Kfree(kstack[other[p]]) /\ kstack' = [kstack EXCEPT ![other[p]] = NoPage]
      /\ UNCHANGED <<pgdir, ptpages, sz, npgdir, nptpages, nsz, at, got, lost>>
  BY DEF ForkFail, At, CanStep
<1>2. SlotInv /\ SlotOk(p) /\ PteInv /\ \A q \in Procs : SizeInv(q)
  BY <1>1 DEF SlotInv
<1>3. PICK c \in Procs : /\ c = other[p] /\ WorksOnSlot(p) /\ pc[c] = "embryo" /\ c # p /\ SlotOk(c)
                         /\ ~Waited(c) /\ kstack[c] # NoPage
  <2>1. other[p] \in Procs /\ pc[other[p]] = "embryo" /\ WorksOnSlot(p)
    BY <1>1, <1>2 DEF SlotOk, WorksOnSlot, Forking
  <2>2. SlotOk(other[p]) /\ ~Waited(other[p])
    BY <1>2, <2>1, NotWaited DEF SlotInv
  <2>3. kstack[other[p]] # NoPage
    BY <1>1, <1>2 DEF SlotOk, Forking
  <2> QED BY <1>1, <2>1, <2>2, <2>3
<1>4. /\ pc'[p] = "user" /\ pc'[c] = "unused" /\ other' = [other EXCEPT ![p] = NoProc]
      /\ \A q \in Procs \ {p, c} : pc'[q] = pc[q]
      /\ pc' \in [Procs -> Pcs]
      /\ kstack' \in [Procs -> Pages \cup {NoPage}] /\ kstack'[c] = NoPage
      /\ \A q \in Procs \ {c} : kstack'[q] = kstack[q]
  BY <1>1, <1>3 DEF Return, TypeOK, Pcs
<1>5. PICK x \in Pages : x = kstack[c] /\ x \in AllPages /\ x # Page0 /\ x # NoPage
  BY <1>3, ConstantAssumptions DEF TypeOK, AllPages
<1>6. x \in HeldBy(c, "kstack") /\ "kstack" \in Holders
  BY <1>5 DEF HeldBy, Holders
<1>7. /\ x \notin free /\ x \notin lost /\ UserCount(x) = 0 /\ ref_cnt[x] = 1
      /\ \A q \in Procs, k \in Holders : x \in HeldBy(q, k) => q = c /\ k = "kstack"
      /\ \A q \in Procs, u \in Vpns : pgdir[q][u].pa # x /\ npgdir[q][u].pa # x
  BY <1>1, <1>5, <1>6, HeldPage
<1>8. Kfree(x)
  BY <1>1, <1>3, <1>5
<1>9. /\ free' \in SUBSET Pages /\ free_pages' \in 0 .. Cardinality(Pages)
      /\ ref_cnt' \in [AllPages -> Int] /\ mem' \in [AllPages -> Vals] /\ FreePagesExact'
      /\ panicked' \in BOOLEAN /\ ~panicked'
      /\ \A pa \in AllPages \ {x} : ref_cnt'[pa] = ref_cnt[pa] /\ (pa \in free' <=> pa \in free)
      /\ ref_cnt'[x] = 0 /\ x \in free'
  <2>1. ~panicked'
    BY <1>1, <1>5, <1>7, <1>8 DEF Kfree
  <2> QED BY <1>5, <1>7, <1>8, <2>1, Kfreed DEF TypeOK
<1>10. TypeOK' /\ PteInv'
  BY <1>1, <1>2, <1>4, <1>9 DEF TypeOK, PteInv, Present
<1>11. \A q \in Procs : SizeInv(q)'
  <2>1. SizeInv(p)'
    BY <1>1, <1>2, <1>4 DEF SizeInv, Sized, Mapped, Present, Forking
  <2>2. SizeInv(c)'
    BY <1>4 DEF SizeInv, Forking
  <2> QED BY <1>1, <1>2, <1>4, <2>1, <2>2, SizeFrame
<1>12. SlotInv'
  <2>1. ~Waited(p)' /\ ~Waited(c)' => SlotOk(p)' /\ SlotOk(c)'
    BY <1>1, <1>2, <1>3, <1>4, NotWaited DEF SlotOk, Forking
  <2>2. \A q \in Procs \ {p, c} :
          /\ pc'[q] = pc[q] /\ at'[q] = at[q] /\ pgdir'[q] = pgdir[q] /\ npgdir'[q] = npgdir[q]
          /\ ptpages'[q] = ptpages[q] /\ nptpages'[q] = nptpages[q] /\ got'[q] = got[q]
          /\ kstack'[q] = kstack[q]
    BY <1>1, <1>4
  <2>3. SlotInv /\ WorksOnSlot(p) /\ c = other[p] /\ other \in [Procs -> Procs \cup {NoProc}]
    BY <1>2, <1>3 DEF TypeOK
  <2> HIDE DEF IInv, MemInv
  <2> QED BY <1>4, <2>1, <2>2, <2>3, SlotReturn
<1>13. FaultInv'
  BY <1>1, <1>4, NoFaults
<1>14. PageInv(x)'
  <2>1. \A q \in Procs, k \in Holders : x \notin HeldBy(q, k)'
    BY <1>1, <1>4, <1>5, <1>7 DEF HeldBy, Holders
  <2>2. ~Owned(x)'
    BY <1>1, <1>7, <2>1 DEF Owned, InKernel
  <2>3. UserCount(x)' = 0
    BY <1>1, <1>7 DEF UserCount, UserRefs, NewRefs
  <2>4. Uncounted(x)' = {}
    <3>1. Uncounted(x)' = Uncounted(x)
      BY <1>1, <1>3, <1>4 DEF Uncounted
    <3> QED BY <1>2, <1>7, <3>1, Sharing DEF Uncounted
  <2>5. \A q \in Procs, u \in Vpns : pgdir'[q][u].pa # x /\ npgdir'[q][u].pa # x
    BY <1>1, <1>7
  <2> QED BY <1>9, <2>2, <2>3, <2>4, <2>5, PageUnused
<1>15. ASSUME NEW pa \in Pages, pa # x PROVE PageInv(pa)'
  <2>1. pa # NoPage /\ pa \in AllPages
    BY ConstantAssumptions DEF AllPages
  <2>2. \A q \in Procs : pa = kstack'[q] <=> pa = kstack[q]
    BY <1>4, <1>5, <1>15, <2>1
  <2>3. \A q \in Procs, k \in Holders : pa \in HeldBy(q, k)' <=> pa \in HeldBy(q, k)
    BY <1>1, <2>2 DEF HeldBy, Holders
  <2>4. \A q \in Procs : /\ pc'[q] = "f_inc" <=> pc[q] = "f_inc"
                         /\ pc[q] = "f_inc" => at'[q] = at[q]
    BY <1>1, <1>3, <1>4
  <2> QED BY <1>1, <1>9, <1>15, <2>1, <2>3, <2>4, TablesKept
<1> QED BY <1>9, <1>10, <1>11, <1>12, <1>13, <1>14, <1>15

-----------------------------------------------------------------------------
(***************************************************************************)
(* The first state, and every step.                                        *)
(***************************************************************************)
LEMMA SubsetOfSize ==
  ASSUME NEW S, IsFiniteSet(S), NEW k \in Nat, k <= Cardinality(S)
  PROVE  \E T \in SUBSET S : Cardinality(T) = k
<1> DEFINE n == Cardinality(S)
<1>1. n \in Nat /\ ExistsBijection(1 .. n, S)
  BY FS_CardinalityType
<1>2. PICK f : f \in Bijection(1 .. n, S)
  BY <1>1 DEF ExistsBijection
<1>3. 1 .. k \subseteq 1 .. n
  BY <1>1
<1> DEFINE T == {f[i] : i \in 1 .. k}
           g == [i \in 1 .. k |-> f[i]]
<1>4. f \in [1 .. n -> S] /\ \A i, j \in 1 .. n : f[i] = f[j] => i = j
  BY <1>2 DEF Bijection, Injection, IsInjective
<1>5. T \in SUBSET S /\ g \in [1 .. k -> T]
  BY <1>3, <1>4
<1>6. g \in Bijection(1 .. k, T)
  <2>1. \A i, j \in 1 .. k : g[i] = g[j] => i = j
    BY <1>3, <1>4
  <2>2. \A t \in T : \E i \in 1 .. k : g[i] = t
    OBVIOUS
  <2> QED BY <1>5, <2>1, <2>2 DEF Bijection, Injection, Surjection, IsInjective
<1>7. IsFiniteSet(1 .. k) /\ Cardinality(1 .. k) = k
  BY FS_Interval
<1>8. ExistsBijection(1 .. k, T)
  BY <1>6 DEF ExistsBijection
<1>9. Cardinality(T) = k
  BY <1>7, <1>8, FS_Bijection
<1> QED BY <1>5, <1>9

\* The first process has page ks for its kernel stack, text for its program and
\* pt for its page tables.
InitWith(ks, text, pt) ==
  /\ free = Pages \ (pt \cup {ks, text})
  /\ free_pages = Cardinality(Pages \ (pt \cup {ks, text}))
  /\ ref_cnt = [pa \in AllPages |-> IF pa \in pt \cup {ks, text} THEN 1 ELSE 0]
  /\ mem = [pa \in AllPages |-> IF pa = text THEN Image ELSE Junk]
  /\ kstack = [p \in Procs |-> IF p = InitProc THEN ks ELSE NoPage]
  /\ ptpages = [p \in Procs |-> IF p = InitProc THEN pt ELSE {}]
  /\ pgdir = [p \in Procs |-> IF p = InitProc
                              THEN [EmptyPgdir EXCEPT ![0] = [pa |-> text, w |-> TRUE]]
                              ELSE EmptyPgdir]

LEMMA InitStep == Init => IInv
<1> SUFFICES ASSUME Init PROVE IInv
  OBVIOUS
<1>0. PICK ks \in Pages, text \in Pages, pt \in SUBSET Pages :
        text # ks /\ text \notin pt /\ ks \notin pt /\ InitWith(ks, text, pt)
  <2>1. \E ks \in Pages : \E text \in Pages \ {ks} :
          InitWith(ks, text, CHOOSE S \in SUBSET (Pages \ {ks, text}) : Cardinality(S) = KvmPages)
    BY DEF Init, InitWith
  <2>2. PICK ks \in Pages, text \in Pages :
          /\ text # ks
          /\ InitWith(ks, text, CHOOSE S \in SUBSET (Pages \ {ks, text}) : Cardinality(S) = KvmPages)
    BY <2>1
  <2>3. \E S \in SUBSET (Pages \ {ks, text}) : Cardinality(S) = KvmPages
    <3>1. /\ Pages \in SUBSET Pages /\ Pages \ {ks} \in SUBSET Pages /\ text \in Pages \ {ks}
          /\ Pages \ {ks, text} = (Pages \ {ks}) \ {text}
      BY <2>2
    <3>2. Cardinality(Pages \ {ks}) = Cardinality(Pages) - 1
      BY <3>1, FreeCount
    <3>3. /\ Cardinality((Pages \ {ks}) \ {text}) = Cardinality(Pages \ {ks}) - 1
          /\ (Pages \ {ks}) \ {text} \in SUBSET Pages
      BY <3>1, FreeCount
    <3>4. IsFiniteSet(Pages \ {ks, text}) /\ Cardinality(Pages) \in Int
      BY <3>1, <3>3, FreeCount
    <3>5. KvmPages \in Nat /\ KvmPages <= Cardinality(Pages \ {ks, text})
      BY <3>1, <3>2, <3>3, <3>4, ConstantAssumptions
    <3> QED BY <3>4, <3>5, SubsetOfSize
  <2> DEFINE pt == CHOOSE S \in SUBSET (Pages \ {ks, text}) : Cardinality(S) = KvmPages
  <2>4. pt \in SUBSET (Pages \ {ks, text})
    BY <2>3
  <2>5. InitWith(ks, text, pt) /\ text # ks
    BY <2>2
  <2> HIDE DEF pt
  <2>6. pt \in SUBSET Pages /\ text \notin pt /\ ks \notin pt
    BY <2>4
  <2> QED BY <2>5, <2>6
<1>1. /\ text # ks /\ text \notin pt /\ ks \notin pt
      /\ free = Pages \ (pt \cup {ks, text})
      /\ free_pages = Cardinality(Pages \ (pt \cup {ks, text}))
      /\ ref_cnt = [pa \in AllPages |-> IF pa \in pt \cup {ks, text} THEN 1 ELSE 0]
      /\ mem = [pa \in AllPages |-> IF pa = text THEN Image ELSE Junk]
      /\ kstack = [p \in Procs |-> IF p = InitProc THEN ks ELSE NoPage]
      /\ ptpages = [p \in Procs |-> IF p = InitProc THEN pt ELSE {}]
      /\ pgdir = [p \in Procs |-> IF p = InitProc
                                  THEN [EmptyPgdir EXCEPT ![0] = [pa |-> text, w |-> TRUE]]
                                  ELSE EmptyPgdir]
  BY <1>0 DEF InitWith
<1>2. /\ pc = [p \in Procs |-> IF p = InitProc THEN "user" ELSE "unused"]
      /\ sz = [p \in Procs |-> IF p = InitProc THEN PGSIZE ELSE 0]
      /\ npgdir = [p \in Procs |-> EmptyPgdir] /\ nptpages = [p \in Procs |-> {}]
      /\ nsz = [p \in Procs |-> 0] /\ at = [p \in Procs |-> 0]
      /\ other = [p \in Procs |-> NoProc] /\ got = [p \in Procs |-> NoPage]
      /\ lost = {} /\ panicked = FALSE
  BY DEF Init
<1>3. /\ InitProc \in Procs /\ ks \in AllPages /\ text \in AllPages /\ NoPage \notin AllPages /\ 0 \in Vpns
      /\ NoProc \notin Procs /\ NoPage \notin Pages
  BY ConstantAssumptions DEF Vpns, AllPages
<1>4. /\ EmptyPgdir \in [Vpns -> Pte] /\ \A v \in Vpns : EmptyPgdir[v].pa = NoPage /\ EmptyPgdir[v].w = FALSE
      /\ EmptyPgdir[0].pa = NoPage /\ NoPage # text
  BY <1>3 DEF EmptyPgdir, NoPte, Pte
<1>5. /\ [pa |-> text, w |-> TRUE] \in Pte
      /\ pgdir[InitProc] \in [Vpns -> Pte] /\ pgdir[InitProc][0] = [pa |-> text, w |-> TRUE]
      /\ \A v \in Vpns \ {0} : pgdir[InitProc][v] = EmptyPgdir[v]
      /\ \A p \in Procs \ {InitProc} : pgdir[p] = EmptyPgdir
      /\ pgdir \in [Procs -> [Vpns -> Pte]]
  <2>1. [pa |-> text, w |-> TRUE] \in Pte
    BY <1>3 DEF Pte
  <2>2. pgdir[InitProc] = [EmptyPgdir EXCEPT ![0] = [pa |-> text, w |-> TRUE]]
    BY <1>1, <1>3
  <2>3. pgdir[InitProc] \in [Vpns -> Pte]
    BY <1>4, <2>1, <2>2
  <2>4. /\ pgdir[InitProc][0] = [pa |-> text, w |-> TRUE]
        /\ \A v \in Vpns \ {0} : pgdir[InitProc][v] = EmptyPgdir[v]
    BY <1>3, <1>4, <2>2
  <2>5. \A p \in Procs \ {InitProc} : pgdir[p] = EmptyPgdir
    BY <1>1
  <2>6. \A p \in Procs : pgdir[p] \in [Vpns -> Pte]
    BY <1>4, <2>3, <2>5
  <2> QED BY <1>1, <2>1, <2>3, <2>4, <2>5, <2>6
<1>6. TypeOK /\ FreePagesExact
  <2>1. free \in SUBSET Pages /\ free_pages = Cardinality(free)
    BY <1>1
  <2>2. free_pages \in 0 .. Cardinality(Pages)
    BY <2>1, FreeCount
  <2>3. PGSIZE \in 0 .. UserTop * PGSIZE /\ 0 \in 0 .. UserTop * PGSIZE /\ 0 \in 0 .. UserTop
    <3>1. 1 * PGSIZE <= UserTop * PGSIZE /\ 0 * PGSIZE <= UserTop * PGSIZE /\ UserTop * PGSIZE \in Int
      BY Scale, ConstantAssumptions
    <3> QED BY <3>1, ConstantAssumptions
  <2>4. ref_cnt \in [AllPages -> Int] /\ mem \in [AllPages -> Vals]
    BY <1>1 DEF Vals
  <2>5. /\ kstack \in [Procs -> Pages \cup {NoPage}] /\ ptpages \in [Procs -> SUBSET Pages]
        /\ npgdir \in [Procs -> [Vpns -> Pte]] /\ nptpages \in [Procs -> SUBSET Pages]
        /\ pc \in [Procs -> Pcs] /\ sz \in [Procs -> 0 .. UserTop * PGSIZE]
        /\ nsz \in [Procs -> 0 .. UserTop * PGSIZE] /\ at \in [Procs -> 0 .. UserTop]
        /\ other \in [Procs -> Procs \cup {NoProc}] /\ got \in [Procs -> AllPages \cup {NoPage}]
        /\ lost \in SUBSET Pages /\ panicked \in BOOLEAN
    BY <1>1, <1>2, <1>4, <2>3 DEF Pcs
  <2> QED BY <1>5, <2>1, <2>2, <2>4, <2>5 DEF TypeOK, FreePagesExact
<1>7. \A p \in Procs : SizeInv(p)
  <2>1. Sized(pgdir[InitProc], PGSIZE)
    <3>1. PgRoundUp(PGSIZE) = 1
      <4>1. PgRoundUp(1 * PGSIZE) = 1 /\ 1 * PGSIZE = PGSIZE
        BY RoundUpExact, ConstantAssumptions
      <4> QED BY <4>1
    <3>2. Mapped(pgdir[InitProc]) = {0}
      BY <1>3, <1>4, <1>5 DEF Mapped, Present
    <3>3. 0 .. 1 - 1 = {0}
      OBVIOUS
    <3> QED BY <3>1, <3>2, <3>3 DEF Sized
  <2>2. SizeInv(InitProc)
    BY <1>2, <1>3, <2>1 DEF SizeInv, Forking
  <2>3. ASSUME NEW p \in Procs, p # InitProc PROVE SizeInv(p)
    <3>1. pc[p] = "unused"
      BY <1>2, <2>3
    <3> QED BY <3>1 DEF SizeInv, Forking
  <2> QED BY <2>2, <2>3
<1>8. PteInv
  BY <1>2, <1>3, <1>4, <1>5 DEF PteInv, Present
<1>9. SlotInv
  <2>1. \A p \in Procs : ~Waited(p) /\ ~WorksOnSlot(p)
    BY <1>2 DEF Waited, WorksOnSlot, Forking
  <2>2. ASSUME NEW p \in Procs PROVE SlotOk(p)
    <3>1. pc[p] = IF p = InitProc THEN "user" ELSE "unused"
      BY <1>2
    <3>2. kstack[p] = IF p = InitProc THEN ks ELSE NoPage
      BY <1>1
    <3>3. p # InitProc => pgdir[p] = EmptyPgdir /\ ptpages[p] = {}
      BY <1>1, <1>5
    <3>4. npgdir[p] = EmptyPgdir /\ nptpages[p] = {} /\ got[p] = NoPage /\ at[p] = 0
      BY <1>2
    <3> QED BY <1>3, <2>1, <3>1, <3>2, <3>3, <3>4 DEF SlotOk, Forking
  <2> QED BY <2>1, <2>2 DEF SlotInv
<1>10. FaultInv
  BY <1>2 DEF FaultInv
<1>11. ASSUME NEW pa \in Pages PROVE PageInv(pa)
  <2>1. /\ ref_cnt[pa] = IF pa \in pt \cup {ks, text} THEN 1 ELSE 0
        /\ pa \in free <=> pa \notin pt \cup {ks, text}
        /\ pa # NoPage /\ pa \notin lost
    BY <1>1, <1>2, <1>3 DEF AllPages
  <2>2. \A q \in Procs, k \in Holders :
          pa \in HeldBy(q, k) <=> q = InitProc /\ ((k = "kstack" /\ pa = ks) \/ (k = "ptpages" /\ pa \in pt))
    <3> SUFFICES ASSUME NEW q \in Procs, NEW k \in Holders
                 PROVE  pa \in HeldBy(q, k) <=>
                          q = InitProc /\ ((k = "kstack" /\ pa = ks) \/ (k = "ptpages" /\ pa \in pt))
      OBVIOUS
    <3>1. kstack[q] = (IF q = InitProc THEN ks ELSE NoPage) /\ ptpages[q] = (IF q = InitProc THEN pt ELSE {})
      BY <1>1
    <3>2. got[q] = NoPage /\ nptpages[q] = {}
      BY <1>2
    <3> QED BY <2>1, <3>1, <3>2 DEF HeldBy, Holders
  <2>3. /\ "kstack" \in Holders /\ "ptpages" \in Holders
        /\ Owned(pa) <=> pa \in pt \cup {ks}
    BY <1>3, <2>1, <2>2 DEF Owned, InKernel, Holders
  <2>4. \A p, q \in Procs, h, k \in Holders : pa \in HeldBy(p, h) /\ pa \in HeldBy(q, k) => p = q /\ h = k
    BY <1>1, <2>2
  <2>5. UserCount(pa) = One(pa = text)
    <3>1. \A q \in Procs, v \in Vpns : npgdir[q][v].pa # pa
      BY <1>2, <1>4, <2>1
    <3>2. Count(npgdir, pa) = 0
      BY <3>1, NoCount
    <3>3. \A q \in Procs, v \in Vpns : pgdir[q][v].pa = pa <=> q = InitProc /\ v = 0 /\ pa = text
      BY <1>3, <1>4, <1>5, <2>1
    <3>4. Count(pgdir, pa) = One(pa = text)
      <4>1. CASE pa = text
        <5>1. TableRefs(pgdir, pa) = {<<InitProc, 0>>}
          BY <1>3, <3>3, <4>1 DEF TableRefs
        <5> QED BY <4>1, <5>1, FS_Singleton DEF Count, One
      <4>2. CASE pa # text
        BY <3>3, <4>2, NoCount DEF One
      <4> QED BY <4>1, <4>2
    <3> QED BY <3>2, <3>4 DEF UserCount, UserRefs, NewRefs, Count, One
  <2>6. Cardinality(Uncounted(pa)) = 0
    <3>1. Uncounted(pa) = {}
      BY <1>2 DEF Uncounted
    <3> QED BY <3>1, FS_EmptySet
  <2>7. ASSUME NEW p \in Procs, NEW v \in Vpns,
               \/ pgdir[p][v].pa = pa /\ pgdir[p][v].w
               \/ npgdir[p][v].pa = pa /\ npgdir[p][v].w
        PROVE  pa = text
    <3>1. npgdir[p][v].pa # pa
      BY <1>2, <1>4, <2>1
    <3>2. pgdir[p][v].pa = pa => pa = text
      BY <1>4, <1>5, <2>1
    <3> QED BY <2>7, <3>1, <3>2
  <2>8. text \notin pt \cup {ks}
    BY <1>1
  <2> QED BY <2>1, <2>2, <2>3, <2>4, <2>5, <2>6, <2>7, <2>8 DEF PageInv, One, Owned
<1> QED BY <1>2, <1>6, <1>7, <1>8, <1>9, <1>10, <1>11 DEF IInv, MemInv

LEMMA StutterStep == IInv /\ UNCHANGED vars => IInv'
<1> SUFFICES ASSUME IInv, UNCHANGED vars PROVE IInv'
  OBVIOUS
<1> USE DEF IInv, MemInv
<1>1. /\ UNCHANGED <<free, free_pages, ref_cnt, mem, pc, kstack, pgdir, ptpages, sz, npgdir, nptpages>>
      /\ UNCHANGED <<nsz, at, other, got, lost, panicked>>
  BY DEF vars
<1>2. TypeOK' /\ FreePagesExact'
  BY <1>1 DEF TypeOK, FreePagesExact
<1>3. \A p \in Procs : SizeInv(p)'
  BY <1>1, SizeFrame
<1>4. ASSUME ~panicked PROVE PteInv' /\ SlotInv' /\ FaultInv' /\ \A pa \in Pages : PageInv(pa)'
  <2>1. SameTables
    BY <1>1 DEF SameTables
  <2>2. PteInv' /\ \A pa \in Pages : PageInv(pa)'
    BY <1>1, <1>4, <2>1, QuietPages
  <2>3. \A p \in Procs : SlotOk(p)'
    BY <1>1, <1>4, SlotFrame DEF SlotInv, Waited
  <2>4. SlotInv'
    BY <1>1, <1>4, <2>3 DEF SlotInv, WorksOnSlot
  <2>5. FaultInv'
    BY <1>1, <1>4 DEF FaultInv, IrqOff
  <2> QED BY <2>2, <2>4, <2>5
<1> QED BY <1>1, <1>2, <1>3, <1>4

\* A panic leaves memory as it is, and the counts no longer matter.
LEMMA PageFaultUnmappedStep ==
  ASSUME IInv, NEW p \in Procs, PageFaultUnmapped(p)
  PROVE  IInv'
<1> USE DEF IInv, MemInv
<1>1. /\ UNCHANGED <<free, free_pages, ref_cnt, mem, pc, kstack, pgdir, ptpages, sz, npgdir, nptpages>>
      /\ UNCHANGED <<nsz, at, other, got, lost>> /\ panicked' = TRUE
  BY DEF PageFaultUnmapped, kmem, local
<1>2. TypeOK' /\ FreePagesExact'
  BY <1>1 DEF TypeOK, FreePagesExact
<1>3. \A q \in Procs : SizeInv(q)'
  BY <1>1, SizeFrame
<1> QED BY <1>1, <1>2, <1>3

LEMMA NextStep == IInv /\ [Next]_vars => IInv'
<1> SUFFICES ASSUME IInv, [Next]_vars PROVE IInv'
  OBVIOUS
<1>1. CASE UNCHANGED vars
  BY <1>1, StutterStep
<1>2. ASSUME NEW p \in Procs, NEW v \in Vpns, NEW x \in Stores, UserStore(p, v, x) \/ KernelStore(p, v, x)
      PROVE  IInv'
  BY <1>2, StoreStep
<1>3. ASSUME NEW p \in Procs, NEW v \in Vpns, PageFaultOwner(p, v) \/ PageFaultCopy(p, v)
      PROVE  IInv'
  BY <1>3, PageFaultOwnerStep, PageFaultCopyStep
<1>4. ASSUME NEW p \in Procs, NEW c \in Procs, Fork(p, c) \/ Wait(p, c) PROVE IInv'
  BY <1>4, ForkStep, WaitStep
<1>5. ASSUME NEW p \in Procs, NEW n \in SbrkArgs, Sbrk(p, n) PROVE IInv'
  BY <1>5, SbrkStep
<1>6. ASSUME NEW p \in Procs,
             \/ PageFaultDone(p) \/ SetupKvm(p)
             \/ ForkKstack(p) \/ ForkMap(p) \/ ForkInc(p) \/ ForkDone(p) \/ ForkFail(p)
      PROVE  IInv'
  BY <1>6, PageFaultDoneStep, SetupKvmStep, ForkKstackStep, ForkMapStep, ForkIncStep, ForkDoneStep,
     ForkFailStep
<1>7. ASSUME NEW p \in Procs,
             \/ GrowPage(p) \/ DeallocPage(p) \/ GrowprocDone(p)
             \/ Exec(p) \/ ExecLoad(p) \/ ExecBad(p) \/ ExecCommit(p)
             \/ Exit(p) \/ FreeVm(p) \/ FreeVmDone(p)
      PROVE  IInv'
  BY <1>7, GrowPageStep, DeallocPageStep, GrowprocDoneStep, ExecStep, ExecLoadStep, ExecBadStep,
     ExecCommitStep, ExitStep, FreeVmStep, FreeVmDoneStep
<1>8. ASSUME NEW p \in Procs, PageFaultAgain(p) \/ PageFaultUnmapped(p) PROVE IInv'
  BY <1>1, <1>8, PageFaultUnmappedStep DEF PageFaultAgain
<1>9. CASE Halted
  BY <1>1, <1>9 DEF Halted
<1> QED BY <1>1, <1>2, <1>3, <1>4, <1>5, <1>6, <1>7, <1>8, <1>9 DEF Next

-----------------------------------------------------------------------------
(***************************************************************************)
(* What the invariant means.                                               *)
(***************************************************************************)
LEMMA WritableSole ==
  ASSUME IInv
  PROVE  WritableExclusive
<1> SUFFICES ASSUME NEW p \in Procs, NEW v \in Vpns, ~panicked,
                    pgdir[p][v].w, pgdir[p][v].pa # Page0
             PROVE  UserRefs(pgdir[p][v].pa) = {<<p, v>>} /\ NewRefs(pgdir[p][v].pa) = {}
  BY DEF WritableExclusive
<1>1. pgdir[p][v].pa \in Pages
  <2>1. pgdir[p][v].pa \in AllPages \cup {NoPage}
    BY DEF IInv, MemInv, TypeOK, Pte
  <2>2. pgdir[p][v].pa # NoPage
    BY DEF IInv, PteInv, Present
  <2> QED BY <2>1, <2>2 DEF AllPages
<1>2. PICK pa \in Pages : pa = pgdir[p][v].pa
  BY <1>1
<1>3. UserCount(pa) = 1
  BY <1>2 DEF IInv, PageInv
<1> QED BY <1>2, <1>3, Sole

\* The references to a page, counted once each.
LEMMA RefsOf ==
  ASSUME IInv, ~panicked, NEW pa \in Pages
  PROVE  Refs(pa) = IF Owned(pa) THEN 1 ELSE UserCount(pa)
<1>1. PageInv(pa) /\ UserCount(pa) \in Nat /\ UserCount(pa) = Cardinality(UserRefs(pa)) + Cardinality(NewRefs(pa))
  BY UncountedBound DEF IInv, MemInv, UserCount
<1>2. pa # NoPage
  BY ConstantAssumptions DEF AllPages
<1>3. \A p \in Procs : p \in KernelRefs(pa) <=> \E h \in Holders : pa \in HeldBy(p, h)
  BY DEF KernelRefs, HeldBy, Holders
<1>4. CASE InKernel(pa)
  <2>1. PICK p \in Procs : \E h \in Holders : pa \in HeldBy(p, h)
    BY <1>4 DEF InKernel
  <2>2. KernelRefs(pa) = {p}
    <3>1. \A q \in Procs : q \in KernelRefs(pa) <=> q = p
      BY <1>1, <1>3, <2>1 DEF PageInv
    <3>2. KernelRefs(pa) \subseteq Procs
      BY DEF KernelRefs
    <3> QED BY <3>1, <3>2
  <2>3. Cardinality(KernelRefs(pa)) = 1
    BY <2>2, FS_Singleton
  <2>4. Owned(pa) /\ pa \notin lost /\ UserCount(pa) = 0
    BY <1>1, <1>4 DEF PageInv, Owned
  <2> QED BY <1>1, <2>3, <2>4 DEF Refs
<1>5. CASE ~InKernel(pa)
  <2>1. KernelRefs(pa) = {}
    <3>1. \A q \in Procs : q \notin KernelRefs(pa)
      BY <1>3, <1>5 DEF InKernel
    <3> QED BY <3>1 DEF KernelRefs
  <2>2. Cardinality(KernelRefs(pa)) = 0
    BY <2>1, FS_EmptySet
  <2>3. CASE pa \in lost
    <3>1. Owned(pa) /\ UserCount(pa) = 0
      BY <1>1, <2>3 DEF PageInv, Owned
    <3> QED BY <1>1, <2>2, <2>3, <3>1 DEF Refs
  <2>4. CASE pa \notin lost
    <3>1. ~Owned(pa)
      BY <1>5, <2>4 DEF Owned
    <3> QED BY <1>1, <2>2, <2>4, <3>1 DEF Refs
  <2> QED BY <2>3, <2>4
<1> QED BY <1>4, <1>5

LEMMA FreeUnused ==
  ASSUME IInv
  PROVE  NoUseAfterFree
<1> SUFFICES ASSUME ~panicked, NEW pa \in free PROVE Refs(pa) = 0
  BY DEF NoUseAfterFree
<1>1. pa \in Pages
  BY DEF IInv, MemInv, TypeOK
<1>2. PageInv(pa)
  BY <1>1 DEF IInv
<1> QED BY <1>1, <1>2, FreePage, RefsOf

LEMMA CountsExact ==
  ASSUME IInv, NCPU = 1
  PROVE  RefCountsExact
<1> SUFFICES ASSUME ~panicked, NEW pa \in Pages
             PROVE  /\ ref_cnt[pa] = Refs(pa) - Cardinality(Uncounted(pa))
                    /\ pa \in free <=> Refs(pa) = 0
  BY DEF RefCountsExact
<1>1. PageInv(pa)
  BY DEF IInv
<1>2. /\ Cardinality(Uncounted(pa)) \in Nat /\ UserCount(pa) \in Nat
      /\ Cardinality(Uncounted(pa)) <= Cardinality(UserRefs(pa))
      /\ Cardinality(UserRefs(pa)) \in Nat /\ Cardinality(NewRefs(pa)) \in Nat
      /\ UserCount(pa) = Cardinality(UserRefs(pa)) + Cardinality(NewRefs(pa))
  BY UncountedBound DEF IInv, MemInv, UserCount
<1>3. CASE Owned(pa)
  <2>1. UserCount(pa) = 0 /\ ref_cnt[pa] = 1 /\ pa \notin free /\ Refs(pa) = 1
    BY <1>1, <1>3, RefsOf DEF PageInv
  <2>2. Cardinality(Uncounted(pa)) = 0
    BY <1>2, <2>1
  <2> QED BY <2>1, <2>2
<1>4. CASE ~Owned(pa)
  <2>1. /\ Refs(pa) = UserCount(pa) /\ ref_cnt[pa] = UserCount(pa) - Cardinality(Uncounted(pa))
        /\ pa \in free => UserCount(pa) = 0
        /\ pa \in free \/ UserCount(pa) > 0
    BY <1>1, <1>4, RefsOf DEF PageInv
  <2> QED BY <1>2, <2>1
<1> QED BY <1>3, <1>4

LEMMA SizesMapped ==
  ASSUME IInv
  PROVE  SizeMapped
<1> SUFFICES ASSUME NEW p \in Procs, pc[p] = "user", Present(pgdir[p], 0)
             PROVE  Mapped(pgdir[p]) = {v \in Vpns : v * PGSIZE < sz[p]}
  BY DEF SizeMapped
<1>1. sz[p] \in Nat /\ PgRoundUp(sz[p]) \in 0 .. UserTop /\ UserTop \in Nat
  BY Sizes DEF IInv, MemInv
<1>2. Mapped(pgdir[p]) = 0 .. PgRoundUp(sz[p]) - 1
  BY DEF IInv, MemInv, SizeInv, Sized
<1>3. \A v \in Vpns : v \in Nat /\ (v * PGSIZE < sz[p] <=> v < PgRoundUp(sz[p]))
  BY <1>1, RoundUp DEF Vpns
<1>4. \A v : v \in 0 .. PgRoundUp(sz[p]) - 1 <=> v \in Vpns /\ v < PgRoundUp(sz[p])
  BY <1>1 DEF Vpns
<1> QED BY <1>2, <1>3, <1>4

(***************************************************************************)
(* The theorems.                                                           *)
(***************************************************************************)
\* The counts, the page tables, the slots and the sizes stay consistent
\* whatever kalloc, kfree, fork, exec, sbrk, exit, wait and page faults do in
\* whatever order, with any number of processes, pages and CPUs.
THEOREM Inductive == Spec => []IInv
<1>1. Init => IInv
  BY InitStep
<1>2. IInv /\ [Next]_vars => IInv'
  BY NextStep
<1> QED BY <1>1, <1>2, PTL DEF Spec

\* Two faults that race on a shared page can cost its count (vm.c:411-422) and
\* the page, never its safety: kalloc hands out no page in use, and who can
\* write a page is its only user.
THEOREM Safe == Spec => []SharingSafe
<1>1. IInv => SharingSafe
  BY FreeUnused, WritableSole DEF SharingSafe
<1> QED BY <1>1, Inductive, PTL

\* With one CPU, where pgfltintr is not interrupted between its two critical
\* sections, ref_cnt is exact (kalloc.c:23), no page is lost but those setupkvm
\* drops, and a process has the pages its sz promises (vm.c:226, 255).
THEOREM Exact == Spec /\ NCPU = 1 => []MemoryExact
<1>1. IInv /\ NCPU = 1 => MemoryExact
  BY CountsExact, WritableSole, SizesMapped DEF MemoryExact, IInv, MemInv
<1>2. ASSUME NCPU = 1 PROVE Spec => []MemoryExact
  <2>1. IInv => MemoryExact
    BY <1>1, <1>2
  <2> QED BY <2>1, Inductive, PTL
<1> QED BY <1>2

-----------------------------------------------------------------------------
(***************************************************************************)
(* Isolation.  p reads the page it was given in a fault, or those it maps; *)
(* the rest of memory may change.                                          *)
(***************************************************************************)
Seen(p, v, pa) == pa = got[p] \/ pa = pgdir[p][v].pa
SeenKept(p, v) == \A pa \in Pages : Seen(p, v, pa) => mem'[pa] = mem[pa]
NotPage0(p, v) == pgdir[p][v].pa # Page0 /\ got[p] # Page0

LEMMA ViewKept ==
  ASSUME IInv, ~panicked, NEW p \in Procs, NEW v \in Vpns, NotPage0(p, v), SeenKept(p, v),
         pgdir'[p][v].pa = pgdir[p][v].pa, got'[p] = got[p],
         pc'[p] = "fault" <=> pc[p] = "fault", pc[p] = "fault" => at'[p] = at[p]
  PROVE  View(p, v)' = View(p, v)
<1>1. pgdir[p][v].pa \in Pages \cup {NoPage} /\ got[p] \in Pages \cup {NoPage}
  BY DEF NotPage0, IInv, MemInv, TypeOK, Pte, AllPages
<1>2. pc[p] = "fault" => got[p] # NoPage
  BY DEF IInv, SlotInv, SlotOk
<1>3. CASE pc[p] = "fault" /\ at[p] = v
  <2>1. mem'[got[p]] = mem[got[p]]
    BY <1>1, <1>2, <1>3 DEF SeenKept, Seen
  <2> QED BY <1>3, <2>1 DEF View
<1>4. CASE ~(pc[p] = "fault" /\ at[p] = v)
  <2>1. pgdir[p][v].pa # NoPage => mem'[pgdir[p][v].pa] = mem[pgdir[p][v].pa]
    BY <1>1 DEF SeenKept, Seen
  <2> QED BY <1>4, <2>1 DEF View, Present
<1> QED BY <1>3, <1>4

\* A page of the freelist is read by nobody.
LEMMA FreshUnseen ==
  ASSUME IInv, ~panicked, NEW new \in free, NEW p \in Procs, NEW v \in Vpns
  PROVE  /\ new \in Pages /\ ~Seen(p, v, new)
         /\ \A x : mem' = [mem EXCEPT ![new] = x] => SeenKept(p, v)
<1>1. new \in Pages /\ new \in AllPages /\ mem \in [AllPages -> Vals]
  BY DEF IInv, MemInv, TypeOK, AllPages
<1>2. PageInv(new) /\ "got" \in Holders
  BY <1>1 DEF IInv, Holders
<1>3. new \notin HeldBy(p, "got") /\ pgdir[p][v].pa # new
  BY <1>1, <1>2, FreePage
<1>4. ~Seen(p, v, new)
  BY <1>3 DEF Seen, HeldBy
<1>5. ASSUME NEW x, mem' = [mem EXCEPT ![new] = x] PROVE SeenKept(p, v)
  BY <1>1, <1>4, <1>5 DEF SeenKept, AllPages
<1> QED BY <1>1, <1>4, <1>5

\* Nor is one that the kernel holds for other purposes.
LEMMA HeldUnseen ==
  ASSUME IInv, ~panicked, NEW x \in Pages, NEW q \in Procs, NEW h \in Holders \ {"got"}, x \in HeldBy(q, h),
         NEW p \in Procs, NEW v \in Vpns
  PROVE  ~Seen(p, v, x)
<1>1. PageInv(x) /\ "got" \in Holders
  BY DEF IInv, Holders
<1>2. x \notin HeldBy(p, "got") /\ pgdir[p][v].pa # x
  BY <1>1, HeldPage
<1> QED BY <1>2 DEF Seen, HeldBy

\* The last reference to a page is the only one.
LEMMA LastUnseen ==
  ASSUME IInv, ~panicked, NEW x \in Pages, NEW q \in Procs, NEW u \in Vpns, pc[q] # "f_inc",
         pgdir[q][u].pa = x \/ npgdir[q][u].pa = x, ref_cnt[x] = 1,
         NEW p \in Procs, NEW v \in Vpns
  PROVE  Seen(p, v, x) => p = q /\ pgdir[q][u].pa = x
<1>1. PageInv(x) /\ TypeOK /\ \A r \in Procs : SizeInv(r)
  BY DEF IInv, MemInv
<1>2. UserCount(x) = 1 /\ ~Owned(x)
  BY <1>1, MappedPage
<1>3. got[p] # x
  BY <1>2 DEF Owned, InKernel, HeldBy, Holders
<1>4. ASSUME pgdir[p][v].pa = x PROVE p = q /\ pgdir[q][u].pa = x
  <2>1. UserRefs(x) = {<<p, v>>} /\ NewRefs(x) = {}
    BY <1>2, <1>4, Sole
  <2>2. pgdir[q][u].pa = x => <<q, u>> \in UserRefs(x)
    BY DEF UserRefs, TableRefs
  <2>3. npgdir[q][u].pa = x => <<q, u>> \in NewRefs(x)
    BY DEF NewRefs, TableRefs
  <2> QED BY <2>1, <2>2, <2>3
<1> QED BY <1>3, <1>4 DEF Seen

\* kfree junks a page only with its last reference.
LEMMA KfreeUnseen ==
  ASSUME IInv, NEW x \in AllPages, Kfree(x), NEW p \in Procs, NEW v \in Vpns,
         x \in Pages /\ ref_cnt[x] = 1 => ~Seen(p, v, x)
  PROVE  SeenKept(p, v)
<1>1. mem \in [AllPages -> Vals]
  BY DEF IInv, MemInv, TypeOK
<1>2. CASE x = Page0 \/ ref_cnt[x] # 1
  BY <1>2 DEF Kfree, SeenKept
<1>3. CASE x # Page0 /\ ref_cnt[x] = 1
  <2>1. mem' = [mem EXCEPT ![x] = Junk] \/ mem' = mem
    BY <1>3 DEF Kfree
  <2>2. x \in Pages
    BY <1>3 DEF AllPages
  <2> QED BY <1>1, <1>3, <2>1, <2>2 DEF SeenKept, AllPages
<1> QED BY <1>2, <1>3

(***************************************************************************)
(* The steps: Kept is what IsolationFromUserStores says of one page.       *)
(***************************************************************************)
Kept(p, v) ==
  \/ View(p, v)' = View(p, v) \/ Remaps(p) \/ OwnStore(p, v) \/ panicked'
  \/ pgdir[p][v].pa = Page0 \/ got[p] = Page0 \/ WriteThrough \/ OomFault

\* A step that writes no page p reads and leaves p its tables.
LEMMA KeptFrame ==
  ASSUME IInv, ~panicked, NEW p \in Procs, NEW v \in Vpns, SeenKept(p, v),
         pgdir'[p][v].pa = pgdir[p][v].pa, got'[p] = got[p],
         pc'[p] = "fault" <=> pc[p] = "fault", pc[p] = "fault" => at'[p] = at[p]
  PROVE  Kept(p, v)
BY ViewKept DEF Kept, NotPage0

LEMMA StoreKept ==
  ASSUME IInv, NEW q \in Procs, NEW u \in Vpns, NEW x \in Stores, UserStore(q, u, x) \/ KernelStore(q, u, x),
         NEW p \in Procs, NEW v \in Vpns
  PROVE  Kept(p, v)
<1>1. ~panicked /\ Present(pgdir[q], u) /\ Store(q, u, x)
  BY DEF UserStore, KernelStore, RunsUser, CanStep
<1>2. /\ mem' = [mem EXCEPT ![pgdir[q][u].pa] = x]
      /\ UNCHANGED <<pgdir, got, pc, at>>
  BY <1>1 DEF Store, local
<1>3. CASE ~pgdir[q][u].w
  BY <1>3 DEF UserStore, WriteThrough, Kept
<1>4. CASE pgdir[q][u].w /\ p = q /\ u = v
  BY <1>4 DEF OwnStore, Kept
<1>5. CASE pgdir[q][u].w /\ ~(p = q /\ u = v)
  <2>1. SeenKept(p, v)
    <3> SUFFICES ASSUME NEW pa \in Pages, Seen(p, v, pa) PROVE mem'[pa] = mem[pa]
      BY DEF SeenKept
    <3>1. pa # pgdir[q][u].pa
      <4> SUFFICES ASSUME pa = pgdir[q][u].pa PROVE FALSE
        OBVIOUS
      <4>1. pa # Page0
        BY ConstantAssumptions
      <4>2. UserRefs(pa) = {<<q, u>>}
        BY <1>1, <1>5, <4>1, WritableSole DEF WritableExclusive
      <4>3. ~Owned(pa)
        BY <1>1, MappedPage DEF IInv, MemInv
      <4>4. got[p] # pa
        BY <4>3 DEF Owned, InKernel, HeldBy, Holders
      <4>5. <<p, v>> \in UserRefs(pa)
        BY <4>4 DEF Seen, UserRefs, TableRefs
      <4> QED BY <1>5, <4>2, <4>5
    <3> QED BY <1>2, <3>1 DEF IInv, MemInv, TypeOK, AllPages
  <2> QED BY <1>1, <1>2, <2>1, KeptFrame
<1> QED BY <1>3, <1>4, <1>5

\* Steps that write no page and leave the pages of all tables in use.
LEMMA QuietKept ==
  ASSUME IInv, ~panicked, UNCHANGED <<mem, got>>, NEW p \in Procs, NEW v \in Vpns,
         pgdir'[p][v].pa = pgdir[p][v].pa,
         pc'[p] = "fault" <=> pc[p] = "fault", pc[p] = "fault" => at'[p] = at[p]
  PROVE  Kept(p, v)
BY KeptFrame DEF SeenKept

LEMMA FaultOwnerKept ==
  ASSUME IInv, NEW q \in Procs, NEW u \in Vpns, PageFaultOwner(q, u), NEW p \in Procs, NEW v \in Vpns
  PROVE  Kept(p, v)
<1>1. ~panicked /\ pgdir' = [pgdir EXCEPT ![q][u].w = TRUE] /\ UNCHANGED <<mem, got, pc, at>>
  BY DEF PageFaultOwner, Faults, RunsUser, CanStep, local
<1>2. pgdir'[p][v].pa = pgdir[p][v].pa
  BY <1>1 DEF IInv, MemInv, TypeOK, Pte
<1> QED BY <1>1, <1>2, QuietKept

\* The copy shows p what it read before; it is written to a page nobody reads.
LEMMA FaultCopyKept ==
  ASSUME IInv, NEW q \in Procs, NEW u \in Vpns, PageFaultCopy(q, u), NEW p \in Procs, NEW v \in Vpns
  PROVE  Kept(p, v)
<1>1. /\ ~panicked /\ pc[q] = "user" /\ Present(pgdir[q], u) /\ UNCHANGED pgdir
      /\ at' = [at EXCEPT ![q] = u] /\ pc' = [pc EXCEPT ![q] = "fault"]
  BY DEF PageFaultCopy, Faults, RunsUser, CanStep, Goto
<1>2. CASE free = {}
  BY <1>2 DEF Kept, OomFault
<1>3. CASE free # {}
  <2>1. PICK new \in free : /\ mem' = [mem EXCEPT ![new] = mem[pgdir[q][u].pa]]
                            /\ got' = [got EXCEPT ![q] = new]
    BY <1>3 DEF PageFaultCopy, KallocFails
  <2>2. SeenKept(p, v) /\ new \in Pages /\ ~Seen(p, v, new)
    BY <1>1, <2>1, FreshUnseen
  <2>3. CASE p # q
    <3>1. got'[p] = got[p] /\ (pc'[p] = "fault" <=> pc[p] = "fault") /\ at'[p] = at[p]
      BY <1>1, <2>1, <2>3 DEF IInv, MemInv, TypeOK
    <3> QED BY <1>1, <2>2, <3>1, KeptFrame
  <2>4. CASE p = q
    <3>1. /\ pc'[p] = "fault" /\ at'[p] = u /\ got'[p] = new /\ mem'[new] = mem[pgdir[q][u].pa]
      BY <1>1, <2>1, <2>2, <2>4 DEF IInv, MemInv, TypeOK, AllPages
    <3>2. CASE v = u
      BY <1>1, <2>4, <3>1, <3>2 DEF View, Kept
    <3>3. CASE v # u
      <4>1. pgdir[p][v].pa \in Pages \cup {NoPage, Page0}
        BY DEF IInv, MemInv, TypeOK, Pte, AllPages
      <4>2. pgdir[p][v].pa \in Pages => mem'[pgdir[p][v].pa] = mem[pgdir[p][v].pa]
        BY <2>2 DEF SeenKept, Seen
      <4> QED BY <1>1, <2>4, <3>1, <3>3, <4>1, <4>2 DEF View, Kept, Present
    <3> QED BY <3>2, <3>3
  <2> QED BY <2>3, <2>4
<1> QED BY <1>2, <1>3

LEMMA FaultDoneKept ==
  ASSUME IInv, NEW q \in Procs, PageFaultDone(q), NEW p \in Procs, NEW v \in Vpns
  PROVE  Kept(p, v)
<1>1. /\ ~panicked /\ pc[q] = "fault" /\ UNCHANGED mem
      /\ pgdir' = [pgdir EXCEPT ![q][at[q]] = [pa |-> got[q], w |-> TRUE]]
      /\ got' = [got EXCEPT ![q] = NoPage] /\ at' = [at EXCEPT ![q] = 0] /\ pc' = [pc EXCEPT ![q] = "user"]
  BY DEF PageFaultDone, At, CanStep, Goto
<1>2. CASE p # q
  <2>1. pgdir'[p] = pgdir[p] /\ got'[p] = got[p] /\ pc'[p] = pc[p] /\ at'[p] = at[p]
    BY <1>1, <1>2 DEF IInv, MemInv, TypeOK
  <2> QED BY <1>1, <2>1, KeptFrame DEF SeenKept
<1>3. CASE p = q
  <2>1. got[p] # NoPage /\ got[p] \in AllPages /\ at[p] \in Vpns
    BY <1>1, <1>3 DEF IInv, MemInv, TypeOK, SizeInv, SlotInv, SlotOk
  <2>2. pc'[p] = "user" /\ (v # at[p] => pgdir'[p][v] = pgdir[p][v])
    BY <1>1, <1>3 DEF IInv, MemInv, TypeOK
  <2>3. v = at[p] => pgdir'[p][v] = [pa |-> got[p], w |-> TRUE]
    BY <1>1, <1>3, <2>1 DEF IInv, MemInv, TypeOK
  <2>4. v = at[p] => pgdir'[p][v].pa = got[p]
    BY <2>3
  <2> QED BY <1>1, <1>3, <2>1, <2>2, <2>4 DEF View, Present, Kept
<1> QED BY <1>2, <1>3

\* setupkvm and fork's kernel stack take free pages and leave their contents.
LEMMA ForkKept ==
  ASSUME IInv, NEW q \in Procs,
         SetupKvm(q) \/ ForkKstack(q) \/ ForkInc(q) \/ (\E c \in Procs : Fork(q, c)),
         NEW p \in Procs, NEW v \in Vpns
  PROVE  Kept(p, v)
<1>1. ~panicked /\ UNCHANGED <<mem, got, pgdir>> /\ pc[q] # "fault" /\ UNCHANGED nsz
  BY DEF SetupKvm, ForkKstack, ForkInc, Fork, RunsUser, At, CanStep, local
<1>2. (pc'[p] = "fault" <=> pc[p] = "fault") /\ (pc[p] = "fault" => at'[p] = at[p])
  <2>1. CASE SetupKvm(q)
    BY <2>1 DEF SetupKvm, At, Goto, local, IInv, MemInv, TypeOK
  <2>2. CASE ForkKstack(q)
    <3>1. \/ pc' = [pc EXCEPT ![q] = "f_kvm"]
          \/ pc' = [pc EXCEPT ![q] = "user", ![other[q]] = "unused"]
      BY <2>2 DEF ForkKstack, Goto, Return
    <3>2. pc[q] # "fault" /\ pc[other[q]] # "fault" /\ at' = at
      BY <1>1, <2>2 DEF ForkKstack, At, IInv, SlotInv, SlotOk, Forking
    <3> QED BY <3>1, <3>2 DEF IInv, MemInv, TypeOK
  <2>3. CASE ForkInc(q)
    BY <2>3 DEF ForkInc, At, Goto, IInv, MemInv, TypeOK
  <2>4. CASE \E c \in Procs : Fork(q, c)
    <3>1. PICK c \in Procs : Fork(q, c)
      BY <2>4
    <3>2. pc' = [pc EXCEPT ![q] = "f_kstack", ![c] = "embryo"] /\ at' = at /\ pc[q] = "user" /\ pc[c] = "unused"
      BY <3>1 DEF Fork, RunsUser
    <3> QED BY <3>2 DEF IInv, MemInv, TypeOK
  <2> QED BY <2>1, <2>2, <2>3, <2>4
<1> QED BY <1>1, <1>2, QuietKept

LEMMA ForkMapKept ==
  ASSUME IInv, NEW q \in Procs, ForkMap(q), NEW p \in Procs, NEW v \in Vpns
  PROVE  Kept(p, v)
<1>1. /\ ~panicked /\ pc[q] = "f_map" /\ UNCHANGED <<mem, got, at>>
      /\ \/ pgdir' = [pgdir EXCEPT ![q][at[q]].w = FALSE] /\ pc' = [pc EXCEPT ![q] = "f_inc"]
         \/ UNCHANGED <<pgdir, pc>>
  BY DEF ForkMap, At, CanStep, Goto, local
<1>2. pgdir'[p][v].pa = pgdir[p][v].pa
  <2>1. pgdir' = pgdir \/ \E u : pgdir' = [pgdir EXCEPT ![q][u].w = FALSE]
    BY <1>1
  <2>2. ASSUME NEW u, pgdir' = [pgdir EXCEPT ![q][u].w = FALSE] PROVE pgdir'[p][v].pa = pgdir[p][v].pa
    BY <2>2 DEF IInv, MemInv, TypeOK, Pte
  <2> QED BY <2>1, <2>2
<1>3. pc'[p] = "fault" <=> pc[p] = "fault"
  BY <1>1 DEF IInv, MemInv, TypeOK
<1> QED BY <1>1, <1>2, <1>3, QuietKept

\* The slot whose tables change is the child's own.
LEMMA ForkDoneKept ==
  ASSUME IInv, NEW q \in Procs, ForkDone(q), NEW p \in Procs, NEW v \in Vpns
  PROVE  Kept(p, v)
<1>1. /\ ~panicked /\ pc[q] = "f_map" /\ UNCHANGED <<mem, got>>
      /\ pgdir' = [pgdir EXCEPT ![other[q]] = npgdir[q]] /\ at' = [at EXCEPT ![q] = 0]
      /\ pc' = [pc EXCEPT ![q] = "user", ![other[q]] = "user"]
  BY DEF ForkDone, At, CanStep, Return
<1>2. other[q] \in Procs /\ pc[other[q]] = "embryo"
  BY <1>1 DEF IInv, SlotInv, SlotOk, Forking
<1>3. CASE p = other[q]
  BY <1>2, <1>3 DEF Remaps, Kept
<1>4. CASE p # other[q]
  <2>1. pgdir'[p] = pgdir[p] /\ (pc'[p] = "fault" <=> pc[p] = "fault") /\ (pc[p] = "fault" => at'[p] = at[p])
    BY <1>1, <1>2, <1>4 DEF IInv, MemInv, TypeOK
  <2> QED BY <1>1, <2>1, QuietKept
<1> QED BY <1>3, <1>4

LEMMA KstackUnseen ==
  ASSUME IInv, ~panicked, NEW c \in Procs, kstack[c] # NoPage, Kfree(kstack[c]), NEW p \in Procs, NEW v \in Vpns
  PROVE  SeenKept(p, v)
<1>1. kstack[c] \in Pages /\ kstack[c] \in AllPages
  BY DEF IInv, MemInv, TypeOK, AllPages
<1>2. "kstack" \in Holders \ {"got"} /\ kstack[c] \in HeldBy(c, "kstack")
  BY DEF Holders, HeldBy
<1>3. ~Seen(p, v, kstack[c])
  BY <1>1, <1>2, HeldUnseen
<1> QED BY <1>1, <1>3, KfreeUnseen

LEMMA ForkFailKept ==
  ASSUME IInv, NEW q \in Procs, ForkFail(q), NEW p \in Procs, NEW v \in Vpns
  PROVE  Kept(p, v)
<1>1. /\ ~panicked /\ pc[q] = "f_fail" /\ UNCHANGED <<pgdir, got, at>> /\ Kfree(kstack[other[q]])
      /\ pc' = [pc EXCEPT ![q] = "user", ![other[q]] = "unused"]
  BY DEF ForkFail, At, CanStep, Return
<1>2. other[q] \in Procs /\ pc[other[q]] = "embryo" /\ kstack[other[q]] # NoPage
  BY <1>1 DEF IInv, SlotInv, SlotOk, Forking
<1>3. pc'[p] = "fault" <=> pc[p] = "fault"
  BY <1>1, <1>2 DEF IInv, MemInv, TypeOK
<1> QED BY <1>1, <1>2, <1>3, KstackUnseen, KeptFrame

\* sbrk and exec up to the swap: of p's tables only its own calls change entries.
LEMMA CallKept ==
  ASSUME IInv, NEW q \in Procs,
         \/ (\E n \in SbrkArgs : Sbrk(q, n)) \/ GrowprocDone(q) \/ Exec(q) \/ ExecBad(q) \/ Exit(q),
         NEW p \in Procs, NEW v \in Vpns
  PROVE  Kept(p, v)
<1>1. /\ ~panicked /\ UNCHANGED <<mem, got, pgdir>> /\ pc[q] # "fault"
      /\ \E l \in Pcs \ {"fault"} : pc' = [pc EXCEPT ![q] = l]
      /\ at' = at \/ \E n : at' = [at EXCEPT ![q] = n]
  BY DEF Sbrk, GrowprocDone, Exec, ExecBad, Exit, RunsUser, At, CanStep, Goto, local, Pcs
<1>2. (pc'[p] = "fault" <=> pc[p] = "fault") /\ (pc[p] = "fault" => at'[p] = at[p])
  BY <1>1 DEF IInv, MemInv, TypeOK
<1> QED BY <1>1, <1>2, QuietKept

\* A new page of sbrk or exec was free.
LEMMA NewPageKept ==
  ASSUME IInv, NEW q \in Procs, GrowPage(q) \/ ExecLoad(q), NEW p \in Procs, NEW v \in Vpns
  PROVE  Kept(p, v)
<1>1. /\ ~panicked /\ pc[q] \in {"grow", "e_load"} /\ UNCHANGED got
      /\ \E l \in {"grow", "e_load", "undo"} : pc' = [pc EXCEPT ![q] = l]
      /\ \E n : at' = [at EXCEPT ![q] = n]
      /\ \/ pgdir' = pgdir
         \/ \E e : pgdir' = [pgdir EXCEPT ![q][at[q]] = e]
      /\ \/ mem' = mem
         \/ \E new \in free : \E x : mem' = [mem EXCEPT ![new] = x]
  <2>1. CASE GrowPage(q)
    <3>1. ~panicked /\ pc[q] = "grow" /\ UNCHANGED got
      BY <2>1 DEF GrowPage, At, CanStep
    <3>2. CASE \E new \in free : /\ Kalloc(new)
                                 /\ mem' = [mem EXCEPT ![new] = Zero]
                                 /\ pgdir' = [pgdir EXCEPT ![q][at[q]] = [pa |-> new, w |-> TRUE]]
                                 /\ at' = [at EXCEPT ![q] = at[q] + 1]
                                 /\ UNCHANGED pc
      <4>1. pc' = [pc EXCEPT ![q] = "grow"]
        BY <3>1, <3>2 DEF IInv, MemInv, TypeOK
      <4> QED BY <3>1, <3>2, <4>1
    <3>3. CASE at' = [at EXCEPT ![q] = PgRoundUp(sz[q])] /\ Goto(q, "undo") /\ UNCHANGED <<mem, pgdir>>
      BY <3>1, <3>3 DEF Goto
    <3> QED BY <2>1, <3>2, <3>3 DEF GrowPage
  <2>2. CASE ExecLoad(q)
    <3>1. pc' = [pc EXCEPT ![q] = "e_load"]
      BY <2>2 DEF ExecLoad, At, IInv, MemInv, TypeOK
    <3> QED BY <2>2, <3>1 DEF ExecLoad, At, CanStep
  <2> QED BY <2>1, <2>2
<1>2. CASE p = q
  BY <1>1, <1>2 DEF Remaps, Kept
<1>3. CASE p # q
  <2>1. pgdir'[p] = pgdir[p] /\ (pc'[p] = "fault" <=> pc[p] = "fault") /\ at'[p] = at[p]
    BY <1>1, <1>3 DEF IInv, MemInv, TypeOK
  <2>2. SeenKept(p, v)
    BY <1>1, FreshUnseen DEF SeenKept
  <2> QED BY <1>1, <2>1, <2>2, KeptFrame
<1> QED BY <1>2, <1>3

\* deallocuvm and freevm drop references: a page goes only with the last.
LEMMA DeallocKept ==
  ASSUME IInv, NEW q \in Procs, DeallocPage(q), NEW p \in Procs, NEW v \in Vpns
  PROVE  Kept(p, v)
<1>1. /\ ~panicked /\ pc[q] \in {"undo", "shrink"} /\ UNCHANGED <<got, pc>> /\ at[q] * PGSIZE < DeallocEnd(q)
      /\ at' = [at EXCEPT ![q] = at[q] + 1]
      /\ IF Present(pgdir[q], at[q])
         THEN Kfree(pgdir[q][at[q]].pa) /\ pgdir' = [pgdir EXCEPT ![q][at[q]] = NoPte]
         ELSE UNCHANGED <<mem, pgdir>>
  BY DEF DeallocPage, At, CanStep
<1>2. CASE p = q
  BY <1>1, <1>2 DEF Remaps, Kept
<1>3. CASE p # q
  <2>1. pgdir'[p] = pgdir[p] /\ at'[p] = at[p]
    BY <1>1, <1>3 DEF IInv, MemInv, TypeOK
  <2>2. at[q] \in Vpns
    <3>1. /\ at[q] \in 0 .. UserTop /\ UserTop \in Nat
          /\ DeallocEnd(q) \in Nat /\ PgRoundUp(DeallocEnd(q)) \in 0 .. UserTop
      BY Sizes DEF IInv, MemInv, DeallocEnd
    <3>2. at[q] < PgRoundUp(DeallocEnd(q))
      BY <1>1, <3>1, RoundUp
    <3> QED BY <3>1, <3>2 DEF Vpns
  <2>3. SeenKept(p, v)
    <3>1. CASE ~Present(pgdir[q], at[q])
      BY <1>1, <3>1 DEF SeenKept
    <3>2. CASE Present(pgdir[q], at[q])
      <4>1. PICK x \in AllPages : x = pgdir[q][at[q]].pa /\ Kfree(x)
        BY <1>1, <2>2, <3>2 DEF Present, IInv, MemInv, TypeOK, Pte
      <4>2. x \in Pages /\ ref_cnt[x] = 1 => ~Seen(p, v, x)
        BY <1>1, <1>3, <2>2, <4>1, LastUnseen
      <4> QED BY <4>1, <4>2, KfreeUnseen
    <3> QED BY <3>1, <3>2
  <2> QED BY <1>1, <2>1, <2>3, KeptFrame
<1> QED BY <1>2, <1>3

LEMMA FreeVmKept ==
  ASSUME IInv, NEW q \in Procs, FreeVm(q), NEW p \in Procs, NEW v \in Vpns
  PROVE  Kept(p, v)
<1>1. /\ ~panicked /\ pc[q] \in {"freevm", "w_free"} /\ UNCHANGED <<pc, pgdir, at, got>>
  BY DEF FreeVm, At, CanStep, local
<1>2. SeenKept(p, v)
  <2>1. CASE Mapped(npgdir[q]) # {}
    <3>1. PICK u \in Vpns : Present(npgdir[q], u) /\ Kfree(npgdir[q][u].pa)
      <4>1. Mapped(npgdir[q]) \in SUBSET Vpns
        BY DEF Mapped
      <4>2. Lowest(Mapped(npgdir[q])) \in Mapped(npgdir[q])
        BY <2>1, <4>1, LowestIn
      <4> QED BY <2>1, <4>2 DEF FreeVm, Mapped
    <3>2. PICK x \in AllPages : x = npgdir[q][u].pa /\ Kfree(x)
      BY <3>1 DEF Present, IInv, MemInv, TypeOK, Pte
    <3>3. x \in Pages /\ ref_cnt[x] = 1 => ~Seen(p, v, x)
      <4> SUFFICES ASSUME x \in Pages, ref_cnt[x] = 1, Seen(p, v, x) PROVE FALSE
        OBVIOUS
      <4>1. p = q /\ pgdir[q][u].pa = x
        BY <1>1, <3>2, LastUnseen
      <4>2. UserCount(x) = 1
        BY <1>1, <3>2, MappedPage DEF IInv, MemInv
      <4>3. UserRefs(x) = {}
        BY <3>2, <4>2, Sole
      <4>4. <<q, u>> \in UserRefs(x)
        BY <4>1 DEF UserRefs, TableRefs
      <4> QED BY <4>3, <4>4
    <3> QED BY <3>2, <3>3, KfreeUnseen
  <2>2. CASE Mapped(npgdir[q]) = {}
    <3>1. PICK x \in nptpages[q] : Kfree(x)
      BY <2>2 DEF FreeVm
    <3>2. x \in Pages /\ x \in AllPages /\ x \in HeldBy(q, "nptpages") /\ "nptpages" \in Holders \ {"got"}
      BY DEF IInv, MemInv, TypeOK, AllPages, HeldBy, Holders
    <3>3. ~Seen(p, v, x)
      BY <1>1, <3>2, HeldUnseen
    <3> QED BY <3>1, <3>2, <3>3, KfreeUnseen
  <2> QED BY <2>1, <2>2
<1> QED BY <1>1, <1>2, KeptFrame

\* The slots whose tables change are those of the caller and of a dead process.
LEMMA SwapKept ==
  ASSUME IInv, NEW q \in Procs, ExecCommit(q) \/ FreeVmDone(q) \/ (\E c \in Procs : Wait(q, c)),
         NEW p \in Procs, NEW v \in Vpns
  PROVE  Kept(p, v)
<1>1. CASE ExecCommit(q)
  <2>1. /\ ~panicked /\ pc[q] = "e_load" /\ UNCHANGED <<mem, got>> /\ pgdir' = [pgdir EXCEPT ![q] = npgdir[q]]
        /\ at' = [at EXCEPT ![q] = 0] /\ pc' = [pc EXCEPT ![q] = "freevm"]
    BY <1>1 DEF ExecCommit, At, CanStep, Goto
  <2>2. CASE p = q
    BY <2>1, <2>2 DEF Remaps, Kept
  <2>3. CASE p # q
    <3>1. pgdir'[p] = pgdir[p] /\ pc'[p] = pc[p] /\ at'[p] = at[p]
      BY <2>1, <2>3 DEF IInv, MemInv, TypeOK
    <3> QED BY <2>1, <3>1, QuietKept
  <2> QED BY <2>2, <2>3
<1>2. CASE FreeVmDone(q)
  <2>1. /\ ~panicked /\ pc[q] \in {"freevm", "w_free"} /\ UNCHANGED <<mem, got, pgdir, at>>
        /\ IF pc[q] = "w_free" THEN pc' = [pc EXCEPT ![q] = "user", ![other[q]] = "unused"]
                               ELSE pc' = [pc EXCEPT ![q] = "user"]
    BY <1>2 DEF FreeVmDone, At, CanStep, Return, Goto
  <2>2. pc[q] = "w_free" => other[q] \in Procs /\ pc[other[q]] = "zombie"
    BY <2>1 DEF IInv, SlotInv, SlotOk
  <2>3. pc'[p] = "fault" <=> pc[p] = "fault"
    BY <2>1, <2>2 DEF IInv, MemInv, TypeOK
  <2> QED BY <2>1, <2>3, QuietKept
<1>3. ASSUME NEW c \in Procs, Wait(q, c) PROVE Kept(p, v)
  <2>1. /\ ~panicked /\ pc[q] = "user" /\ pc[c] = "zombie" /\ PtableFree /\ UNCHANGED <<got, at>>
        /\ Kfree(kstack[c]) /\ pgdir' = [pgdir EXCEPT ![c] = EmptyPgdir] /\ pc' = [pc EXCEPT ![q] = "w_free"]
    BY <1>3 DEF Wait, RunsUser, CanStep, Goto
  <2>2. kstack[c] # NoPage
    BY <2>1 DEF IInv, SlotInv, SlotOk, Waited, PtableFree
  <2>3. CASE p = c
    BY <2>1, <2>3 DEF Remaps, Kept
  <2>4. CASE p # c
    <3>1. pgdir'[p] = pgdir[p] /\ (pc'[p] = "fault" <=> pc[p] = "fault")
      BY <2>1, <2>4 DEF IInv, MemInv, TypeOK
    <3>2. SeenKept(p, v)
      BY <2>1, <2>2, KstackUnseen
    <3> QED BY <2>1, <3>1, <3>2, KeptFrame
  <2> QED BY <2>3, <2>4
<1> QED BY <1>1, <1>2, <1>3

LEMMA NextKept ==
  ASSUME IInv, Next, NEW p \in Procs, NEW v \in Vpns
  PROVE  Kept(p, v)
<1>1. ASSUME NEW q \in Procs, NEW u \in Vpns, NEW x \in Stores, UserStore(q, u, x) \/ KernelStore(q, u, x)
      PROVE  Kept(p, v)
  BY <1>1, StoreKept
<1>2. ASSUME NEW q \in Procs, NEW u \in Vpns, PageFaultOwner(q, u) \/ PageFaultCopy(q, u)
      PROVE  Kept(p, v)
  BY <1>2, FaultOwnerKept, FaultCopyKept
<1>3. ASSUME NEW q \in Procs, NEW c \in Procs, Fork(q, c) \/ Wait(q, c) PROVE Kept(p, v)
  BY <1>3, ForkKept, SwapKept
<1>4. ASSUME NEW q \in Procs, NEW n \in SbrkArgs, Sbrk(q, n) PROVE Kept(p, v)
  BY <1>4, CallKept
<1>5. ASSUME NEW q \in Procs,
             \/ PageFaultDone(q) \/ SetupKvm(q)
             \/ ForkKstack(q) \/ ForkMap(q) \/ ForkInc(q) \/ ForkDone(q) \/ ForkFail(q)
      PROVE  Kept(p, v)
  BY <1>5, FaultDoneKept, ForkKept, ForkMapKept, ForkDoneKept, ForkFailKept
<1>6. ASSUME NEW q \in Procs,
             \/ GrowPage(q) \/ DeallocPage(q) \/ GrowprocDone(q)
             \/ Exec(q) \/ ExecLoad(q) \/ ExecBad(q) \/ ExecCommit(q)
             \/ Exit(q) \/ FreeVm(q) \/ FreeVmDone(q)
      PROVE  Kept(p, v)
  BY <1>6, NewPageKept, DeallocKept, CallKept, SwapKept, FreeVmKept
<1>7. ASSUME NEW q \in Procs, PageFaultAgain(q) \/ PageFaultUnmapped(q) PROVE Kept(p, v)
  BY <1>7 DEF PageFaultAgain, PageFaultUnmapped, vars, View, Kept, Present
<1>8. CASE Halted
  BY <1>8 DEF Halted, vars, Kept
<1> QED BY <1>1, <1>2, <1>3, <1>4, <1>5, <1>6, <1>7, <1>8 DEF Next

\* Copy-on-write is invisible, for any number of CPUs: a store that PTE_W
\* permits, fork (cowuvm, vm.c:338), a page fault (pgfltintr, vm.c:401), exit
\* and wait never change what another process reads; nor do its own calls change
\* what a process reads, but for its stores, sbrk and exec.
THEOREM Isolated == Spec => IsolationFromUserStores
<1>1. IInv /\ [Next]_vars => [\A p \in Procs, v \in Vpns :
        \/ View(p, v)' = View(p, v) \/ Remaps(p) \/ OwnStore(p, v) \/ panicked'
        \/ pgdir[p][v].pa = Page0 \/ got[p] = Page0 \/ WriteThrough \/ OomFault]_vars
  BY NextKept DEF Kept
<1> QED BY <1>1, Inductive, PTL DEF Spec, IsolationFromUserStores

-----------------------------------------------------------------------------
(***************************************************************************)
(* fork gives the child the parent's memory.  The slot a process has in    *)
(* other is one it works on: the parent of a child that becomes runnable   *)
(* is the process whose fork makes it so.                                  *)
(***************************************************************************)
OtherInv == \A p \in Procs : other[p] # NoProc => WorksOnSlot(p)

\* A step of q inside a call on a slot, or outside of one, that goes on.
LEMMA OtherLocal ==
  ASSUME TypeOK, OtherInv, NEW q \in Procs, NEW l, pc' = [pc EXCEPT ![q] = l], other' = other,
         WorksOnSlot(q) => l \in Forking \cup {"w_free"}
  PROVE  OtherInv'
BY DEF OtherInv, WorksOnSlot, TypeOK

\* The end of a call on a slot.
LEMMA OtherReturn ==
  ASSUME IInv, ~panicked, OtherInv, NEW q \in Procs, WorksOnSlot(q), NEW l, Return(q, l)
  PROVE  OtherInv'
<1>1. other[q] \in Procs /\ pc[other[q]] \in {"zombie", "embryo"}
  BY SlotWork DEF IInv
<1>2. /\ pc' = [pc EXCEPT ![q] = "user", ![other[q]] = l] /\ other' = [other EXCEPT ![q] = NoProc]
      /\ pc \in [Procs -> Pcs] /\ other \in [Procs -> Procs \cup {NoProc}]
  BY DEF Return, IInv, MemInv, TypeOK
<1>3. ASSUME NEW r \in Procs, other'[r] # NoProc PROVE WorksOnSlot(r)'
  <2>1. r # q /\ other[r] # NoProc /\ WorksOnSlot(r)
    BY <1>2, <1>3 DEF OtherInv
  <2>2. r # other[q]
    BY <1>1, <2>1 DEF WorksOnSlot, Forking
  <2>3. pc'[r] = pc[r]
    BY <1>2, <2>1, <2>2
  <2> QED BY <2>1, <2>3 DEF WorksOnSlot
<1> QED BY <1>3 DEF OtherInv

LEMMA OtherStep == IInv /\ OtherInv /\ [Next]_vars => OtherInv'
<1> SUFFICES ASSUME IInv, OtherInv, [Next]_vars PROVE OtherInv'
  OBVIOUS
<1>0. TypeOK
  BY DEF IInv, MemInv
<1>1. CASE UNCHANGED <<pc, other>>
  BY <1>1 DEF OtherInv, WorksOnSlot
<1>2. ASSUME NEW q \in Procs, NEW u \in Vpns, NEW x \in Stores,
             UserStore(q, u, x) \/ KernelStore(q, u, x)
      PROVE  OtherInv'
  BY <1>1, <1>2 DEF UserStore, KernelStore, Store, local
<1>3. ASSUME NEW q \in Procs, NEW u \in Vpns, PageFaultOwner(q, u) \/ PageFaultCopy(q, u) PROVE OtherInv'
  <2>1. CASE PageFaultOwner(q, u)
    BY <1>1, <2>1 DEF PageFaultOwner, local
  <2>2. CASE PageFaultCopy(q, u)
    <3>1. pc[q] = "user" /\ pc' = [pc EXCEPT ![q] = "fault"] /\ other' = other
      BY <2>2 DEF PageFaultCopy, Faults, RunsUser, Goto
    <3> QED BY <1>0, <3>1, OtherLocal DEF WorksOnSlot, Forking
  <2> QED BY <1>3, <2>1, <2>2
<1>4. ASSUME NEW q \in Procs, NEW n \in SbrkArgs, Sbrk(q, n) PROVE OtherInv'
  <2>1. pc[q] = "user" /\ other' = other /\ \E l \in Pcs : pc' = [pc EXCEPT ![q] = l]
    BY <1>4 DEF Sbrk, RunsUser, Goto, Pcs
  <2> QED BY <1>0, <2>1, OtherLocal DEF WorksOnSlot, Forking
<1>5. ASSUME NEW q \in Procs,
             \/ PageFaultDone(q) \/ GrowPage(q) \/ DeallocPage(q) \/ GrowprocDone(q)
             \/ Exec(q) \/ ExecLoad(q) \/ ExecBad(q) \/ ExecCommit(q) \/ Exit(q)
      PROVE  OtherInv'
  <2>1. /\ pc[q] \in {"user", "fault", "grow", "undo", "shrink", "e_load"} /\ other' = other
        /\ pc' = pc \/ \E l \in Pcs : pc' = [pc EXCEPT ![q] = l]
    BY <1>5 DEF PageFaultDone, GrowPage, DeallocPage, GrowprocDone, Exec, ExecLoad, ExecBad, ExecCommit,
       Exit, RunsUser, At, Goto, local, Pcs
  <2>2. ~WorksOnSlot(q)
    BY <2>1 DEF WorksOnSlot, Forking
  <2> QED BY <1>0, <1>1, <2>1, <2>2, OtherLocal
<1>6. ASSUME NEW q \in Procs, SetupKvm(q) PROVE OtherInv'
  <2>1. /\ pc[q] \in {"f_kvm", "e_kvm"} /\ other' = other
        /\ \E l \in Pcs : /\ pc' = [pc EXCEPT ![q] = l]
                          /\ pc[q] = "f_kvm" => l \in {"f_kvm", "f_map", "f_fail"}
    BY <1>6 DEF SetupKvm, At, Goto, local, Pcs
  <2>2. \E l : /\ pc' = [pc EXCEPT ![q] = l]
               /\ WorksOnSlot(q) => l \in Forking \cup {"w_free"}
    BY <2>1 DEF WorksOnSlot, Forking
  <2> QED BY <1>0, <2>1, <2>2, OtherLocal
<1>7. ASSUME NEW q \in Procs, ForkMap(q) \/ ForkInc(q) PROVE OtherInv'
  <2>1. other' = other /\ (pc' = pc \/ \E l \in {"f_inc", "f_map"} : pc' = [pc EXCEPT ![q] = l])
    BY <1>7 DEF ForkMap, ForkInc, Goto, local
  <2>2. \A l \in {"f_inc", "f_map"} : l \in Forking \cup {"w_free"}
    BY DEF Forking
  <2> QED BY <1>0, <1>1, <2>1, <2>2, OtherLocal
<1>8. ASSUME NEW q \in Procs, NEW c \in Procs, Fork(q, c) \/ Wait(q, c) PROVE OtherInv'
  <2>1. /\ pc[q] = "user" /\ pc[c] \in {"unused", "zombie"} /\ other' = [other EXCEPT ![q] = c]
        /\ \/ pc' = [pc EXCEPT ![q] = "f_kstack", ![c] = "embryo"]
           \/ pc' = [pc EXCEPT ![q] = "w_free"]
    BY <1>8 DEF Fork, Wait, RunsUser, Goto
  <2>2. ASSUME NEW r \in Procs, other'[r] # NoProc PROVE WorksOnSlot(r)'
    <3>1. CASE r = q
      <4>1. pc'[r] \in {"f_kstack", "w_free"}
        BY <1>0, <2>1, <3>1 DEF TypeOK
      <4> QED BY <4>1 DEF WorksOnSlot, Forking
    <3>2. CASE r # q
      <4>1. WorksOnSlot(r)
        BY <1>0, <2>1, <2>2, <3>2 DEF TypeOK, OtherInv
      <4>2. r # c
        BY <2>1, <4>1 DEF WorksOnSlot, Forking
      <4>3. pc'[r] = pc[r]
        BY <1>0, <2>1, <3>2, <4>2 DEF TypeOK
      <4> QED BY <4>1, <4>3 DEF WorksOnSlot
    <3> QED BY <3>1, <3>2
  <2> QED BY <2>2 DEF OtherInv
<1>9. ASSUME NEW q \in Procs, ForkKstack(q) PROVE OtherInv'
  <2>1. /\ ~panicked /\ pc[q] = "f_kstack" /\ WorksOnSlot(q) /\ "f_kvm" \in Forking
        /\ (pc' = [pc EXCEPT ![q] = "f_kvm"] /\ other' = other) \/ Return(q, "unused")
    BY <1>9 DEF ForkKstack, At, CanStep, Goto, WorksOnSlot, Forking
  <2> QED BY <1>0, <2>1, OtherLocal, OtherReturn
<1>10. ASSUME NEW q \in Procs, ForkDone(q) \/ ForkFail(q) PROVE OtherInv'
  <2>1. ~panicked /\ WorksOnSlot(q) /\ (Return(q, "user") \/ Return(q, "unused"))
    BY <1>10 DEF ForkDone, ForkFail, At, CanStep, WorksOnSlot, Forking
  <2> QED BY <2>1, OtherReturn
<1>11. ASSUME NEW q \in Procs, FreeVm(q) \/ FreeVmDone(q) PROVE OtherInv'
  <2>1. \/ UNCHANGED <<pc, other>>
        \/ ~panicked /\ WorksOnSlot(q) /\ Return(q, "unused")
        \/ pc[q] = "freevm" /\ pc' = [pc EXCEPT ![q] = "user"] /\ other' = other
    BY <1>11 DEF FreeVm, FreeVmDone, At, CanStep, Goto, WorksOnSlot, local
  <2>2. pc[q] = "freevm" => ~WorksOnSlot(q)
    BY DEF WorksOnSlot, Forking
  <2> QED BY <1>0, <1>1, <2>1, <2>2, OtherLocal, OtherReturn
<1>12. CASE UNCHANGED vars
  BY <1>1, <1>12 DEF vars
<1>13. ASSUME NEW q \in Procs, PageFaultAgain(q) \/ PageFaultUnmapped(q) PROVE OtherInv'
  BY <1>1, <1>12, <1>13 DEF PageFaultAgain, PageFaultUnmapped, local
<1>14. CASE Halted
  BY <1>12, <1>14 DEF Halted
<1> QED BY <1>2, <1>3, <1>4, <1>5, <1>6, <1>7, <1>8, <1>9, <1>10, <1>11, <1>12, <1>13, <1>14 DEF Next

LEMMA ForkDoneCopies ==
  ASSUME IInv, NEW p \in Procs, NEW c \in Procs, c = other[p], ForkDone(p)
  PROVE  sz'[c] = sz[p] /\ \A v \in Vpns : View(c, v)' = View(p, v)
<1>1. /\ ~panicked /\ pc[p] = "f_map" /\ ~CowMore(p) /\ UNCHANGED mem
      /\ pgdir' = [pgdir EXCEPT ![other[p]] = npgdir[p]] /\ sz' = [sz EXCEPT ![other[p]] = sz[p]]
      /\ pc' = [pc EXCEPT ![p] = "user", ![other[p]] = "user"]
  BY DEF ForkDone, At, CanStep, Return
<1>2. SlotOk(p) /\ SizeInv(p) /\ TypeOK
  BY <1>1 DEF IInv, MemInv, SlotInv
<1>3. pgdir'[c] = npgdir[p] /\ sz'[c] = sz[p] /\ pc'[c] = "user"
  BY <1>1, <1>2 DEF TypeOK
<1>4. ASSUME NEW v \in Vpns PROVE npgdir[p][v].pa = pgdir[p][v].pa
  <2>1. /\ sz[p] \in Nat /\ at[p] \in Nat /\ PgRoundUp(sz[p]) \in 0 .. UserTop
    BY <1>2, Sizes
  <2>2. ~ at[p] < PgRoundUp(sz[p])
    BY <1>1, <2>1, RoundUp DEF CowMore
  <2>3. npgdir[p][v].pa = IF v < at[p] THEN pgdir[p][v].pa ELSE NoPage
    BY <1>1, <1>2 DEF SizeInv
  <2>4. Sized(pgdir[p], sz[p])
    BY <1>1, <1>2 DEF SizeInv, Forking
  <2>5. v \in Nat
    BY ConstantAssumptions DEF Vpns
  <2>6. Present(pgdir[p], v) => v \in 0 .. PgRoundUp(sz[p]) - 1
    BY <2>4 DEF Sized, Mapped
  <2>7. Present(pgdir[p], v) => v < at[p]
    BY <2>1, <2>2, <2>5, <2>6
  <2> QED BY <2>3, <2>7 DEF Present
<1>5. \A v \in Vpns : View(c, v)' = View(p, v)
  BY <1>1, <1>3, <1>4 DEF View, Present
<1> QED BY <1>3, <1>5

\* Only the end of a fork makes a child runnable.
LEMMA ChildRuns ==
  ASSUME IInv, [Next]_vars, NEW c \in Procs, pc[c] = "embryo", pc'[c] = "user"
  PROVE  \E q \in Procs : ForkDone(q) /\ other[q] = c
<1>0. pc \in [Procs -> Pcs] /\ other \in [Procs -> Procs \cup {NoProc}]
  BY DEF IInv, MemInv, TypeOK
<1>1. pc' # pc
  OBVIOUS
<1>2. ASSUME NEW q \in Procs, NEW l, pc' = [pc EXCEPT ![q] = l], pc[q] # "embryo" PROVE FALSE
  BY <1>0, <1>2
<1>3. ASSUME NEW q \in Procs, Return(q, "unused"), pc[q] # "embryo" PROVE FALSE
  BY <1>0, <1>3 DEF Return
<1>4. ASSUME NEW q \in Procs, NEW u \in Vpns, NEW x \in Stores, UserStore(q, u, x) \/ KernelStore(q, u, x)
      PROVE  FALSE
  BY <1>1, <1>4 DEF UserStore, KernelStore, Store
<1>5. ASSUME NEW q \in Procs, NEW u \in Vpns, PageFaultOwner(q, u) \/ PageFaultCopy(q, u)
      PROVE  FALSE
  BY <1>1, <1>2, <1>5 DEF PageFaultOwner, PageFaultCopy, Faults, RunsUser, Goto
<1>6. ASSUME NEW q \in Procs, NEW d \in Procs, Fork(q, d) \/ Wait(q, d) PROVE FALSE
  <2>1. pc[q] = "user" /\ (pc' = [pc EXCEPT ![q] = "f_kstack", ![d] = "embryo"] \/ pc' = [pc EXCEPT ![q] = "w_free"])
    BY <1>6 DEF Fork, Wait, RunsUser, Goto
  <2> QED BY <1>0, <2>1
<1>7. ASSUME NEW q \in Procs, NEW n \in SbrkArgs, Sbrk(q, n) PROVE FALSE
  BY <1>2, <1>7 DEF Sbrk, RunsUser, Goto
<1>8. ASSUME NEW q \in Procs,
             \/ PageFaultDone(q) \/ SetupKvm(q) \/ ForkKstack(q) \/ ForkMap(q) \/ ForkInc(q) \/ ForkFail(q)
      PROVE  FALSE
  BY <1>1, <1>2, <1>3, <1>8 DEF PageFaultDone, SetupKvm, ForkKstack, ForkMap, ForkInc, ForkFail, At, Goto
<1>9. ASSUME NEW q \in Procs,
             \/ GrowPage(q) \/ DeallocPage(q) \/ GrowprocDone(q)
             \/ Exec(q) \/ ExecLoad(q) \/ ExecBad(q) \/ ExecCommit(q)
      PROVE  FALSE
  BY <1>1, <1>2, <1>9 DEF GrowPage, DeallocPage, GrowprocDone, Exec, ExecLoad, ExecBad, ExecCommit,
     RunsUser, At, Goto
<1>10. ASSUME NEW q \in Procs, Exit(q) \/ FreeVm(q) \/ FreeVmDone(q) PROVE FALSE
  BY <1>1, <1>2, <1>3, <1>10 DEF Exit, FreeVm, FreeVmDone, At, Goto
<1>11. ASSUME NEW q \in Procs, ForkDone(q) PROVE other[q] = c
  <2>1. pc[q] = "f_map" /\ pc' = [pc EXCEPT ![q] = "user", ![other[q]] = "user"]
    BY <1>11 DEF ForkDone, At, Return
  <2> QED BY <1>0, <2>1
<1>12. ASSUME NEW q \in Procs, PageFaultAgain(q) \/ PageFaultUnmapped(q) PROVE FALSE
  BY <1>1, <1>12 DEF PageFaultAgain, PageFaultUnmapped, vars
<1>13. ~Halted /\ ~UNCHANGED vars
  BY <1>1 DEF Halted, vars
<1> QED BY <1>4, <1>5, <1>6, <1>7, <1>8, <1>9, <1>10, <1>11, <1>12, <1>13 DEF Next

\* fork (proc.c:124) copies: the child starts with the size of its parent and
\* reads, page by page, what the parent reads at that moment, for any number of
\* CPUs and whatever else happened while cowuvm was at work.
THEOREM Copied == Spec => ForkCopies
<1>1. IInv /\ OtherInv /\ [Next]_vars =>
        [\A p, c \in Procs : pc[c] = "embryo" /\ other[p] = c /\ pc'[c] = "user" =>
           sz'[c] = sz[p] /\ \A v \in Vpns : View(c, v)' = View(p, v)]_vars
  <2> SUFFICES ASSUME IInv, OtherInv, [Next]_vars, NEW p \in Procs, NEW c \in Procs,
                      pc[c] = "embryo", other[p] = c, pc'[c] = "user"
               PROVE  sz'[c] = sz[p] /\ \A v \in Vpns : View(c, v)' = View(p, v)
    OBVIOUS
  <2>1. PICK q \in Procs : ForkDone(q) /\ other[q] = c
    BY ChildRuns
  <2>2. ~panicked /\ WorksOnSlot(q)
    BY <2>1 DEF ForkDone, At, CanStep, WorksOnSlot, Forking
  <2>3. WorksOnSlot(p)
    BY ConstantAssumptions DEF OtherInv
  <2>4. p = q
    BY <2>1, <2>2, <2>3 DEF IInv, SlotInv
  <2> QED BY <2>1, <2>4, ForkDoneCopies
<1>2. Init => OtherInv
  BY DEF Init, OtherInv
<1>3. Spec => []OtherInv
  BY <1>2, OtherStep, Inductive, PTL DEF Spec
<1> QED BY <1>1, <1>3, Inductive, PTL DEF Spec, ForkCopies
=============================================================================
