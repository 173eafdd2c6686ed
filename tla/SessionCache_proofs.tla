------------------------- MODULE SessionCache_proofs -------------------------
(***************************************************************************)
(* Proofs about SessionCache: for any number of connections, sessions and  *)
(* ids, reference counts are exact, the table and the list agree, and a    *)
(* ticket is redeemed once.                                                *)
(***************************************************************************)
EXTENDS SessionCache, FiniteSetTheorems, TLAPS

(***************************************************************************)
(* The list.                                                               *)
(***************************************************************************)
Injective(l) == \A i, j \in 1..Len(l) : l[i] = l[j] => i = j

Members(l) == {l[i] : i \in 1..Len(l)}

\* The places of a list.
LEMMA IntervalFinite ==
  ASSUME NEW S, NEW l \in Seq(S)
  PROVE  Len(l) \in Nat /\ IsFiniteSet(1..Len(l)) /\ Cardinality(1..Len(l)) = Len(l)
<1>1. Len(l) \in Nat /\ Len(l) \in Int /\ 1 \in Int
  OBVIOUS
<1>2. IsFiniteSet(1..Len(l)) /\ Cardinality(1..Len(l)) = IF 1 > Len(l) THEN 0 ELSE Len(l) - 1 + 1
  BY <1>1, FS_Interval
<1> QED BY <1>1, <1>2

\* A list without some of its sessions has the others, each once.
LEMMA WithoutMembers ==
  ASSUME NEW l \in Seq(Objects), Injective(l), NEW S
  PROVE  /\ Without(l, S) \in Seq(Objects) /\ Injective(Without(l, S))
         /\ Members(Without(l, S)) = Members(l) \ S
         /\ Len(Without(l, S)) <= Len(l)
         /\ Members(l) \cap S # {} => Len(Without(l, S)) < Len(l)
<1> DEFINE kept == {i \in 1..Len(l) : l[i] \notin S}
           n == Cardinality(kept)
           upto(i) == {m \in kept : m <= i}
           rank == [i \in kept |-> Cardinality(upto(i))]
           Place(j) == CHOOSE i \in kept : Cardinality({m \in kept : m <= i}) = j
           w == [j \in 1..n |-> l[Place(j)]]
<1>0. w = Without(l, S)
  BY DEF Without
<1>1. Len(l) \in Nat /\ IsFiniteSet(1..Len(l)) /\ Cardinality(1..Len(l)) = Len(l)
  BY IntervalFinite
<1>2. /\ IsFiniteSet(kept) /\ n \in Nat /\ n <= Len(l)
      /\ kept # 1..Len(l) => n < Len(l)
  <2>1. kept \in SUBSET (1..Len(l))
    OBVIOUS
  <2> HIDE DEF kept
  <2>2. /\ IsFiniteSet(kept) /\ n <= Len(l)
        /\ Len(l) = n => 1..Len(l) = kept
    BY <1>1, <2>1, FS_Subset
  <2>3. n \in Nat
    BY <2>2, FS_CardinalityType
  <2> QED BY <1>1, <2>2, <2>3
<1>3. ASSUME NEW i \in kept
      PROVE  IsFiniteSet(upto(i)) /\ Cardinality(upto(i)) \in 1..n
  <2>1. IsFiniteSet(upto(i)) /\ Cardinality(upto(i)) \in Nat /\ Cardinality(upto(i)) <= n
    BY <1>2, FS_Subset, FS_CardinalityType
  <2>2. i \in upto(i)
    OBVIOUS
  <2>3. Cardinality(upto(i)) # 0
    BY <2>1, <2>2, FS_EmptySet
  <2> QED BY <1>2, <2>1, <2>3
<1>4. ASSUME NEW i \in kept, NEW j \in kept, i < j
      PROVE  Cardinality(upto(i)) < Cardinality(upto(j))
  <2>1. upto(i) \subseteq upto(j) /\ j \in upto(j) /\ j \notin upto(i)
    BY <1>4
  <2>2. /\ IsFiniteSet(upto(j)) /\ Cardinality(upto(j)) \in 1..n /\ Cardinality(upto(i)) \in 1..n
    BY <1>3
  <2> HIDE DEF upto
  <2>3. /\ Cardinality(upto(i)) <= Cardinality(upto(j))
        /\ Cardinality(upto(j)) = Cardinality(upto(i)) => upto(j) = upto(i)
    BY <2>1, <2>2, FS_Subset
  <2> QED BY <1>2, <2>1, <2>2, <2>3
<1>5. rank \in Injection(kept, 1..n)
  <2>1. rank \in [kept -> 1..n]
    BY <1>3
  <2>2. ASSUME NEW i \in kept, NEW j \in kept, rank[i] = rank[j]
        PROVE  i = j
    <3>1. i \in Int /\ j \in Int /\ rank[i] \in 1..n /\ rank[j] \in 1..n
      BY <1>3
    <3>2. i < j => rank[i] < rank[j]
      BY <1>4
    <3>3. j < i => rank[j] < rank[i]
      BY <1>4
    <3> HIDE DEF rank
    <3> QED BY <1>2, <2>2, <3>1, <3>2, <3>3
  <2> HIDE DEF rank
  <2> QED BY <2>1, <2>2, Zenon DEF Injection, IsInjective
<1>6. rank \in Surjection(kept, 1..n)
  BY <1>2, <1>5, FS_Injection, FS_Interval
<1>7. ASSUME NEW j \in 1..n
      PROVE  Place(j) \in kept /\ rank[Place(j)] = j
  <2>1. \E i \in kept : rank[i] = j
    BY <1>6 DEF Surjection
  <2> QED BY <2>1
<1>8. ASSUME NEW i \in kept
      PROVE  rank[i] \in 1..n /\ Place(rank[i]) = i
  <2>1. rank[i] \in 1..n
    BY <1>3
  <2>2. Place(rank[i]) \in kept /\ rank[Place(rank[i])] = rank[i]
    BY <1>7, <2>1
  <2> HIDE DEF rank, Place
  <2> QED BY <1>5, <2>1, <2>2 DEF Injection, IsInjective
<1> HIDE DEF rank, Place
<1>9. ASSUME NEW j \in 1..n
      PROVE  w[j] = l[Place(j)] /\ w[j] \in Objects /\ w[j] \in Members(l) \ S
  BY <1>7 DEF Members
<1>10. w \in Seq(Objects) /\ Len(w) = n
  BY <1>2, <1>9
<1>11. Injective(w)
  <2>1. ASSUME NEW i \in 1..n, NEW j \in 1..n, w[i] = w[j]
        PROVE  i = j
    <3>1. Place(i) \in 1..Len(l) /\ Place(j) \in 1..Len(l) /\ l[Place(i)] = l[Place(j)]
      BY <1>7, <1>9, <2>1
    <3>2. Place(i) = Place(j)
      BY <3>1 DEF Injective
    <3> QED BY <1>7, <3>2
  <2> QED BY <1>10, <2>1 DEF Injective
<1>12. Members(w) = Members(l) \ S
  <2>1. ASSUME NEW y \in Members(l) \ S
        PROVE  y \in Members(w)
    <3>1. PICK i \in 1..Len(l) : y = l[i]
      BY DEF Members
    <3>2. i \in kept
      BY <3>1
    <3>3. rank[i] \in 1..n /\ w[rank[i]] = y
      BY <1>8, <1>9, <3>1, <3>2
    <3> QED BY <1>10, <3>3 DEF Members
  <2>2. Members(w) \subseteq Members(l) \ S
    BY <1>9, <1>10 DEF Members
  <2> QED BY <2>1, <2>2
<1>13. Members(l) \cap S # {} => kept # 1..Len(l)
  BY DEF Members
<1> QED BY <1>0, <1>2, <1>10, <1>11, <1>12, <1>13

\* A session put at the head of a list it is not in.
LEMMA HeadMembers ==
  ASSUME NEW l \in Seq(Objects), Injective(l), NEW x \in Objects, x \notin Members(l)
  PROVE  /\ <<x>> \o l \in Seq(Objects) /\ Injective(<<x>> \o l)
         /\ Members(<<x>> \o l) = Members(l) \cup {x}
         /\ Len(<<x>> \o l) = Len(l) + 1
<1> DEFINE w == <<x>> \o l
<1>1. w \in Seq(Objects) /\ Len(w) = Len(l) + 1 /\ Len(l) \in Nat
  OBVIOUS
<1>2. w[1] = x /\ \A i \in 1..Len(l) : w[i + 1] = l[i]
  OBVIOUS
<1>3. \A i \in 2..Len(w) : w[i] = l[i - 1] /\ i - 1 \in 1..Len(l)
  BY <1>1
<1> HIDE DEF w
<1>4. Injective(w)
  <2> SUFFICES ASSUME NEW i \in 1..Len(w), NEW j \in 1..Len(w), w[i] = w[j]
               PROVE  i = j
    BY DEF Injective
  <2>1. \A m \in 2..Len(w) : w[m] # x
    BY <1>3 DEF Members
  <2>2. i = 1 <=> j = 1
    BY <1>1, <1>2, <2>1
  <2>3. CASE i # 1 /\ j # 1
    <3>1. i \in 2..Len(w) /\ j \in 2..Len(w)
      BY <1>1, <2>3
    <3>2. i - 1 = j - 1
      BY <1>3, <3>1 DEF Injective
    <3> QED BY <3>1, <3>2
  <2> QED BY <2>2, <2>3
<1>5. Members(w) = Members(l) \cup {x}
  <2>1. \A i \in 1..Len(l) : l[i] \in Members(w)
    BY <1>1, <1>2 DEF Members
  <2>2. x \in Members(w)
    BY <1>1, <1>2 DEF Members
  <2>3. \A i \in 1..Len(w) : w[i] \in Members(l) \cup {x}
    <3> TAKE i \in 1..Len(w)
    <3>1. i = 1 \/ i \in 2..Len(w)
      BY <1>1
    <3> QED BY <1>2, <1>3, <3>1 DEF Members
  <2> QED BY <2>1, <2>2, <2>3 DEF Members
<1> QED BY <1>1, <1>4, <1>5 DEF w

\* The length of a list without repetitions.
LEMMA InjectiveLength ==
  ASSUME NEW l \in Seq(Objects), Injective(l)
  PROVE  IsFiniteSet(Members(l)) /\ Cardinality(Members(l)) = Len(l)
<1>1. l \in [1..Len(l) -> Members(l)] /\ Len(l) \in Nat
  BY DEF Members
<1>2. l \in Surjection(1..Len(l), Members(l)) /\ l \in Injection(1..Len(l), Members(l))
  BY <1>1, Zenon DEF Members, Injective, Injection, Surjection, IsInjective
<1>3. IsFiniteSet(1..Len(l)) /\ Cardinality(1..Len(l)) = Len(l)
  BY IntervalFinite
<1> QED BY <1>2, <1>3, FS_Surjection

-----------------------------------------------------------------------------
(***************************************************************************)
(* The references.                                                         *)
(***************************************************************************)
One(b) == IF b THEN 1 ELSE 0

\* How many references the connection k has to x, and whether it has any.
Count(k, x) ==
  One(Reference(k, "session") = x) + One(Reference(k, "r") = x)
    + One(Reference(k, "ret") = x) + One(Reference(k, "added") = x)

Holds(k, x) == \E p \in References : Reference(k, p) = x

\* The references to x of the connections cn, and of all of them but c.
Held(cn, x) == {h \in Conns \X References : Reference(cn[h[1]], h[2]) = x}
Others(cn, c, x) == {h \in (Conns \ {c}) \X References : Reference(cn[h[1]], h[2]) = x}

\* A set with or without one more.
LEMMA AddIf ==
  ASSUME NEW S, IsFiniteSet(S), NEW h, h \notin S, NEW b \in BOOLEAN
  PROVE  /\ IsFiniteSet(IF b THEN S \cup {h} ELSE S)
         /\ Cardinality(IF b THEN S \cup {h} ELSE S) = Cardinality(S) + One(b)
<1>1. Cardinality(S) \in Nat
  BY FS_CardinalityType
<1>2. IsFiniteSet(S \cup {h}) /\ Cardinality(S \cup {h}) = Cardinality(S) + 1
  BY FS_AddElement
<1> QED BY <1>1, <1>2 DEF One

\* There are four kinds of references.
LEMMA ReferencesFinite == IsFiniteSet(References)
<1>1. IsFiniteSet({"session"})
  BY FS_Singleton
<1>2. IsFiniteSet({"session"} \cup {"ret"})
  BY <1>1, FS_AddElement
<1>3. IsFiniteSet({"session"} \cup {"ret"} \cup {"r"})
  BY <1>2, FS_AddElement
<1>4. IsFiniteSet({"session"} \cup {"ret"} \cup {"r"} \cup {"added"})
  BY <1>3, FS_AddElement
<1>5. References = {"session"} \cup {"ret"} \cup {"r"} \cup {"added"}
  BY DEF References
<1> QED BY <1>4, <1>5

\* There are finitely many references to a session.
LEMMA HeldFinite ==
  ASSUME NEW cn, NEW x
  PROVE  Cardinality(Held(cn, x)) \in Nat
<1>1. IsFiniteSet(Conns \X References)
  BY CacheAssumption, ReferencesFinite, FS_Product
<1>2. Held(cn, x) \in SUBSET (Conns \X References)
  BY DEF Held
<1> QED BY <1>1, <1>2, FS_Subset, FS_CardinalityType

\* The references to x are those of one connection and those of the others.
LEMMA HeldSplit ==
  ASSUME NEW cn, NEW c \in Conns, NEW x
  PROVE  /\ IsFiniteSet(Others(cn, c, x)) /\ Cardinality(Others(cn, c, x)) \in Nat
         /\ Cardinality(Held(cn, x)) = Cardinality(Others(cn, c, x)) + Count(cn[c], x)
<1> DEFINE A == Others(cn, c, x)
           b(p) == Reference(cn[c], p) = x
           A1 == IF b("session") THEN A \cup {<<c, "session">>} ELSE A
           A2 == IF b("r") THEN A1 \cup {<<c, "r">>} ELSE A1
           A3 == IF b("ret") THEN A2 \cup {<<c, "ret">>} ELSE A2
           A4 == IF b("added") THEN A3 \cup {<<c, "added">>} ELSE A3
<1>1. IsFiniteSet(References)
  BY ReferencesFinite
<1>2. IsFiniteSet(A)
  <2>1. IsFiniteSet(Conns \ {c})
    BY CacheAssumption, FS_RemoveElement
  <2>2. IsFiniteSet((Conns \ {c}) \X References)
    BY <1>1, <2>1, FS_Product
  <2>3. A \in SUBSET ((Conns \ {c}) \X References)
    BY DEF Others
  <2> HIDE DEF A
  <2> QED BY <2>2, <2>3, FS_Subset
<1>3. \A h \in A : h[1] # c
  BY DEF Others
<1>4. Held(cn, x) = A4
  <2>1. \A h \in Held(cn, x) : h \in A4
    BY DEF Held, Others, References
  <2>2. \A h \in A4 : h \in Held(cn, x)
    BY DEF Held, Others, References
  <2> QED BY <2>1, <2>2
<1> HIDE DEF A
<1>5. IsFiniteSet(A1) /\ Cardinality(A1) = Cardinality(A) + One(b("session"))
  <2>1. <<c, "session">> \notin A
    BY <1>3
  <2>2. b("session") \in BOOLEAN
    OBVIOUS
  <2> HIDE DEF b
  <2> QED BY <1>2, <2>1, <2>2, AddIf
<1>6. IsFiniteSet(A2) /\ Cardinality(A2) = Cardinality(A1) + One(b("r"))
  <2>1. <<c, "r">> \notin A1
    BY <1>3
  <2> HIDE DEF A1
  <2> QED BY <1>5, <2>1, AddIf
<1>7. IsFiniteSet(A3) /\ Cardinality(A3) = Cardinality(A2) + One(b("ret"))
  <2>1. <<c, "ret">> \notin A2
    BY <1>3
  <2> HIDE DEF A2
  <2> QED BY <1>6, <2>1, AddIf
<1>8. IsFiniteSet(A4) /\ Cardinality(A4) = Cardinality(A3) + One(b("added"))
  <2>1. <<c, "added">> \notin A3
    BY <1>3
  <2> HIDE DEF A3
  <2> QED BY <1>7, <2>1, AddIf
<1>9. Cardinality(A) \in Nat
  BY <1>2, FS_CardinalityType
<1> HIDE DEF A1, A2, A3, A4
<1>10. Cardinality(Held(cn, x)) = Cardinality(A) + Count(cn[c], x)
  BY <1>4, <1>5, <1>6, <1>7, <1>8, <1>9 DEF Count, One
<1> QED BY <1>2, <1>9, <1>10 DEF A

\* A count is the number of the fields, and zero for what is not held.
LEMMA CountHolds ==
  ASSUME NEW k, NEW x
  PROVE  Count(k, x) \in Nat /\ (Holds(k, x) <=> Count(k, x) > 0)
BY DEF Count, One, Holds, References

\* A step of one connection.
LEMMA HoldersStep ==
  ASSUME NEW c \in Conns, NEW k, NEW x, conn \in [Conns -> Connection],
         conn' = [conn EXCEPT ![c] = k]
  PROVE  Cardinality(Holders(x))' = Cardinality(Holders(x)) + Count(k, x) - Count(conn[c], x)
<1>1. conn'[c] = k /\ \A d \in Conns \ {c} : conn'[d] = conn[d]
  OBVIOUS
<1>2. Others(conn', c, x) = Others(conn, c, x)
  BY <1>1 DEF Others
<1>3. /\ Cardinality(Others(conn, c, x)) \in Nat
      /\ Cardinality(Held(conn, x)) = Cardinality(Others(conn, c, x)) + Count(conn[c], x)
      /\ Cardinality(Held(conn', x)) = Cardinality(Others(conn', c, x)) + Count(conn'[c], x)
  BY HeldSplit
<1>4. Holders(x) = Held(conn, x) /\ Holders(x)' = Held(conn', x)
  BY DEF Holders, Held
<1>5. Cardinality(Holders(x))' = Cardinality(Held(conn', x))
  BY <1>4
<1>6. Count(k, x) \in Nat /\ Count(conn[c], x) \in Nat
  BY CountHolds
<1> QED BY <1>1, <1>2, <1>3, <1>4, <1>5, <1>6

-----------------------------------------------------------------------------
(***************************************************************************)
(* The inductive invariant.                                                *)
(***************************************************************************)
\* The sessions a connection has, according to where it is.
ShapeOK(k) ==
  /\ k.pc = "closed" => k = Closed
  /\ k.pc \in {"asking", "full"} => k.session = None /\ k.ret = None
  /\ k.pc = "found" => k.session = None /\ k.ret # None
  /\ k.pc = "adding" => /\ k.ret # None
                        /\ \/ k.then = "found" /\ k.session = None
                           \/ k.then = "open" /\ k.session = k.ret
  /\ k.pc = "removing" => \/ k.then \in {"resumed", "missed"} /\ k.session = None /\ k.ret # None
                          \/ k.then = "close" /\ k.session # None /\ k.ret = None
  /\ k.pc \in {"hello", "finish", "storing", "open"} => k.session # None /\ k.ret = None
  /\ k.pc # "removing" => k.r = None
  /\ k.session = None => k.hit = FALSE /\ k.sent_tickets = 0
  /\ k.pc = "finish" => conf.version = "TLSv1.2"
  /\ conf.version = "TLSv1.2" => k.sent_tickets = 0
  /\ k.pc = "storing" \/ (k.pc = "adding" /\ k.then = "open") =>
       conf.version = "TLSv1.2" \/ k.sent_tickets # 0

\* The session of a connection that has not been in the cache yet.
Own(k) ==
  IF k.pc = "adding" THEN k.ret
  ELSE IF /\ k.hit = FALSE /\ k.sent_tickets = 0
          /\ k.pc \in {"hello", "finish"} \/ (k.pc = "open" /\ conf.version = "TLSv1.3")
       THEN k.session ELSE None

\* Nobody else has it, and it can be resumed.
OwnOK(c) ==
  Own(conn[c]) # None =>
    /\ Own(conn[c]) \notin Cached(sessions)
    /\ \A d \in Conns \ {c} : ~Holds(conn[d], Own(conn[c]))
    /\ conf.version = "TLSv1.2" => sess[Own(conn[c])].not_resumable = FALSE

\* A session that is being added has an id; one that was asked for has that id, or none
\* any more; and in TLSv1.3 one that is taken is no longer in the cache.
IdsOK(c) ==
  LET k == conn[c]
  IN /\ k.pc = "adding" => sess[k.ret].session_id # None
     /\ k.pc = "found" \/ (k.pc = "adding" /\ k.then = "found") =>
          sess[k.ret].session_id \in {k.asked, None} /\ k.asked \in issued
     /\ conf.version = "TLSv1.3" /\ k.pc = "hello" => k.session \notin Cached(sessions)
     /\ conf.version = "TLSv1.3" /\ k.pc = "removing" /\ k.then = "resumed" =>
          k.ret \notin Cached(sessions)
     /\ k.pc = "asking" => k.asked \in issued

ConnOK(c) == ShapeOK(conn[c]) /\ OwnOK(c) /\ IdsOK(c)

\* A session in the table is there under its id; those of TLSv1.2 can be resumed.
TableOK ==
  /\ \A id \in Ids : sessions[id] # None => sess[sessions[id]].session_id = id
  /\ conf.version = "TLSv1.2" => \A x \in Cached(sessions) : sess[x].not_resumable = FALSE

\* Ids in use have been issued.
Known == \A x \in Objects : sess[x].session_id \in issued \cup {None}

ListOK ==
  /\ Injective(list) /\ Members(list) = Cached(sessions)
  /\ Len(list) <= CacheSize

CacheInv ==
  /\ TypeOK /\ RefsExact /\ TableOK /\ Known /\ ListOK
  /\ \A c \in Conns : ConnOK(c)

\* What is in the table or held has a reference.
LEMMA Referenced ==
  ASSUME NEW o, NEW t, NEW cn, NEW x,
         o[x].references = (IF x \in Cached(t) THEN 1 ELSE 0) + Cardinality(Held(cn, x))
  PROVE  /\ x \in Cached(t) => o[x].references > 0
         /\ \A c \in Conns :
              /\ o[x].references >= (IF x \in Cached(t) THEN 1 ELSE 0) + Count(cn[c], x)
              /\ Holds(cn[c], x) => o[x].references > 0
<1>1. Cardinality(Held(cn, x)) \in Nat
  BY HeldFinite
<1>2. ASSUME NEW c \in Conns
      PROVE  /\ o[x].references >= (IF x \in Cached(t) THEN 1 ELSE 0) + Count(cn[c], x)
             /\ Holds(cn[c], x) => o[x].references > 0
  <2>1. /\ Cardinality(Others(cn, c, x)) \in Nat /\ Count(cn[c], x) \in Nat
        /\ Cardinality(Held(cn, x)) = Cardinality(Others(cn, c, x)) + Count(cn[c], x)
        /\ Holds(cn[c], x) <=> Count(cn[c], x) > 0
    BY HeldSplit, CountHolds
  <2> QED BY <2>1
<1> QED BY <1>1, <1>2

\* The session of one's own is held.
LEMMA OwnHeld ==
  ASSUME NEW k, ShapeOK(k), Own(k) # None
  PROVE  Holds(k, Own(k))
<1>1. Own(k) \in {Reference(k, "session"), Reference(k, "added")}
  BY DEF Own, Reference
<1> QED BY <1>1 DEF Holds, References

(***************************************************************************)
(* What a step may do to objects and table without a connection noticing:  *)
(* D are the connections it does not touch, held the objects that those it *)
(* does touch have hold of, own the one that only they know of.            *)
(***************************************************************************)
LEMMA Frame ==
  ASSUME CacheInv, TypeOK', RefsExact', conf' = conf, issued \subseteq issued',
         NEW D \in SUBSET Conns, \A d \in D : conn'[d] = conn[d],
         NEW own, own \in Objects => own \notin Cached(sessions) /\ \A d \in D : ~Holds(conn[d], own),
         NEW held, \A d \in D : Own(conn[d]) \notin held,
         \A e \in Conns \ D, x \in Objects :
           Holds(conn'[e], x) => x \in held \/ x \in Cached(sessions) \/ sess[x].references = 0,
         \A x \in Objects :
           \/ /\ sess'[x].session_id = sess[x].session_id
              /\ sess'[x].not_resumable = sess[x].not_resumable
           \/ sess[x].references = 0 \/ sess'[x].references = 0
           \/ x = own
           \/ /\ x \notin Cached(sessions') /\ (x \in held \/ x \in Cached(sessions))
              /\ sess'[x].session_id \in {sess[x].session_id, None},
         \A id \in Ids :
           \/ sessions'[id] \in {sessions[id], None}
           \/ /\ sessions'[id] = own /\ sess'[own].session_id = id
              /\ conf.version = "TLSv1.2" => sess'[own].not_resumable = FALSE
  PROVE  TableOK' /\ \A d \in D : ConnOK(d)'
<1> DEFINE same(x) == /\ sess'[x].session_id = sess[x].session_id
                      /\ sess'[x].not_resumable = sess[x].not_resumable
<1>1. /\ sess \in [Objects -> Session] /\ sess' \in [Objects -> Session]
      /\ sessions \in [Ids -> Objects \cup {None}] /\ sessions' \in [Ids -> Objects \cup {None}]
      /\ None \notin Objects
  BY CacheAssumption DEF CacheInv, TypeOK
<1>2. ASSUME NEW x \in Objects
      PROVE  /\ sess[x].references = (IF x \in Cached(sessions) THEN 1 ELSE 0) + Cardinality(Held(conn, x))
             /\ sess'[x].references = (IF x \in Cached(sessions') THEN 1 ELSE 0) + Cardinality(Held(conn', x))
  BY DEF CacheInv, RefsExact, Holders, Held
<1>3. ASSUME NEW x \in Cached(sessions')
      PROVE  x \in Objects /\ (x \in Cached(sessions) \/ x = own)
  BY <1>1 DEF Cached
<1>4. ASSUME NEW x \in Objects, x \in Cached(sessions), x \in Cached(sessions')
      PROVE  same(x)
  <2>1. sess[x].references > 0 /\ sess'[x].references > 0
    BY <1>2, <1>4, Referenced
  <2> QED BY <1>4, <2>1
<1>5. TableOK'
  <2>1. ASSUME NEW id \in Ids, sessions'[id] # None
        PROVE  sess'[sessions'[id]].session_id = id
    <3>1. CASE sessions'[id] = sessions[id]
      <4>1. sessions[id] \in Cached(sessions) /\ sessions[id] \in Cached(sessions') /\ sessions[id] \in Objects
        BY <1>1, <2>1, <3>1 DEF Cached
      <4>2. same(sessions[id])
        BY <1>4, <4>1
      <4> QED BY <2>1, <3>1, <4>2 DEF CacheInv, TableOK
    <3> QED BY <2>1, <3>1
  <2>2. ASSUME conf.version = "TLSv1.2", NEW x \in Cached(sessions')
        PROVE  sess'[x].not_resumable = FALSE
    <3>1. CASE x \in Cached(sessions)
      BY <1>3, <1>4, <2>2, <3>1 DEF CacheInv, TableOK
    <3>2. CASE x \notin Cached(sessions)
      <4>1. PICK id \in Ids : sessions'[id] = x /\ x # None
        BY DEF Cached
      <4>2. sessions'[id] # sessions[id]
        BY <3>2, <4>1 DEF Cached
      <4> QED BY <2>2, <4>1, <4>2
    <3> QED BY <3>1, <3>2
  <2> QED BY <2>1, <2>2 DEF TableOK
<1>6. ASSUME NEW d \in D
      PROVE  ConnOK(d)'
  <2> DEFINE k == conn[d]
  <2>1. /\ d \in Conns /\ conn'[d] = k /\ ConnOK(d) /\ k \in Connection
        /\ k.session \in Objects \cup {None} /\ k.ret \in Objects \cup {None}
        /\ k.hit \in BOOLEAN
    BY DEF CacheInv, TypeOK, Connection
  <2>2. ASSUME NEW x \in Objects, Holds(k, x)
        PROVE  /\ sess[x].references > 0 /\ sess'[x].references > 0 /\ x # own
               /\ x \notin Cached(sessions) => x \notin Cached(sessions')
               /\ sess'[x].session_id \in {sess[x].session_id, None}
               /\ x \notin held /\ x \notin Cached(sessions) => same(x)
    <3>1. sess[x].references > 0 /\ sess'[x].references > 0
      <4>1. d \in Conns /\ Holds(conn[d], x) /\ Holds(conn'[d], x)
        BY <2>1, <2>2
      <4>2. sess[x].references > 0
        BY <1>2, <4>1, Referenced
      <4>3. sess'[x].references > 0
        BY <1>2, <4>1, Referenced
      <4> QED BY <4>2, <4>3
    <3>2. x # own
      BY <2>2
    <3> QED BY <1>3, <3>1, <3>2
  <2>3. ShapeOK(conn[d])'
    BY <2>1 DEF ShapeOK, ConnOK
  <2>4. Own(conn[d])' = Own(k) /\ Own(k) \in Objects \cup {None}
    BY <2>1 DEF Own
  <2>5. ASSUME Own(k) # None
        PROVE  /\ Own(k) \in Objects /\ Holds(k, Own(k)) /\ Own(k) \notin Cached(sessions)
               /\ Own(k) \notin Cached(sessions') /\ same(Own(k))
    <3>1. Own(k) \in Objects /\ Holds(k, Own(k)) /\ Own(k) \notin Cached(sessions)
      BY <2>1, <2>4, <2>5, OwnHeld DEF ConnOK, OwnOK
    <3>2. Own(k) \notin held
      BY <2>1
    <3> HIDE DEF k
    <3> QED BY <2>2, <3>1, <3>2
  <2>6. OwnOK(d)'
    <3> SUFFICES ASSUME Own(k) # None
                 PROVE  /\ Own(k) \notin Cached(sessions')
                        /\ \A e \in Conns \ {d} : ~Holds(conn'[e], Own(k))
                        /\ conf.version = "TLSv1.2" => sess'[Own(k)].not_resumable = FALSE
      BY <2>1, <2>4 DEF OwnOK, Own, Cached
    <3>1. /\ \A e \in Conns \ {d} : ~Holds(conn[e], Own(k))
          /\ conf.version = "TLSv1.2" => sess[Own(k)].not_resumable = FALSE
      BY <2>1 DEF ConnOK, OwnOK
    <3>2. ASSUME NEW e \in Conns \ {d}, Holds(conn'[e], Own(k))
          PROVE  FALSE
      <4>1. CASE e \in D
        BY <3>1, <3>2, <4>1
      <4>2. CASE e \notin D
        <5>1. Own(k) \in held \/ Own(k) \in Cached(sessions) \/ sess[Own(k)].references = 0
          BY <2>5, <3>2, <4>2
        <5>2. sess[Own(k)].references > 0
          BY <2>2, <2>5
        <5> QED BY <2>5, <5>1, <5>2
      <4> QED BY <4>1, <4>2
    <3> QED BY <2>5, <3>1, <3>2
  <2>7. IdsOK(d)'
    <3>1. ASSUME k.pc = "adding" PROVE sess'[k.ret].session_id # None
      <4>1. Own(k) = k.ret /\ k.ret # None
        BY <2>1, <3>1 DEF Own, ConnOK, ShapeOK
      <4>2. same(k.ret)
        BY <2>5, <4>1
      <4> QED BY <2>1, <3>1, <4>2 DEF ConnOK, IdsOK
    <3>2. ASSUME k.pc = "found" \/ (k.pc = "adding" /\ k.then = "found")
          PROVE  sess'[k.ret].session_id \in {k.asked, None} /\ k.asked \in issued'
      <4>1. k.ret \in Objects /\ Reference(k, "ret") = k.ret
        BY <2>1, <3>2 DEF ConnOK, ShapeOK, Reference
      <4>2. Holds(k, k.ret)
        BY <4>1 DEF Holds, References
      <4>3. sess'[k.ret].session_id \in {sess[k.ret].session_id, None}
        BY <2>2, <4>1, <4>2
      <4> QED BY <2>1, <3>2, <4>3 DEF ConnOK, IdsOK
    <3>3. ASSUME conf.version = "TLSv1.3", k.pc = "hello"
          PROVE  k.session \notin Cached(sessions')
      <4>1. k.session \in Objects /\ Reference(k, "session") = k.session
        BY <2>1, <3>3 DEF ConnOK, ShapeOK, Reference
      <4>2. Holds(k, k.session) /\ k.session \notin Cached(sessions)
        BY <2>1, <3>3, <4>1 DEF Holds, References, ConnOK, IdsOK
      <4> QED BY <2>2, <4>1, <4>2
    <3>4. ASSUME conf.version = "TLSv1.3", k.pc = "removing", k.then = "resumed"
          PROVE  k.ret \notin Cached(sessions')
      <4>1. k.ret \in Objects /\ Reference(k, "ret") = k.ret
        BY <2>1, <3>4 DEF ConnOK, ShapeOK, Reference
      <4>2. Holds(k, k.ret) /\ k.ret \notin Cached(sessions)
        BY <2>1, <3>4, <4>1 DEF Holds, References, ConnOK, IdsOK
      <4> QED BY <2>2, <4>1, <4>2
    <3>5. k.pc = "asking" => k.asked \in issued'
      BY <2>1 DEF ConnOK, IdsOK
    <3> QED BY <2>1, <3>1, <3>2, <3>3, <3>4, <3>5 DEF IdsOK
  <2> QED BY <2>3, <2>6, <2>7 DEF ConnOK
<1> QED BY <1>5, <1>6

\* The references of a connection, according to where it is.
LEMMA CountOf ==
  ASSUME NEW k \in Connection, ShapeOK(k), NEW x \in Objects
  PROVE  /\ k.pc \in {"closed", "asking", "full"} => Count(k, x) = 0
         /\ k.pc = "found" => Count(k, x) = One(k.ret = x)
         /\ k.pc = "adding" => Count(k, x) = One(k.ret = x) + One(k.ret = x)
         /\ k.pc = "removing" /\ k.then = "close" => Count(k, x) = One(k.session = x) + One(k.r = x)
         /\ k.pc = "removing" /\ k.then # "close" => Count(k, x) = One(k.ret = x) + One(k.r = x)
         /\ k.pc \in {"hello", "finish", "storing", "open"} => Count(k, x) = One(k.session = x)
<1>1. x # None
  BY CacheAssumption
<1>2. CASE k.pc \in {"asking", "full", "found", "hello", "finish", "storing", "open"}
  BY <1>1, <1>2 DEF ShapeOK, Count, Reference, One
<1>3. CASE k.pc = "closed"
  BY <1>1, <1>3 DEF ShapeOK, Count, Reference, One, Closed
<1>4. CASE k.pc = "adding"
  BY <1>1, <1>4 DEF ShapeOK, Count, Reference, One
<1>5. CASE k.pc = "removing"
  BY <1>1, <1>5 DEF ShapeOK, Count, Reference, One
<1> QED BY <1>2, <1>3, <1>4, <1>5 DEF Connection

\* Reference counts after the step of a connection.
LEMMA ExactStep ==
  ASSUME RefsExact, conn \in [Conns -> Connection], NEW c \in Conns, NEW k, conn' = [conn EXCEPT ![c] = k],
         \A x \in Objects :
           sess'[x].references = sess[x].references
             + One(x \in Cached(sessions')) - One(x \in Cached(sessions)) + Count(k, x) - Count(conn[c], x)
  PROVE  RefsExact'
<1>1. ASSUME NEW x \in Objects
      PROVE  sess'[x].references = (IF x \in Cached(sessions') THEN 1 ELSE 0) + Cardinality(Holders(x))'
  <2>1. Cardinality(Holders(x))' = Cardinality(Holders(x)) + Count(k, x) - Count(conn[c], x)
    BY HoldersStep
  <2>2. sess[x].references = (IF x \in Cached(sessions) THEN 1 ELSE 0) + Cardinality(Holders(x))
    BY DEF RefsExact
  <2>3. Count(k, x) \in Nat /\ Count(conn[c], x) \in Nat
    BY CountHolds
  <2>4. Holders(x) = Held(conn, x)
    BY DEF Holders, Held
  <2>5. Cardinality(Holders(x)) \in Nat
    BY <2>4, HeldFinite
  <2> QED BY <2>1, <2>2, <2>3, <2>5 DEF One
<1> QED BY <1>1 DEF RefsExact, Cached

(***************************************************************************)
(* The step of a connection c, which becomes k.  Counts change with the    *)
(* references of the connection and of the cache; what it holds is from    *)
(* the cache, or was free; only its own session is changed, or one that    *)
(* is not in the cache; only its own session is put into the table.        *)
(***************************************************************************)
Balanced(c, k) ==
  \A x \in Objects :
    sess'[x].references = sess[x].references
      + One(x \in Cached(sessions')) - One(x \in Cached(sessions)) + Count(k, x) - Count(conn[c], x)

Taken(c, k) ==
  \A x \in Objects :
    Count(k, x) > 0 => Count(conn[c], x) > 0 \/ x \in Cached(sessions) \/ sess[x].references = 0

Kept(c) ==
  \A x \in Objects :
    \/ /\ sess'[x].session_id = sess[x].session_id
       /\ sess'[x].not_resumable = sess[x].not_resumable
    \/ sess[x].references = 0 \/ sess'[x].references = 0
    \/ x = Own(conn[c])
    \/ /\ x \notin Cached(sessions') /\ (Count(conn[c], x) > 0 \/ x \in Cached(sessions))
       /\ sess'[x].session_id \in {sess[x].session_id, None}

Entered(c) ==
  \A id \in Ids :
    \/ sessions'[id] \in {sessions[id], None}
    \/ /\ sessions'[id] = Own(conn[c]) /\ sess'[Own(conn[c])].session_id = id
       /\ conf.version = "TLSv1.2" => sess'[Own(conn[c])].not_resumable = FALSE

Settled(c, k) ==
  /\ ShapeOK(k)
  /\ Own(k) # None =>
       /\ Own(k) \notin Cached(sessions')
       /\ \A d \in Conns \ {c} : ~Holds(conn[d], Own(k))
       /\ conf.version = "TLSv1.2" => sess'[Own(k)].not_resumable = FALSE
  /\ k.pc = "adding" => sess'[k.ret].session_id # None
  /\ k.pc = "found" \/ (k.pc = "adding" /\ k.then = "found") =>
       sess'[k.ret].session_id \in {k.asked, None} /\ k.asked \in issued'
  /\ conf.version = "TLSv1.3" /\ k.pc = "hello" => k.session \notin Cached(sessions')
  /\ conf.version = "TLSv1.3" /\ k.pc = "removing" /\ k.then = "resumed" =>
       k.ret \notin Cached(sessions')
  /\ k.pc = "asking" => k.asked \in issued'

\* Such a step keeps the invariant.
LEMMA ConnStep ==
  ASSUME CacheInv, TypeOK', conf' = conf, issued \subseteq issued', Known', ListOK',
         NEW c \in Conns, NEW k, conn' = [conn EXCEPT ![c] = k],
         Balanced(c, k), Taken(c, k), Kept(c), Entered(c), Settled(c, k)
  PROVE  CacheInv'
<1>1. conn \in [Conns -> Connection] /\ RefsExact /\ None \notin Objects
  BY CacheAssumption DEF CacheInv, TypeOK
<1>2. conn'[c] = k /\ \A d \in Conns \ {c} : conn'[d] = conn[d]
  BY <1>1
<1>3. RefsExact'
  <2>1. \A x \in Objects :
          sess'[x].references = sess[x].references
            + One(x \in Cached(sessions')) - One(x \in Cached(sessions)) + Count(k, x) - Count(conn[c], x)
    BY DEF Balanced
  <2>2. c \in Conns /\ conn' = [conn EXCEPT ![c] = k]
    OBVIOUS
  <2> QED BY ONLY <1>1, <2>1, <2>2, ExactStep
<1> DEFINE D == Conns \ {c}
           held == {x \in Objects : Count(conn[c], x) > 0}
<1>4. /\ D \in SUBSET Conns /\ \A d \in D : conn'[d] = conn[d]
      /\ \A e \in Conns \ D : e = c
  BY <1>2
<1>5. /\ Own(conn[c]) \in Objects => /\ Own(conn[c]) \notin Cached(sessions)
                                     /\ \A d \in D : ~Holds(conn[d], Own(conn[c]))
  BY <1>1 DEF CacheInv, ConnOK, OwnOK
<1>6. \A d \in D : Own(conn[d]) \notin held
  <2> SUFFICES ASSUME NEW d \in D, Own(conn[d]) \in held PROVE FALSE
    OBVIOUS
  <2>1. Own(conn[d]) \in Objects /\ Holds(conn[c], Own(conn[d]))
    BY CountHolds
  <2>2. Own(conn[d]) # None /\ c \in Conns \ {d}
    BY <1>1, <2>1
  <2> QED BY <2>1, <2>2 DEF CacheInv, ConnOK, OwnOK
<1>7. \A e \in Conns \ D, x \in Objects :
        Holds(conn'[e], x) => x \in held \/ x \in Cached(sessions) \/ sess[x].references = 0
  BY <1>2, <1>4, CountHolds DEF Taken
<1>8. \A x \in Objects :
        \/ /\ sess'[x].session_id = sess[x].session_id
           /\ sess'[x].not_resumable = sess[x].not_resumable
        \/ sess[x].references = 0 \/ sess'[x].references = 0
        \/ x = Own(conn[c])
        \/ /\ x \notin Cached(sessions') /\ (x \in held \/ x \in Cached(sessions))
           /\ sess'[x].session_id \in {sess[x].session_id, None}
  BY DEF Kept
<1>11. \A id \in Ids :
         \/ sessions'[id] \in {sessions[id], None}
         \/ /\ sessions'[id] = Own(conn[c]) /\ sess'[Own(conn[c])].session_id = id
            /\ conf.version = "TLSv1.2" => sess'[Own(conn[c])].not_resumable = FALSE
  BY DEF Entered
<1> HIDE DEF D, held
<1>9. TableOK' /\ \A d \in D : ConnOK(d)'
  BY <1>3, <1>4, <1>5, <1>6, <1>7, <1>8, <1>11, Frame
<1>10. ConnOK(c)'
  <2>1. ShapeOK(conn[c])'
    BY <1>2 DEF Settled, ShapeOK
  <2>2. OwnOK(c)'
    BY <1>2 DEF Settled, OwnOK, Own, Cached
  <2>3. IdsOK(c)'
    BY <1>2 DEF Settled, IdsOK, Cached
  <2> QED BY <2>1, <2>2, <2>3 DEF ConnOK
<1> QED BY <1>3, <1>9, <1>10 DEF CacheInv, D

-----------------------------------------------------------------------------
(***************************************************************************)
(* What the operations on the objects and on the table do.                 *)
(***************************************************************************)
\* tls_SESSION_free gives back one reference, and what is no longer referenced.
LEMMA FreeEffect ==
  ASSUME NEW o \in [Objects -> Session], NEW x \in Objects \cup {None},
         x # None => o[x].references > 0
  PROVE  /\ tls_SESSION_free(o, x) \in [Objects -> Session]
         /\ \A y \in Objects :
              /\ tls_SESSION_free(o, x)[y].references = o[y].references - One(x = y)
              /\ \/ /\ tls_SESSION_free(o, x)[y].session_id = o[y].session_id
                    /\ tls_SESSION_free(o, x)[y].not_resumable = o[y].not_resumable
                 \/ tls_SESSION_free(o, x)[y] = Free /\ o[y].references = 1
<1>1. None \notin Objects /\ Free \in Session
  BY CacheAssumption DEF Free, Session
<1>2. CASE x = None
  BY <1>1, <1>2 DEF tls_SESSION_free, One, Session
<1>3. CASE x # None /\ o[x].references = 1
  <2>1. x \in Objects /\ \A y \in Objects : o[y].references \in Nat
    BY <1>3 DEF Session
  <2>2. tls_SESSION_free(o, x) = [o EXCEPT ![x] = Free] /\ Free.references = 0
    BY <1>3 DEF tls_SESSION_free, Free
  <2> HIDE DEF tls_SESSION_free
  <2> QED BY <1>1, <1>3, <2>1, <2>2 DEF One
<1>4. CASE x # None /\ o[x].references # 1
  <2>1. x \in Objects /\ o[x] \in Session /\ o[x].references \in Nat /\ o[x].references - 1 \in Nat
    BY <1>4 DEF Session
  <2>2. tls_SESSION_free(o, x) = [o EXCEPT ![x] = [o[x] EXCEPT !.references = o[x].references - 1]]
    BY <1>4, <2>1 DEF tls_SESSION_free
  <2>3. [o[x] EXCEPT !.references = o[x].references - 1] \in Session
    BY <2>1 DEF Session
  <2> QED BY <1>1, <1>4, <2>1, <2>2, <2>3 DEF One, Session
<1> QED BY <1>2, <1>3, <1>4

\* tls_SESSION_up_ref takes one.
LEMMA UpRefEffect ==
  ASSUME NEW o \in [Objects -> Session], NEW x \in Objects
  PROVE  /\ tls_SESSION_up_ref(o, x) \in [Objects -> Session]
         /\ \A y \in Objects :
              /\ tls_SESSION_up_ref(o, x)[y].references = o[y].references + One(x = y)
              /\ tls_SESSION_up_ref(o, x)[y].session_id = o[y].session_id
              /\ tls_SESSION_up_ref(o, x)[y].not_resumable = o[y].not_resumable
<1>1. o[x] \in Session /\ o[x].references \in Nat /\ o[x].references + 1 \in Nat
  BY DEF Session
<1>2. tls_SESSION_up_ref(o, x) = [o EXCEPT ![x] = [o[x] EXCEPT !.references = o[x].references + 1]]
  BY <1>1 DEF tls_SESSION_up_ref
<1>3. [o[x] EXCEPT !.references = o[x].references + 1] \in Session
  BY <1>1 DEF Session
<1> QED BY <1>1, <1>2, <1>3 DEF One, Session

\* tls_SESSION_new makes an object with one.
LEMMA NewEffect ==
  ASSUME NEW o \in [Objects -> Session], NEW x \in Objects, o[x].references = 0,
         NEW n, NEW s \in Session, s.references = 1, n = [o EXCEPT ![x] = s]
  PROVE  /\ n \in [Objects -> Session] /\ n[x] = s
         /\ \A y \in Objects : /\ n[y].references = o[y].references + One(x = y)
                               /\ y # x => n[y] = o[y]
BY DEF One, Session

\* Marking a session changes nothing else.
LEMMA MarkedEffect ==
  ASSUME NEW o \in [Objects -> Session], NEW x \in Objects
  PROVE  /\ Marked(o, x) \in [Objects -> Session]
         /\ \A y \in Objects :
              /\ Marked(o, x)[y].references = o[y].references
              /\ Marked(o, x)[y].session_id = o[y].session_id
              /\ y # x => Marked(o, x)[y] = o[y]
<1>1. o[x] \in Session /\ [o[x] EXCEPT !.not_resumable = TRUE] \in Session
  BY DEF Session
<1>2. CASE Marked(o, x) = o
  BY <1>2
<1>3. CASE Marked(o, x) = [o EXCEPT ![x] = [o[x] EXCEPT !.not_resumable = TRUE]]
  <2>1. [o[x] EXCEPT !.not_resumable = TRUE].references = o[x].references
    BY <1>1 DEF Session
  <2>2. [o[x] EXCEPT !.not_resumable = TRUE].session_id = o[x].session_id
    BY <1>1 DEF Session
  <2>3. /\ Marked(o, x)[x] = [o[x] EXCEPT !.not_resumable = TRUE]
        /\ \A y \in Objects : y # x => Marked(o, x)[y] = o[y]
        /\ Marked(o, x) \in [Objects -> Session]
    BY <1>1, <1>3
  <2> QED BY <2>1, <2>2, <2>3
<1> QED BY <1>2, <1>3 DEF Marked

\* Retrieving from a table where every session has the id it is found by.
LEMMA RetrieveEffect ==
  ASSUME NEW o, NEW t \in [Ids -> Objects \cup {None}],
         \A id \in Ids : t[id] # None => o[t[id]].session_id = id
  PROVE  /\ Retrieve(o, t, None) = None
         /\ \A id \in Ids : Retrieve(o, t, id) = t[id]
         /\ \A x \in Cached(t) : Retrieve(o, t, o[x].session_id) = x
<1>1. Retrieve(o, t, None) = None /\ \A id \in Ids : Retrieve(o, t, id) = t[id]
  BY CacheAssumption DEF Retrieve
<1>2. ASSUME NEW x \in Cached(t)
      PROVE  Retrieve(o, t, o[x].session_id) = x
  <2>1. PICK id \in Ids : t[id] = x /\ x # None
    BY DEF Cached
  <2> QED BY <1>1, <2>1
<1> QED BY <1>1, <1>2

\* A table without a session.
LEMMA DeleteEffect ==
  ASSUME NEW t \in [Ids -> Objects \cup {None}], NEW x \in Objects \cup {None}
  PROVE  /\ Delete(t, x) \in [Ids -> Objects \cup {None}]
         /\ Cached(Delete(t, x)) = Cached(t) \ {x}
         /\ \A id \in Ids : Delete(t, x)[id] \in {t[id], None}
BY DEF Delete, Cached

-----------------------------------------------------------------------------
(***************************************************************************)
(* The steps.                                                              *)
(***************************************************************************)
\* What is known of a connection before it takes a step.
LEMMA Before ==
  ASSUME CacheInv, NEW c \in Conns
  PROVE  /\ conn \in [Conns -> Connection] /\ conn[c] \in Connection
         /\ ConnOK(c) /\ ShapeOK(conn[c])
         /\ sess \in [Objects -> Session] /\ sessions \in [Ids -> Objects \cup {None}]
         /\ None \notin Objects /\ None \notin Ids
         /\ \A x \in Objects :
              /\ sess[x].references \in Nat /\ Count(conn[c], x) \in Nat
              /\ sess[x].references >= One(x \in Cached(sessions)) + Count(conn[c], x)
              /\ sess[x].references = 0 =>
                   x \notin Cached(sessions) /\ \A d \in Conns : ~Holds(conn[d], x)
<1>1. /\ conn \in [Conns -> Connection] /\ conn[c] \in Connection
      /\ ConnOK(c) /\ ShapeOK(conn[c])
      /\ sess \in [Objects -> Session] /\ sessions \in [Ids -> Objects \cup {None}]
      /\ None \notin Objects /\ None \notin Ids
  BY CacheAssumption DEF CacheInv, TypeOK, ConnOK
<1>2. ASSUME NEW x \in Objects
      PROVE  /\ sess[x].references \in Nat /\ Count(conn[c], x) \in Nat
             /\ sess[x].references >= One(x \in Cached(sessions)) + Count(conn[c], x)
             /\ sess[x].references = 0 =>
                  x \notin Cached(sessions) /\ \A d \in Conns : ~Holds(conn[d], x)
  <2>1. Holders(x) = Held(conn, x)
    BY DEF Holders, Held
  <2>2. sess[x].references = (IF x \in Cached(sessions) THEN 1 ELSE 0) + Cardinality(Held(conn, x))
    BY <2>1 DEF CacheInv, RefsExact
  <2>3. /\ x \in Cached(sessions) => sess[x].references > 0
        /\ \A d \in Conns :
             /\ sess[x].references >= (IF x \in Cached(sessions) THEN 1 ELSE 0) + Count(conn[d], x)
             /\ Holds(conn[d], x) => sess[x].references > 0
    BY <2>2, Referenced
  <2>4. sess[x].references \in Nat /\ Count(conn[c], x) \in Nat
    BY <1>1, CountHolds DEF Session
  <2> QED BY <2>3, <2>4 DEF One
<1> QED BY <1>1, <1>2

\* A connection that is closed.
LEMMA ClosedType == Closed \in Connection
<1>1. 0 \in 0..MaxTickets
  BY CacheAssumption
<1> QED BY <1>1 DEF Closed, Connection

\* A step that leaves the table alone.
LEMMA QuietStep ==
  ASSUME CacheInv, NEW c \in Conns, NEW k \in Connection, conn' = [conn EXCEPT ![c] = k],
         conf' = conf, sessions' = sessions, list' = list,
         issued \subseteq issued', issued' \subseteq Ids, expired' \subseteq issued',
         store' \subseteq issued', redeemed' \subseteq issued',
         sess' \in [Objects -> Session], Known',
         \A x \in Objects :
           sess'[x].references = sess[x].references + Count(k, x) - Count(conn[c], x),
         Taken(c, k), Kept(c), Settled(c, k)
  PROVE  CacheInv'
<1>1. conn \in [Conns -> Connection] /\ \A x \in Objects : sess[x].references \in Nat
  BY Before
<1>2. TypeOK'
  BY <1>1 DEF CacheInv, TypeOK
<1>3. ListOK'
  <2>1. Injective(list)' /\ Members(list)' = Members(list) /\ Cached(sessions)' = Cached(sessions)
    BY DEF CacheInv, ListOK, Members, Injective, Cached
  <2> QED BY <2>1 DEF CacheInv, ListOK
<1>4. Balanced(c, k)
  <2>1. Cached(sessions') = Cached(sessions)
    OBVIOUS
  <2>2. \A x \in Objects : Count(k, x) \in Nat /\ Count(conn[c], x) \in Nat
    BY CountHolds
  <2> QED BY <1>1, <2>1, <2>2 DEF Balanced, One
<1>5. Entered(c)
  BY DEF Entered
<1> QED BY <1>2, <1>3, <1>4, <1>5, ConnStep

\* A session is looked up.
LEMMA LookupStep ==
  ASSUME CacheInv, NEW c \in Conns, NEW id \in Ids, Lookup(c, id)
  PROVE  CacheInv'
<1> DEFINE x == Retrieve(sess, sessions, id)
           pc == IF x # None THEN "found" ELSE IF conf.external THEN "asking" ELSE "full"
           k == [Closed EXCEPT !.asked = id, !.ret = x, !.pc = pc]
<1>1. /\ conn \in [Conns -> Connection] /\ ShapeOK(conn[c]) /\ conn[c] \in Connection
      /\ sess \in [Objects -> Session] /\ sessions \in [Ids -> Objects \cup {None}]
      /\ None \notin Objects
      /\ \A y \in Objects : sess[y].references \in Nat
  BY Before
<1>2. x = sessions[id] /\ (x # None => x \in Objects /\ x \in Cached(sessions) /\ sess[x].session_id = id)
  <2>1. \A i \in Ids : sessions[i] # None => sess[sessions[i]].session_id = i
    BY DEF CacheInv, TableOK
  <2>2. x = sessions[id]
    BY <1>1, <2>1, RetrieveEffect
  <2> QED BY <1>1, <2>1, <2>2 DEF Cached
<1>3. /\ k \in Connection /\ k.pc = pc /\ k.session = None /\ k.asked = id /\ k.ret = x /\ k.r = None
      /\ k.hit = FALSE /\ k.sent_tickets = 0 /\ k.then = "closed"
  <2>1. pc \in {"found", "asking", "full"} /\ x \in Objects \cup {None}
    BY <1>2
  <2>2. Closed \in Connection
    BY ClosedType
  <2> HIDE DEF x, pc
  <2> QED BY <2>1, <2>2 DEF Closed, Connection
<1>4. conn' = [conn EXCEPT ![c] = k] /\ conn[c].pc = "closed" /\ id \in issued
  BY DEF Lookup
<1> HIDE DEF k
<1>5. ShapeOK(k) /\ Own(k) = None
  BY <1>3 DEF ShapeOK, Own
<1>6. \A y \in Objects : Count(conn[c], y) = 0 /\ Count(k, y) = One(x = y)
  <2> TAKE y \in Objects
  <2>1. Count(conn[c], y) = 0
    BY <1>1, <1>4, CountOf
  <2>2. x # None => Count(k, y) = One(x = y)
    BY <1>3, <1>5, CountOf
  <2>3. x = None => Count(k, y) = 0
    BY <1>3, <1>5, CountOf
  <2> QED BY <1>1, <2>1, <2>2, <2>3 DEF One
<1>7. /\ sess' \in [Objects -> Session]
      /\ \A y \in Objects :
           /\ sess'[y].references = sess[y].references + One(x = y)
           /\ sess'[y].session_id = sess[y].session_id
           /\ sess'[y].not_resumable = sess[y].not_resumable
  <2>1. CASE x = None
    <3>1. sess' = sess
      BY <2>1 DEF Lookup
    <3> QED BY <1>1, <2>1, <3>1 DEF One
  <2>2. CASE x # None
    <3>1. sess' = tls_SESSION_up_ref(sess, x) /\ x \in Objects
      BY <1>2, <2>2 DEF Lookup
    <3> HIDE DEF x
    <3> QED BY <1>1, <3>1, UpRefEffect
  <2> QED BY <2>1, <2>2
<1>8. /\ conf' = conf /\ sessions' = sessions /\ list' = list /\ issued' = issued /\ expired' = expired
      /\ store' = store /\ redeemed' = redeemed
  BY DEF Lookup
<1> HIDE DEF x
<1>9. Known'
  BY <1>7, <1>8 DEF CacheInv, Known
<1>10. Taken(c, k)
  <2> SUFFICES ASSUME NEW y \in Objects, Count(k, y) > 0 PROVE y \in Cached(sessions)
    BY DEF Taken
  <2>1. x = y
    BY <1>6 DEF One
  <2> QED BY <1>1, <1>2, <2>1
<1>11. Kept(c)
  BY <1>7 DEF Kept
<1>12. Settled(c, k)
  BY <1>2, <1>3, <1>4, <1>5, <1>7, <1>8 DEF Settled
<1>13. \A y \in Objects : sess'[y].references = sess[y].references + Count(k, y) - Count(conn[c], y)
  BY <1>1, <1>6, <1>7 DEF One
<1>14. /\ issued \subseteq issued' /\ issued' \subseteq Ids /\ expired' \subseteq issued'
       /\ store' \subseteq issued' /\ redeemed' \subseteq issued'
  BY <1>8 DEF CacheInv, TypeOK
<1> QED BY <1>3, <1>4, <1>7, <1>8, <1>9, <1>10, <1>11, <1>12, <1>13, <1>14, QuietStep

\* A step that changes a connection and no session.
LEMMA IdleStep ==
  ASSUME CacheInv, NEW c \in Conns, NEW k \in Connection, conn' = [conn EXCEPT ![c] = k],
         UNCHANGED <<conf, sess, sessions, list, issued, expired, redeemed>>,
         store' \subseteq issued,
         \A x \in Objects : Count(k, x) = Count(conn[c], x), Settled(c, k)
  PROVE  CacheInv'
<1>1. /\ sess \in [Objects -> Session] /\ \A x \in Objects : sess[x].references \in Nat
      /\ \A x \in Objects : Count(conn[c], x) \in Nat
  BY Before
<1>2. /\ issued \subseteq issued' /\ issued' \subseteq Ids /\ expired' \subseteq issued'
      /\ store' \subseteq issued' /\ redeemed' \subseteq issued'
  BY DEF CacheInv, TypeOK
<1>3. Known'
  BY DEF CacheInv, Known
<1>4. Taken(c, k) /\ Kept(c)
  BY DEF Taken, Kept
<1>5. \A x \in Objects : sess'[x].references = sess[x].references + Count(k, x) - Count(conn[c], x)
  BY <1>1
<1> QED BY <1>1, <1>2, <1>3, <1>4, <1>5, QuietStep

\* No session is asked for.
LEMMA AskForNoneStep ==
  ASSUME CacheInv, NEW c \in Conns, AskForNone(c)
  PROVE  CacheInv'
<1> DEFINE k == [Closed EXCEPT !.pc = "full"]
<1>1. conn[c] \in Connection /\ ShapeOK(conn[c]) /\ conn[c].pc = "closed" /\ store' \subseteq issued
  BY Before DEF AskForNone, CacheInv, TypeOK
<1>2. /\ k \in Connection /\ k.pc = "full" /\ k.session = None /\ k.ret = None /\ k.r = None
      /\ k.hit = FALSE /\ k.sent_tickets = 0 /\ k.then = "closed"
  BY ClosedType DEF Closed, Connection
<1>3. conn' = [conn EXCEPT ![c] = k] /\ UNCHANGED <<conf, sess, sessions, list, issued, expired, redeemed>>
  BY DEF AskForNone
<1> HIDE DEF k
<1>4. ShapeOK(k) /\ Own(k) = None
  BY <1>2 DEF ShapeOK, Own
<1>5. \A x \in Objects : Count(k, x) = Count(conn[c], x)
  <2> TAKE x \in Objects
  <2>1. Count(k, x) = 0
    BY <1>2, <1>4, CountOf
  <2>2. Count(conn[c], x) = 0
    BY <1>1, CountOf
  <2> QED BY <2>1, <2>2
<1>6. Settled(c, k)
  BY <1>2, <1>4 DEF Settled
<1> QED BY <1>1, <1>2, <1>3, <1>5, <1>6, IdleStep

\* The external cache is asked.
LEMMA AskExternalStep ==
  ASSUME CacheInv, NEW c \in Conns, AskExternal(c)
  PROVE  CacheInv'
<1>1. /\ conn \in [Conns -> Connection] /\ conn[c] \in Connection /\ ShapeOK(conn[c])
      /\ conn[c].pc = "asking" /\ conn[c].asked \in issued /\ sess \in [Objects -> Session]
      /\ None \notin Objects /\ None \notin Ids
  BY Before DEF AskExternal, ConnOK, IdsOK
<1>2. /\ conn[c].session = None /\ conn[c].ret = None /\ conn[c].r = None /\ conn[c].hit = FALSE
      /\ conn[c].sent_tickets = 0
  BY <1>1 DEF ShapeOK
<1>3. /\ conf' = conf /\ sessions' = sessions /\ list' = list /\ issued' = issued /\ expired' = expired
      /\ store' = store /\ redeemed' = redeemed
  BY DEF AskExternal
<1>4. /\ issued \subseteq issued' /\ issued' \subseteq Ids /\ expired' \subseteq issued'
      /\ store' \subseteq issued' /\ redeemed' \subseteq issued'
  BY <1>3 DEF CacheInv, TypeOK
<1>5. CASE conn' = Go(c, "full") /\ UNCHANGED sess
  <2> DEFINE k == [conn[c] EXCEPT !.pc = "full"]
  <2>1. /\ k \in Connection /\ k.pc = "full" /\ k.session = None /\ k.ret = None /\ k.r = None
        /\ k.hit = FALSE /\ k.sent_tickets = 0
    BY <1>1, <1>2 DEF Connection
  <2>2. conn' = [conn EXCEPT ![c] = k]
    BY <1>1, <1>5 DEF Go
  <2> HIDE DEF k
  <2>3. ShapeOK(k) /\ Own(k) = None
    BY <2>1 DEF ShapeOK, Own
  <2>4. \A x \in Objects : Count(k, x) = Count(conn[c], x)
    <3> TAKE x \in Objects
    <3>1. Count(k, x) = 0
      BY <2>1, <2>3, CountOf
    <3>2. Count(conn[c], x) = 0
      BY <1>1, CountOf
    <3> QED BY <3>1, <3>2
  <2>5. Settled(c, k)
    BY <2>1, <2>3 DEF Settled
  <2> QED BY <1>3, <1>4, <1>5, <2>1, <2>2, <2>4, <2>5, IdleStep
<1>6. ASSUME NEW x \in Objects, IsFree(x),
             sess' = tls_SESSION_up_ref(New(sess, x, conn[c].asked, FALSE), x),
             conn' = [conn EXCEPT ![c].pc = "adding", ![c].ret = x, ![c].then = "found"]
      PROVE  CacheInv'
  <2> DEFINE k == [conn[c] EXCEPT !.pc = "adding", !.ret = x, !.then = "found"]
             n == New(sess, x, conn[c].asked, FALSE)
  <2>1. /\ k \in Connection /\ k.pc = "adding" /\ k.session = None /\ k.ret = x /\ k.r = None
        /\ k.hit = FALSE /\ k.sent_tickets = 0 /\ k.then = "found" /\ k.asked = conn[c].asked
    BY <1>1, <1>2 DEF Connection
  <2>2. conn' = [conn EXCEPT ![c] = k]
    BY <1>1, <1>6
  <2>3. sess[x].references = 0
    BY <1>6 DEF IsFree
  <2>4. /\ n \in [Objects -> Session]
        /\ n[x] = [references |-> 1, session_id |-> conn[c].asked, not_resumable |-> FALSE]
        /\ \A y \in Objects : /\ n[y].references = sess[y].references + One(x = y)
                              /\ y # x => n[y] = sess[y]
    <3> DEFINE s == [references |-> 1, session_id |-> conn[c].asked, not_resumable |-> FALSE]
    <3>1. s \in Session /\ s.references = 1
      BY <1>1 DEF Connection, Session
    <3>2. n = [sess EXCEPT ![x] = s]
      BY DEF New
    <3> HIDE DEF s, n
    <3>3. /\ n \in [Objects -> Session] /\ n[x] = s
          /\ \A y \in Objects : /\ n[y].references = sess[y].references + One(x = y)
                                /\ y # x => n[y] = sess[y]
      BY <1>1, <2>3, <3>1, <3>2, NewEffect
    <3> QED BY <3>3 DEF s
  <2> HIDE DEF k, n
  <2>5. /\ sess' \in [Objects -> Session]
        /\ \A y \in Objects : /\ sess'[y].references = n[y].references + One(x = y)
                              /\ sess'[y].session_id = n[y].session_id
                              /\ sess'[y].not_resumable = n[y].not_resumable
    <3>1. sess' = tls_SESSION_up_ref(n, x)
      BY <1>6 DEF n
    <3> QED BY <2>4, <3>1, UpRefEffect
  <2>6. ShapeOK(k) /\ Own(k) = x
    BY <1>1, <2>1 DEF ShapeOK, Own
  <2>7. \A y \in Objects : Count(conn[c], y) = 0 /\ Count(k, y) = One(x = y) + One(x = y)
    <3> TAKE y \in Objects
    <3>1. Count(k, y) = One(x = y) + One(x = y)
      BY <2>1, <2>6, CountOf
    <3>2. Count(conn[c], y) = 0
      BY <1>1, CountOf
    <3> QED BY <3>1, <3>2
  <2>8. \A y \in Objects : sess'[y].references = sess[y].references + Count(k, y) - Count(conn[c], y)
    <3> TAKE y \in Objects
    <3>1. sess[y].references \in Nat
      BY Before
    <3> QED BY <2>4, <2>5, <2>7, <3>1 DEF One
  <2>9. sess'[x].session_id = conn[c].asked /\ sess'[x].not_resumable = FALSE
    BY <2>4, <2>5
  <2>10. Known'
    BY <1>1, <1>3, <2>4, <2>5, <2>9 DEF CacheInv, Known
  <2>11. Taken(c, k)
    BY <2>3, <2>7 DEF Taken, One
  <2>12. Kept(c)
    BY <2>3, <2>4, <2>5 DEF Kept
  <2>13. x \notin Cached(sessions) /\ \A d \in Conns : ~Holds(conn[d], x)
    BY <2>3, Before
  <2>14. Settled(c, k)
    <3>1. conn[c].asked # None
      BY <1>1 DEF CacheInv, TypeOK
    <3> QED BY <1>1, <1>3, <2>1, <2>6, <2>9, <2>13, <3>1 DEF Settled
  <2> QED BY <1>3, <1>4, <2>1, <2>2, <2>5, <2>8, <2>10, <2>11, <2>12, <2>14, QuietStep
<1> QED BY <1>5, <1>6 DEF AskExternal

\* The session that was found is taken (TLSv1.2).
LEMMA ResumeStep ==
  ASSUME CacheInv, NEW c \in Conns, conn[c].pc = "found", conf.version = "TLSv1.2", Resume(c)
  PROVE  CacheInv'
<1> DEFINE k == [conn[c] EXCEPT !.pc = "hello", !.session = conn[c].ret, !.ret = None, !.hit = TRUE]
<1>1. /\ conn \in [Conns -> Connection] /\ conn[c] \in Connection /\ ShapeOK(conn[c])
      /\ store' \subseteq issued
  BY Before DEF Resume, CacheInv, TypeOK
<1>2. /\ k \in Connection /\ k.pc = "hello" /\ k.session = conn[c].ret /\ k.ret = None
      /\ k.r = conn[c].r /\ k.hit = TRUE /\ k.sent_tickets = conn[c].sent_tickets
  BY <1>1 DEF Connection
<1>3. conn' = [conn EXCEPT ![c] = k] /\ UNCHANGED <<conf, sess, sessions, list, issued, expired, redeemed>>
  BY <1>1 DEF Resume
<1> HIDE DEF k
<1>4. ShapeOK(k) /\ Own(k) = None
  BY <1>1, <1>2 DEF ShapeOK, Own
<1>5. \A x \in Objects : Count(k, x) = Count(conn[c], x)
  <2> TAKE x \in Objects
  <2>1. Count(k, x) = One(conn[c].ret = x)
    BY <1>2, <1>4, CountOf
  <2>2. Count(conn[c], x) = One(conn[c].ret = x)
    BY <1>1, CountOf
  <2> QED BY <2>1, <2>2
<1>6. Settled(c, k)
  BY <1>2, <1>4 DEF Settled
<1> QED BY <1>1, <1>2, <1>3, <1>5, <1>6, IdleStep

\* A session is made.
LEMMA NewSessionStep ==
  ASSUME CacheInv, NEW c \in Conns, NewSession(c)
  PROVE  CacheInv'
<1>1. /\ conn \in [Conns -> Connection] /\ conn[c] \in Connection /\ ShapeOK(conn[c])
      /\ conn[c].pc = "full" /\ sess \in [Objects -> Session] /\ None \notin Objects
  BY Before DEF NewSession
<1>2. PICK x \in Objects, id \in Ids \cup {None} :
        /\ sess[x].references = 0 /\ sess' = New(sess, x, id, FALSE)
        /\ conn' = [conn EXCEPT ![c].pc = "hello", ![c].session = x]
        /\ issued' = issued \cup ({id} \ {None})
  <2>1. PICK x \in Objects :
          /\ IsFree(x) /\ conn' = [conn EXCEPT ![c].pc = "hello", ![c].session = x]
          /\ \/ \E id \in FreshIds : sess' = New(sess, x, id, FALSE) /\ issued' = issued \cup {id}
             \/ sess' = New(sess, x, None, FALSE) /\ UNCHANGED issued
    BY DEF NewSession
  <2>2. CASE \E id \in FreshIds : sess' = New(sess, x, id, FALSE) /\ issued' = issued \cup {id}
    <3>1. PICK id \in FreshIds : sess' = New(sess, x, id, FALSE) /\ issued' = issued \cup {id}
      BY <2>2
    <3>2. id \in Ids \cup {None} /\ {id} \ {None} = {id}
      BY CacheAssumption DEF FreshIds
    <3> QED BY <2>1, <3>1, <3>2 DEF IsFree
  <2>3. CASE sess' = New(sess, x, None, FALSE) /\ UNCHANGED issued
    <3>1. issued' = issued \cup ({None} \ {None})
      BY <2>3
    <3> QED BY <2>1, <2>3, <3>1 DEF IsFree
  <2> QED BY <2>1, <2>2, <2>3
<1>3. /\ conf' = conf /\ sessions' = sessions /\ list' = list /\ expired' = expired
      /\ store' = store /\ redeemed' = redeemed
  BY DEF NewSession
<1>4. /\ issued \subseteq issued' /\ issued' \subseteq Ids /\ expired' \subseteq issued'
      /\ store' \subseteq issued' /\ redeemed' \subseteq issued' /\ id \in issued' \cup {None}
  BY <1>2, <1>3 DEF CacheInv, TypeOK
<1> DEFINE k == [conn[c] EXCEPT !.pc = "hello", !.session = x]
           s == [references |-> 1, session_id |-> id, not_resumable |-> FALSE]
<1>5. /\ k \in Connection /\ k.pc = "hello" /\ k.session = x /\ k.ret = conn[c].ret
      /\ k.r = conn[c].r /\ k.hit = conn[c].hit /\ k.sent_tickets = conn[c].sent_tickets
  BY <1>1 DEF Connection
<1>6. conn' = [conn EXCEPT ![c] = k]
  BY <1>1, <1>2
<1>7. s \in Session /\ s.references = 1 /\ s.session_id = id /\ s.not_resumable = FALSE
  BY DEF Session
<1>8. sess' = [sess EXCEPT ![x] = s]
  BY <1>2 DEF New
<1> HIDE DEF k, s
<1>9. /\ sess' \in [Objects -> Session] /\ sess'[x] = s
      /\ \A y \in Objects : /\ sess'[y].references = sess[y].references + One(x = y)
                            /\ y # x => sess'[y] = sess[y]
  <2> DEFINE n == sess'
  <2>1. n = [sess EXCEPT ![x] = s] /\ sess[x].references = 0
    BY <1>2, <1>8
  <2> HIDE DEF n
  <2>2. /\ n \in [Objects -> Session] /\ n[x] = s
        /\ \A y \in Objects : /\ n[y].references = sess[y].references + One(x = y)
                              /\ y # x => n[y] = sess[y]
    BY <1>1, <1>7, <2>1, NewEffect
  <2> QED BY <2>2 DEF n
<1>10. ShapeOK(k) /\ Own(k) \in {x, None}
  BY <1>1, <1>5 DEF ShapeOK, Own
<1>11. \A y \in Objects : Count(conn[c], y) = 0 /\ Count(k, y) = One(x = y)
  <2> TAKE y \in Objects
  <2>1. Count(k, y) = One(x = y)
    BY <1>5, <1>10, CountOf
  <2>2. Count(conn[c], y) = 0
    BY <1>1, CountOf
  <2> QED BY <2>1, <2>2
<1>12. \A y \in Objects : sess'[y].references = sess[y].references + Count(k, y) - Count(conn[c], y)
  <2> TAKE y \in Objects
  <2>1. sess[y].references \in Nat
    BY Before
  <2> QED BY <1>9, <1>11, <2>1 DEF One
<1>13. Known'
  BY <1>4, <1>7, <1>9 DEF CacheInv, Known
<1>14. Taken(c, k)
  BY <1>2, <1>11 DEF Taken, One
<1>15. Kept(c)
  BY <1>2, <1>9 DEF Kept
<1>16. x \notin Cached(sessions) /\ \A d \in Conns : ~Holds(conn[d], x)
  BY <1>2, Before
<1>17. Settled(c, k)
  BY <1>3, <1>5, <1>7, <1>9, <1>10, <1>16 DEF Settled
<1> QED BY <1>3, <1>4, <1>5, <1>6, <1>9, <1>12, <1>13, <1>14, <1>15, <1>17, QuietStep

\* The ServerHello is made.
LEMMA ServerHelloStep ==
  ASSUME CacheInv, NEW c \in Conns, ServerHello(c)
  PROVE  CacheInv'
<1> DEFINE x == conn[c].session
           pc == IF conf.version = "TLSv1.2" THEN "finish" ELSE "open"
<1>1. /\ conn \in [Conns -> Connection] /\ conn[c] \in Connection /\ ShapeOK(conn[c]) /\ ConnOK(c)
      /\ conn[c].pc = "hello" /\ sess \in [Objects -> Session] /\ None \notin Objects
      /\ sessions \in [Ids -> Objects \cup {None}]
  BY Before DEF ServerHello
<1>2. x \in Objects /\ sess[x] \in Session
  BY <1>1 DEF ShapeOK, Connection
<1>3. /\ conf' = conf /\ sessions' = sessions /\ list' = list /\ expired' = expired
      /\ store' = store /\ redeemed' = redeemed /\ issued' = issued
  BY DEF ServerHello
<1>4. PICK e \in BOOLEAN : conn' = [conn EXCEPT ![c].pc = pc, ![c].echoed = e]
  BY DEF ServerHello
<1> DEFINE k == [conn[c] EXCEPT !.pc = pc, !.echoed = e]
<1>5. /\ k \in Connection /\ k.pc = pc /\ k.session = x /\ k.ret = conn[c].ret
      /\ k.r = conn[c].r /\ k.hit = conn[c].hit /\ k.sent_tickets = conn[c].sent_tickets
      /\ pc \in {"finish", "open"}
  BY <1>1 DEF Connection
<1>6. conn' = [conn EXCEPT ![c] = k]
  BY <1>1, <1>4
<1> HIDE DEF k
<1>7. ShapeOK(k) /\ Own(k) \in {Own(conn[c]), None}
  BY <1>1, <1>5, CacheAssumption DEF ShapeOK, Own
<1>8. \A y \in Objects : Count(conn[c], y) = One(x = y) /\ Count(k, y) = One(x = y)
  <2> TAKE y \in Objects
  <2>1. Count(k, y) = One(x = y)
    BY <1>5, <1>7, CountOf
  <2>2. Count(conn[c], y) = One(x = y)
    BY <1>1, CountOf
  <2> QED BY <2>1, <2>2
<1>9. /\ sess' \in [Objects -> Session]
      /\ \A y \in Objects : /\ sess'[y].references = sess[y].references
                            /\ sess'[y].not_resumable = sess[y].not_resumable
                            /\ y # x => sess'[y] = sess[y]
      /\ sess'[x].session_id = IF sess[x].not_resumable THEN None ELSE sess[x].session_id
  <2>1. CASE sess[x].not_resumable = TRUE
    <3> DEFINE s == [sess[x] EXCEPT !.session_id = None]
    <3>1. s \in Session /\ s.references = sess[x].references /\ s.session_id = None
          /\ s.not_resumable = sess[x].not_resumable
      BY <1>2 DEF Session
    <3>2. sess' = [sess EXCEPT ![x] = s]
      BY <2>1 DEF ServerHello
    <3> HIDE DEF s, x
    <3> QED BY <1>1, <1>2, <2>1, <3>1, <3>2
  <2>2. CASE sess[x].not_resumable = FALSE
    <3>1. sess' = sess
      BY <2>2 DEF ServerHello
    <3> QED BY <1>1, <2>2, <3>1
  <2>3. sess[x].not_resumable \in BOOLEAN
    BY <1>2 DEF Session
  <2> QED BY <2>1, <2>2, <2>3
<1>10. sess[x].not_resumable = FALSE \/ x \notin Cached(sessions)
  <2>1. conf.version = "TLSv1.2" \/ conf.version = "TLSv1.3"
    BY CacheAssumption DEF CacheInv, TypeOK, AllConfigurations
  <2>2. CASE conf.version = "TLSv1.2"
    BY <2>2 DEF CacheInv, TableOK
  <2>3. CASE conf.version = "TLSv1.3"
    BY <1>1, <2>3 DEF ConnOK, IdsOK
  <2> QED BY <2>1, <2>2, <2>3
<1>11. \A y \in Objects : sess'[y].references = sess[y].references + Count(k, y) - Count(conn[c], y)
  <2> TAKE y \in Objects
  <2>1. sess[y].references \in Nat
    BY Before
  <2> QED BY <1>8, <1>9, <2>1 DEF One
<1> HIDE DEF x
<1>12. Known'
  BY <1>2, <1>3, <1>9 DEF CacheInv, Known
<1>13. Taken(c, k)
  BY <1>8 DEF Taken
<1>14. Kept(c)
  <2> SUFFICES ASSUME NEW y \in Objects, y = x, sess[x].not_resumable = TRUE
               PROVE  /\ y \notin Cached(sessions') /\ Count(conn[c], y) > 0
                      /\ sess'[y].session_id \in {sess[y].session_id, None}
    BY <1>2, <1>9 DEF Kept, Session
  <2>1. x \notin Cached(sessions')
    BY <1>3, <1>10
  <2>2. Count(conn[c], x) = 1
    BY <1>2, <1>8 DEF One
  <2> QED BY <1>9, <2>1, <2>2
<1>15. Settled(c, k)
  <2>1. Own(conn[c]) # None =>
          /\ Own(conn[c]) \notin Cached(sessions)
          /\ \A d \in Conns \ {c} : ~Holds(conn[d], Own(conn[c]))
          /\ conf.version = "TLSv1.2" => sess[Own(conn[c])].not_resumable = FALSE
    BY <1>1 DEF ConnOK, OwnOK
  <2>2. Own(conn[c]) \in {x, None}
    BY <1>1 DEF Own, x
  <2> QED BY <1>2, <1>3, <1>5, <1>7, <1>9, <2>1, <2>2 DEF Settled
<1>16. /\ issued \subseteq issued' /\ issued' \subseteq Ids /\ expired' \subseteq issued'
       /\ store' \subseteq issued' /\ redeemed' \subseteq issued'
  BY <1>3 DEF CacheInv, TypeOK
<1> QED BY <1>3, <1>5, <1>6, <1>9, <1>11, <1>12, <1>13, <1>14, <1>15, <1>16, QuietStep

\* A session is about to be added to the cache: the one that the connection has made, or x,
\* which takes its place.
LEMMA AddStep ==
  ASSUME CacheInv, NEW c \in Conns, NEW o \in [Objects -> Session], NEW x \in Objects,
         conn[c].pc \in {"finish", "open"}, BeginAdd(c, o, x),
         conf.version = "TLSv1.3" => conn[c].sent_tickets < MaxTickets,
         UNCHANGED <<conf, sessions, list, expired, store, redeemed>>,
         issued \subseteq issued', issued' \subseteq Ids,
         x = Own(conn[c]) \/ sess[x].references = 0,
         o[x].session_id \in issued', conf.version = "TLSv1.2" => o[x].not_resumable = FALSE,
         \A y \in Objects :
           o[y].references = sess[y].references + One(x = y) - One(conn[c].session = y),
         \A y \in Objects :
           \/ y = x
           \/ o[y].session_id = sess[y].session_id /\ o[y].not_resumable = sess[y].not_resumable
           \/ o[y] = Free
  PROVE  CacheInv'
<1> DEFINE n == IF conf.version = "TLSv1.3" THEN conn[c].sent_tickets + 1 ELSE conn[c].sent_tickets
           k == [conn[c] EXCEPT !.pc = "adding", !.session = x, !.ret = x, !.then = "open",
                                !.sent_tickets = n]
<1>1. /\ conn \in [Conns -> Connection] /\ conn[c] \in Connection /\ ShapeOK(conn[c]) /\ ConnOK(c)
      /\ sess \in [Objects -> Session] /\ None \notin Objects /\ None \notin Ids
  BY Before
<1>2. /\ n \in 0..MaxTickets /\ (conf.version = "TLSv1.2" => n = 0)
      /\ (conf.version = "TLSv1.2" \/ conf.version = "TLSv1.3")
      /\ conf.version = "TLSv1.3" => n # 0
  <2>1. conn[c].sent_tickets \in 0..MaxTickets /\ (conf.version = "TLSv1.2" => conn[c].sent_tickets = 0)
    BY <1>1 DEF Connection, ShapeOK
  <2>2. conf.version = "TLSv1.2" \/ conf.version = "TLSv1.3"
    BY CacheAssumption DEF CacheInv, TypeOK, AllConfigurations
  <2> QED BY <2>1, <2>2, CacheAssumption
<1>3. conn' = [conn EXCEPT ![c] = k]
  BY <1>1 DEF BeginAdd
<1> HIDE DEF n
<1>4. /\ k \in Connection /\ k.pc = "adding" /\ k.session = x /\ k.ret = x /\ k.then = "open"
      /\ k.r = conn[c].r /\ k.sent_tickets = n
  BY <1>1, <1>2 DEF Connection
<1> HIDE DEF k
<1>5. ShapeOK(k) /\ Own(k) = x
  BY <1>1, <1>2, <1>4 DEF ShapeOK, Own
<1>6. \A y \in Objects : /\ Count(conn[c], y) = One(conn[c].session = y)
                         /\ Count(k, y) = One(x = y) + One(x = y)
  <2> TAKE y \in Objects
  <2>1. Count(k, y) = One(x = y) + One(x = y)
    BY <1>4, <1>5, CountOf
  <2>2. Count(conn[c], y) = One(conn[c].session = y)
    BY <1>1, CountOf
  <2> QED BY <2>1, <2>2
<1>7. /\ sess' \in [Objects -> Session]
      /\ \A y \in Objects : /\ sess'[y].references = o[y].references + One(x = y)
                            /\ sess'[y].session_id = o[y].session_id
                            /\ sess'[y].not_resumable = o[y].not_resumable
  <2>1. sess' = tls_SESSION_up_ref(o, x)
    BY DEF BeginAdd
  <2> QED BY <2>1, UpRefEffect
<1>8. \A y \in Objects : sess'[y].references = sess[y].references + Count(k, y) - Count(conn[c], y)
  <2> TAKE y \in Objects
  <2>1. sess[y].references \in Nat
    BY Before
  <2> QED BY <1>6, <1>7, <2>1 DEF One
<1>9. Free.references = 0 /\ Free.session_id = None
  BY DEF Free
<1>10. /\ expired' \subseteq issued' /\ store' \subseteq issued' /\ redeemed' \subseteq issued'
  BY DEF CacheInv, TypeOK
<1>11. Known'
  <2>1. \A y \in Objects : sess[y].session_id \in issued \cup {None}
    BY DEF CacheInv, Known
  <2> QED BY <1>7, <1>9, <2>1 DEF Known
<1>12. x \notin Cached(sessions) /\ \A d \in Conns \ {c} : ~Holds(conn[d], x)
  <2>1. CASE x = Own(conn[c])
    BY <1>1, <2>1 DEF ConnOK, OwnOK
  <2>2. CASE sess[x].references = 0
    BY <2>2, Before
  <2> QED BY <2>1, <2>2
<1>13. Taken(c, k)
  <2> SUFFICES ASSUME NEW y \in Objects, Count(k, y) > 0
               PROVE  Count(conn[c], y) > 0 \/ sess[y].references = 0
    BY DEF Taken
  <2>1. y = x
    BY <1>6 DEF One
  <2>2. CASE x = Own(conn[c])
    BY <1>1, <2>1, <2>2, OwnHeld, CountHolds
  <2> QED BY <2>1, <2>2
<1>14. Kept(c)
  <2> SUFFICES ASSUME NEW y \in Objects, y # x, o[y] = Free PROVE sess'[y].references = 0
    BY <1>7 DEF Kept
  <2> QED BY <1>7, <1>9 DEF One
<1>15. Settled(c, k)
  BY <1>1, <1>4, <1>5, <1>7, <1>12 DEF Settled
<1> QED BY <1>3, <1>4, <1>7, <1>8, <1>10, <1>11, <1>13, <1>14, <1>15, QuietStep

\* The handshake ends (TLSv1.2).
LEMMA FinishStep ==
  ASSUME CacheInv, NEW c \in Conns, Finish(c)
  PROVE  CacheInv'
<1> DEFINE x == conn[c].session
<1>1. /\ conn \in [Conns -> Connection] /\ conn[c] \in Connection /\ ShapeOK(conn[c]) /\ ConnOK(c)
      /\ conn[c].pc = "finish" /\ sess \in [Objects -> Session] /\ None \notin Objects
      /\ conn[c].hit \in BOOLEAN
  BY Before DEF Finish, Connection
<1>2. /\ x \in Objects /\ conf.version = "TLSv1.2" /\ conn[c].sent_tickets = 0
      /\ conn[c].ret = None /\ conn[c].r = None
  BY <1>1 DEF ShapeOK, Connection
<1>3. UNCHANGED <<conf, sessions, list, issued, expired, store, redeemed>>
  BY DEF Finish
<1>4. issued \subseteq issued' /\ issued' \subseteq Ids /\ store' \subseteq issued
  BY <1>3 DEF CacheInv, TypeOK
<1>5. CASE conn' = Go(c, "open") /\ UNCHANGED sess
  <2> DEFINE k == [conn[c] EXCEPT !.pc = "open"]
  <2>1. /\ k \in Connection /\ k.pc = "open" /\ k.session = x /\ k.ret = None /\ k.r = None
        /\ k.sent_tickets = 0
    BY <1>1, <1>2 DEF Connection
  <2>2. conn' = [conn EXCEPT ![c] = k]
    BY <1>1, <1>5 DEF Go
  <2> HIDE DEF k
  <2>3. ShapeOK(k) /\ Own(k) = None
    BY <1>1, <1>2, <2>1 DEF ShapeOK, Own
  <2>4. \A y \in Objects : Count(k, y) = Count(conn[c], y)
    <3> TAKE y \in Objects
    <3>1. Count(k, y) = One(x = y)
      BY <2>1, <2>3, CountOf
    <3>2. Count(conn[c], y) = One(x = y)
      BY <1>1, CountOf
    <3> QED BY <3>1, <3>2
  <2>5. Settled(c, k)
    BY <2>1, <2>3 DEF Settled
  <2> QED BY <1>3, <1>4, <1>5, <2>1, <2>2, <2>4, <2>5, IdleStep
<1>6. CASE conn[c].hit = FALSE /\ sess[x].session_id # None /\ BeginAdd(c, sess, x)
  <2>1. x = Own(conn[c])
    BY <1>1, <1>2, <1>6 DEF Own
  <2>2. sess[x].not_resumable = FALSE
    BY <1>1, <1>2, <2>1 DEF ConnOK, OwnOK
  <2>3. sess[x].session_id \in issued'
    BY <1>2, <1>3, <1>6 DEF CacheInv, Known
  <2>4. \A y \in Objects : sess[y].references = sess[y].references + One(x = y) - One(conn[c].session = y)
    <3> TAKE y \in Objects
    <3>1. sess[y].references \in Nat
      BY Before
    <3> QED BY <3>1 DEF One
  <2> QED BY <1>1, <1>2, <1>3, <1>4, <1>6, <2>1, <2>2, <2>3, <2>4, AddStep
<1> QED BY <1>1, <1>5, <1>6 DEF Finish

\* A NewSessionTicket is made (TLSv1.3).
LEMMA NewTicketStep ==
  ASSUME CacheInv, NEW c \in Conns, NewTicket(c)
  PROVE  CacheInv'
<1> DEFINE x == conn[c].session
<1>1. /\ conn \in [Conns -> Connection] /\ conn[c] \in Connection /\ ShapeOK(conn[c]) /\ ConnOK(c)
      /\ conn[c].pc = "open" /\ conf.version = "TLSv1.3" /\ conn[c].sent_tickets < MaxTickets
      /\ sess \in [Objects -> Session] /\ None \notin Objects /\ None \notin Ids
      /\ conn[c].hit \in BOOLEAN
  BY Before DEF NewTicket, Connection
<1>2. x \in Objects
  BY <1>1 DEF ShapeOK, Connection
<1>3. UNCHANGED <<conf, sessions, list, expired, store, redeemed>>
  BY DEF NewTicket
<1>4. PICK id \in FreshIds :
        /\ issued' = issued \cup {id}
        /\ \/ /\ CopiesSession(c)
              /\ \E y \in Objects :
                   /\ IsFree(y)
                   /\ BeginAdd(c, tls_SESSION_free(New(sess, y, id, sess[x].not_resumable), x), y)
           \/ ~CopiesSession(c) /\ BeginAdd(c, [sess EXCEPT ![x].session_id = id], x)
  BY DEF NewTicket
<1>5. id \in Ids /\ id \in issued' /\ issued \subseteq issued' /\ issued' \subseteq Ids
  BY <1>4 DEF FreshIds, CacheInv, TypeOK
<1>6. ASSUME NEW y \in Objects, IsFree(y),
             BeginAdd(c, tls_SESSION_free(New(sess, y, id, sess[x].not_resumable), x), y)
      PROVE  CacheInv'
  <2> DEFINE s == [references |-> 1, session_id |-> id, not_resumable |-> sess[x].not_resumable]
             n == New(sess, y, id, sess[x].not_resumable)
             o == tls_SESSION_free(n, x)
  <2>1. s \in Session /\ s.references = 1 /\ s.session_id = id
    BY <1>1, <1>2, <1>5 DEF Session
  <2>2. n = [sess EXCEPT ![y] = s] /\ sess[y].references = 0
    BY <1>6 DEF New, IsFree
  <2>3. BeginAdd(c, o, y)
    BY <1>6
  <2> HIDE DEF s, n, o
  <2>4. /\ n \in [Objects -> Session] /\ n[y] = s
        /\ \A z \in Objects : /\ n[z].references = sess[z].references + One(y = z)
                              /\ z # y => n[z] = sess[z]
    BY <1>1, <2>1, <2>2, NewEffect
  <2>5. sess[x].references > 0 /\ x # y /\ n[x].references > 0
    <3>1. Count(conn[c], x) = 1
      BY <1>1, <1>2, CountOf DEF One
    <3>2. /\ sess[x].references >= One(x \in Cached(sessions)) + Count(conn[c], x)
          /\ One(x \in Cached(sessions)) \in Nat /\ sess[x].references \in Nat
      BY <1>2, Before DEF One
    <3>3. sess[x].references > 0
      BY <3>1, <3>2
    <3> QED BY <1>2, <2>2, <2>4, <3>3
  <2>6. /\ o \in [Objects -> Session]
        /\ \A z \in Objects :
             /\ o[z].references = n[z].references - One(x = z)
             /\ \/ o[z].session_id = n[z].session_id /\ o[z].not_resumable = n[z].not_resumable
                \/ o[z] = Free /\ n[z].references = 1
    BY <1>2, <2>4, <2>5, FreeEffect DEF o
  <2>7. o[y].session_id = id
    <3>1. o[y].references = 1
      BY <2>1, <2>4, <2>5, <2>6 DEF One
    <3>2. o[y] # Free
      BY <3>1 DEF Free
    <3> QED BY <2>1, <2>4, <2>6, <3>2
  <2>8. \A z \in Objects : o[z].references = sess[z].references + One(y = z) - One(conn[c].session = z)
    <3> TAKE z \in Objects
    <3>1. sess[z].references \in Nat
      BY Before
    <3> QED BY <2>4, <2>6, <3>1 DEF One
  <2>9. \A z \in Objects :
          \/ z = y
          \/ o[z].session_id = sess[z].session_id /\ o[z].not_resumable = sess[z].not_resumable
          \/ o[z] = Free
    BY <2>4, <2>6
  <2>10. o[y].session_id \in issued' /\ conf.version # "TLSv1.2" /\ conn[c].pc \in {"finish", "open"}
    BY <1>1, <1>5, <2>7
  <2>11. /\ CacheInv /\ c \in Conns /\ y \in Objects /\ sess[y].references = 0
         /\ conf.version = "TLSv1.3" => conn[c].sent_tickets < MaxTickets
    BY <1>1, <2>2
  <2>12. o \in [Objects -> Session]
    BY <2>6
  <2> QED BY ONLY <1>3, <1>5, <2>3, <2>8, <2>9, <2>10, <2>11, <2>12, AddStep
<1>7. ASSUME ~CopiesSession(c), BeginAdd(c, [sess EXCEPT ![x].session_id = id], x)
      PROVE  CacheInv'
  <2> DEFINE s == [sess[x] EXCEPT !.session_id = id]
             o == [sess EXCEPT ![x].session_id = id]
  <2>1. s \in Session /\ s.references = sess[x].references /\ s.session_id = id
    BY <1>1, <1>2, <1>5 DEF Session
  <2>2. o = [sess EXCEPT ![x] = s]
    BY <1>1, <1>2
  <2>3. BeginAdd(c, o, x)
    BY <1>7
  <2>4. x = Own(conn[c])
    BY <1>1, <1>7 DEF Own, CopiesSession
  <2> HIDE DEF s, o
  <2>5. /\ o \in [Objects -> Session] /\ o[x].session_id = id
        /\ \A z \in Objects : /\ o[z].references = sess[z].references
                              /\ z # x => o[z] = sess[z]
    BY <1>1, <1>2, <2>1, <2>2
  <2>6. \A z \in Objects : o[z].references = sess[z].references + One(x = z) - One(conn[c].session = z)
    <3> TAKE z \in Objects
    <3>1. sess[z].references \in Nat
      BY Before
    <3> QED BY <2>5, <3>1 DEF One
  <2>7. \A z \in Objects :
          \/ z = x
          \/ o[z].session_id = sess[z].session_id /\ o[z].not_resumable = sess[z].not_resumable
          \/ o[z] = Free
    BY <2>5
  <2> QED BY <1>1, <1>2, <1>3, <1>5, <2>3, <2>4, <2>5, <2>6, <2>7, AddStep
<1> QED BY <1>4, <1>6, <1>7

\* The new session is given to the external cache.
LEMMA StoreExternalStep ==
  ASSUME CacheInv, NEW c \in Conns, StoreExternal(c)
  PROVE  CacheInv'
<1> DEFINE k == [conn[c] EXCEPT !.pc = "open"]
           x == conn[c].session
<1>1. /\ conn \in [Conns -> Connection] /\ conn[c] \in Connection /\ ShapeOK(conn[c])
      /\ conn[c].pc = "storing"
  BY Before DEF StoreExternal
<1>2. x \in Objects /\ store' \subseteq issued
  <2>1. x \in Objects
    BY <1>1 DEF ShapeOK, Connection
  <2>2. sess[x].session_id \in issued \cup {None} /\ store \subseteq issued
    BY <2>1 DEF CacheInv, Known, TypeOK
  <2> QED BY <2>1, <2>2 DEF StoreExternal
<1>3. /\ k \in Connection /\ k.pc = "open" /\ k.session = x /\ k.ret = conn[c].ret
      /\ k.r = conn[c].r /\ k.hit = conn[c].hit /\ k.sent_tickets = conn[c].sent_tickets
  BY <1>1 DEF Connection
<1>4. conn' = [conn EXCEPT ![c] = k] /\ UNCHANGED <<conf, sess, sessions, list, issued, expired, redeemed>>
  BY <1>1 DEF StoreExternal, Go
<1> HIDE DEF k
<1>5. ShapeOK(k) /\ Own(k) = None
  <2>1. conf.version = "TLSv1.2" \/ conn[c].sent_tickets # 0
    BY <1>1 DEF ShapeOK
  <2> QED BY <1>1, <1>3, <2>1 DEF ShapeOK, Own
<1>6. \A y \in Objects : Count(k, y) = Count(conn[c], y)
  <2> TAKE y \in Objects
  <2>1. Count(k, y) = One(x = y)
    BY <1>3, <1>5, CountOf
  <2>2. Count(conn[c], y) = One(x = y)
    BY <1>1, CountOf
  <2> QED BY <2>1, <2>2
<1>7. Settled(c, k)
  BY <1>3, <1>5 DEF Settled
<1> QED BY <1>2, <1>3, <1>4, <1>6, <1>7, IdleStep

\* A connection is freed.
LEMMA CloseGoodStep ==
  ASSUME CacheInv, NEW c \in Conns, CloseGood(c)
  PROVE  CacheInv'
<1> DEFINE x == conn[c].session
<1>1. /\ conn \in [Conns -> Connection] /\ conn[c] \in Connection /\ ShapeOK(conn[c])
      /\ conn[c].pc \in {"hello", "finish", "open"} /\ sess \in [Objects -> Session]
      /\ None \notin Objects
  BY Before DEF CloseGood, HasSession
<1>2. x \in Objects
  BY <1>1 DEF ShapeOK, Connection
<1>3. ShapeOK(Closed) /\ Own(Closed) = None /\ Closed.pc = "closed" /\ Closed \in Connection
  BY ClosedType DEF ShapeOK, Own, Closed
<1>4. \A y \in Objects : Count(conn[c], y) = One(x = y) /\ Count(Closed, y) = 0
  <2> TAKE y \in Objects
  <2>1. Count(Closed, y) = 0
    BY <1>3, CountOf
  <2>2. Count(conn[c], y) = One(x = y)
    BY <1>1, CountOf
  <2> QED BY <2>1, <2>2
<1>5. sess[x].references > 0
  <2>1. Count(conn[c], x) = 1
    BY <1>2, <1>4 DEF One
  <2>2. /\ sess[x].references >= One(x \in Cached(sessions)) + Count(conn[c], x)
        /\ One(x \in Cached(sessions)) \in Nat /\ sess[x].references \in Nat
    BY <1>2, Before DEF One
  <2> QED BY <2>1, <2>2
<1>6. /\ sess' \in [Objects -> Session]
      /\ \A y \in Objects :
           /\ sess'[y].references = sess[y].references - One(x = y)
           /\ \/ sess'[y].session_id = sess[y].session_id /\ sess'[y].not_resumable = sess[y].not_resumable
              \/ sess'[y] = Free /\ sess[y].references = 1
  <2>1. sess' = tls_SESSION_free(sess, x)
    BY DEF CloseGood
  <2> HIDE DEF x
  <2> QED BY <1>1, <1>2, <1>5, <2>1, FreeEffect
<1>7. /\ conf' = conf /\ sessions' = sessions /\ list' = list /\ expired' = expired
      /\ store' = store /\ redeemed' = redeemed /\ issued' = issued
      /\ conn' = [conn EXCEPT ![c] = Closed]
  BY DEF CloseGood
<1>8. Free.references = 0 /\ Free.session_id = None
  BY DEF Free
<1>9. Known'
  BY <1>6, <1>7, <1>8 DEF CacheInv, Known
<1>10. Taken(c, Closed)
  BY <1>4 DEF Taken
<1>11. Kept(c)
  BY <1>6, <1>8 DEF Kept
<1>12. Settled(c, Closed)
  BY <1>3 DEF Settled
<1>13. \A y \in Objects : sess'[y].references = sess[y].references + Count(Closed, y) - Count(conn[c], y)
  <2> TAKE y \in Objects
  <2>1. sess[y].references \in Nat
    BY Before
  <2> QED BY <1>4, <1>6, <2>1 DEF One
<1>14. /\ issued \subseteq issued' /\ issued' \subseteq Ids /\ expired' \subseteq issued'
       /\ store' \subseteq issued' /\ redeemed' \subseteq issued'
  BY <1>7 DEF CacheInv, TypeOK
<1> QED BY <1>3, <1>6, <1>7, <1>9, <1>10, <1>11, <1>12, <1>13, <1>14, QuietStep

\* The rest of tls_CTX_remove_session.
LEMMA RemovedStep ==
  ASSUME CacheInv, NEW c \in Conns, Removed(c)
  PROVE  CacheInv'
<1> DEFINE k == conn[c]
           of == IF k.then = "close" THEN k.session ELSE k.ret
           freed == tls_SESSION_free(sess, k.r)
           also == IF k.then = "resumed" THEN None ELSE of
           q == CASE k.then = "resumed" -> [k EXCEPT !.pc = "hello", !.r = None, !.session = k.ret,
                                                     !.ret = None, !.hit = TRUE]
                  [] k.then = "missed" -> [k EXCEPT !.pc = "full", !.r = None, !.ret = None]
                  [] k.then = "close" -> Closed
<1>1. /\ conn \in [Conns -> Connection] /\ k \in Connection /\ ShapeOK(k) /\ ConnOK(c)
      /\ k.pc = "removing" /\ sess \in [Objects -> Session] /\ None \notin Objects
  BY Before DEF Removed
<1>2. /\ \/ k.then = "resumed" /\ k.session = None /\ k.ret \in Objects
         \/ k.then = "missed" /\ k.session = None /\ k.ret \in Objects
         \/ k.then = "close" /\ k.ret = None /\ k.session \in Objects
      /\ k.r \in Objects \cup {None} /\ of \in Objects
  BY <1>1 DEF ShapeOK, Connection
<1>3. /\ conf' = conf /\ sessions' = sessions /\ list' = list /\ expired' = expired
      /\ redeemed' = redeemed /\ issued' = issued /\ conn' = [conn EXCEPT ![c] = q]
      /\ store' \subseteq store
      /\ sess' = IF k.then = "resumed" THEN freed ELSE tls_SESSION_free(freed, of)
  BY DEF Removed
<1>4. /\ q \in Connection /\ ShapeOK(q) /\ Own(q) = None
      /\ k.then = "resumed" => q.pc = "hello" /\ q.session = k.ret
      /\ k.then = "missed" => q.pc = "full"
      /\ k.then = "close" => q.pc = "closed"
  <2>1. CASE k.then = "resumed"
    <3>1. q = [k EXCEPT !.pc = "hello", !.r = None, !.session = k.ret, !.ret = None, !.hit = TRUE]
      BY <2>1
    <3> HIDE DEF k, q
    <3>2. /\ q \in Connection /\ q.pc = "hello" /\ q.r = None /\ q.session = k.ret /\ q.ret = None
          /\ q.hit = TRUE /\ q.sent_tickets = k.sent_tickets
      BY <1>1, <3>1 DEF Connection
    <3> QED BY <1>1, <1>2, <2>1, <3>2 DEF ShapeOK, Own
  <2>2. CASE k.then = "missed"
    <3>1. q = [k EXCEPT !.pc = "full", !.r = None, !.ret = None]
      BY <2>2
    <3> HIDE DEF k, q
    <3>2. /\ q \in Connection /\ q.pc = "full" /\ q.r = None /\ q.session = k.session /\ q.ret = None
          /\ q.hit = k.hit /\ q.sent_tickets = k.sent_tickets
      BY <1>1, <3>1 DEF Connection
    <3> QED BY <1>1, <1>2, <2>2, <3>2 DEF ShapeOK, Own
  <2>3. CASE k.then = "close"
    <3>1. q = Closed
      BY <2>3
    <3> HIDE DEF q
    <3> QED BY <2>3, <3>1, ClosedType DEF Closed, ShapeOK, Own
  <2> QED BY <1>2, <2>1, <2>2, <2>3
<1> HIDE DEF q
<1>5. \A y \in Objects :
        /\ Count(k, y) = One(of = y) + One(k.r = y)
        /\ Count(q, y) = One(of = y) - One(also = y)
  <2> TAKE y \in Objects
  <2>1. Count(k, y) = One(of = y) + One(k.r = y)
    BY <1>1, <1>2, CountOf
  <2>2. k.then = "resumed" => Count(q, y) = One(k.ret = y)
    BY <1>4, CountOf
  <2>3. k.then # "resumed" => Count(q, y) = 0
    BY <1>2, <1>4, CountOf
  <2> QED BY <1>1, <1>2, <2>1, <2>2, <2>3 DEF One
<1> HIDE DEF k
<1>6. \A y \in Objects :
        /\ sess[y].references \in Nat /\ sess[y].references >= One(of = y) + One(k.r = y)
  <2> TAKE y \in Objects
  <2>1. /\ sess[y].references \in Nat /\ Count(k, y) \in Nat
        /\ sess[y].references >= One(y \in Cached(sessions)) + Count(k, y)
    BY Before DEF k
  <2> QED BY <1>5, <2>1 DEF One
<1>7. k.r # None => sess[k.r].references > 0
  BY <1>2, <1>6 DEF One
<1>8. /\ freed \in [Objects -> Session]
      /\ \A y \in Objects :
           /\ freed[y].references = sess[y].references - One(k.r = y)
           /\ \/ freed[y].session_id = sess[y].session_id /\ freed[y].not_resumable = sess[y].not_resumable
              \/ freed[y] = Free /\ sess[y].references = 1
  BY <1>1, <1>2, <1>7, FreeEffect
<1> HIDE DEF of, freed
<1>9. also \in Objects \cup {None} /\ also \in {of, None} /\ (also # None => freed[also].references > 0)
  <2>1. freed[of].references > 0
    BY <1>2, <1>6, <1>8 DEF One
  <2> QED BY <1>2, <2>1
<1>10. sess' = tls_SESSION_free(freed, also)
  <2>1. tls_SESSION_free(freed, None) = freed
    BY DEF tls_SESSION_free
  <2> QED BY <1>3, <2>1
<1> HIDE DEF also
<1>11. /\ sess' \in [Objects -> Session]
       /\ \A y \in Objects :
            /\ sess'[y].references = freed[y].references - One(also = y)
            /\ \/ sess'[y].session_id = freed[y].session_id /\ sess'[y].not_resumable = freed[y].not_resumable
               \/ sess'[y] = Free /\ freed[y].references = 1
  BY <1>8, <1>9, <1>10, FreeEffect
<1>12. Free.references = 0 /\ Free.session_id = None
  BY DEF Free
<1>13. \A y \in Objects :
         \/ sess'[y].session_id = sess[y].session_id /\ sess'[y].not_resumable = sess[y].not_resumable
         \/ sess'[y].references = 0 /\ sess'[y].session_id = None
  <2> TAKE y \in Objects
  <2>1. CASE sess'[y] = Free
    BY <1>12, <2>1
  <2>2. CASE freed[y] = Free /\ sess'[y] # Free
    <3>1. also # y
      <4> SUFFICES ASSUME also = y PROVE FALSE
        OBVIOUS
      <4>1. freed[y].references > 0
        BY <1>1, <1>9
      <4> QED BY <1>12, <2>2, <4>1
    <3>2. sess'[y].references = 0 /\ sess'[y].session_id = None
      BY <1>11, <1>12, <2>2, <3>1 DEF One
    <3> QED BY <3>2
  <2>3. CASE freed[y] # Free /\ sess'[y] # Free
    BY <1>8, <1>11, <2>3
  <2> QED BY <2>1, <2>2, <2>3
<1>14. \A y \in Objects : sess'[y].references = sess[y].references + Count(q, y) - Count(conn[c], y)
  BY <1>5, <1>6, <1>8, <1>11 DEF One, k
<1>15. Known'
  BY <1>3, <1>13 DEF CacheInv, Known
<1>16. Taken(c, q)
  BY <1>5 DEF Taken, One, k
<1>17. Kept(c)
  BY <1>13 DEF Kept
<1>18. Settled(c, q)
  <2>1. k.then = "resumed" /\ conf.version = "TLSv1.3" => k.ret \notin Cached(sessions)
    BY <1>1 DEF ConnOK, IdsOK, k
  <2> QED BY <1>2, <1>3, <1>4, <2>1 DEF Settled
<1>19. /\ issued \subseteq issued' /\ issued' \subseteq Ids /\ expired' \subseteq issued'
       /\ store' \subseteq issued' /\ redeemed' \subseteq issued'
  BY <1>3 DEF CacheInv, TypeOK
<1> QED BY <1>3, <1>4, <1>11, <1>14, <1>15, <1>16, <1>17, <1>18, <1>19, QuietStep

\* A session is taken out of the cache.
LEMMA RemoveStep ==
  ASSUME CacheInv, NEW c \in Conns, NEW x, NEW then, RemoveLocked(c, x, then),
         redeemed' \subseteq issued,
         \/ conn[c].pc = "found" /\ x = conn[c].ret /\ then \in {"resumed", "missed"}
         \/ HasSession(c) /\ x = conn[c].session /\ then = "close"
  PROVE  CacheInv'
<1> DEFINE r == Found(x)
           k == [conn[c] EXCEPT !.pc = "removing", !.r = r, !.then = then]
<1>1. /\ conn \in [Conns -> Connection] /\ conn[c] \in Connection /\ ShapeOK(conn[c])
      /\ sess \in [Objects -> Session] /\ sessions \in [Ids -> Objects \cup {None}]
      /\ None \notin Objects /\ None \notin Ids
  BY Before
<1>2. x \in Objects
  BY <1>1 DEF ShapeOK, Connection, HasSession
<1>3. /\ r \in Objects \cup {None} /\ (r # None => r \in Cached(sessions))
      /\ x \in Cached(sessions) => r = x
  <2>1. \A id \in Ids : sessions[id] # None => sess[sessions[id]].session_id = id
    BY DEF CacheInv, TableOK
  <2>2. x \in Cached(sessions) => r = x
    BY <1>1, <2>1, RetrieveEffect DEF Found
  <2>3. sess[x].session_id \in Ids \cup {None}
    BY <1>1, <1>2 DEF Session
  <2>4. r = None \/ (sess[x].session_id \in Ids /\ r = sessions[sess[x].session_id])
    BY <2>3 DEF Found, Retrieve
  <2>5. r # None => r \in Cached(sessions)
    BY <2>4 DEF Cached
  <2> QED BY <1>1, <2>2, <2>4, <2>5
<1>4. /\ conf' = conf /\ issued' = issued /\ expired' = expired /\ store' = store
      /\ sess' = Marked(sess, x) /\ sessions' = Delete(sessions, r) /\ list' = Without(list, {r})
      /\ conn' = [conn EXCEPT ![c].pc = "removing", ![c].r = r, ![c].then = then]
  BY DEF RemoveLocked
<1> HIDE DEF r
<1>5. /\ k \in Connection /\ k.pc = "removing" /\ k.session = conn[c].session /\ k.ret = conn[c].ret
      /\ k.r = r /\ k.then = then /\ k.hit = conn[c].hit /\ k.sent_tickets = conn[c].sent_tickets
  BY <1>1, <1>3 DEF Connection
<1>6. conn' = [conn EXCEPT ![c] = k]
  BY <1>1, <1>4
<1> HIDE DEF k
<1>7. ShapeOK(k) /\ Own(k) = None
  BY <1>1, <1>5 DEF ShapeOK, Own, HasSession
<1>8. \A y \in Objects : /\ Count(conn[c], y) = One(x = y)
                         /\ Count(k, y) = One(x = y) + One(r = y)
  <2> TAKE y \in Objects
  <2>1. Count(conn[c], y) = One(x = y)
    BY <1>1, CountOf DEF HasSession
  <2>2. Count(k, y) = One(x = y) + One(r = y)
    BY <1>5, <1>7, CountOf
  <2> QED BY <2>1, <2>2
<1>9. /\ sess' \in [Objects -> Session]
      /\ \A y \in Objects : /\ sess'[y].references = sess[y].references
                            /\ sess'[y].session_id = sess[y].session_id
                            /\ y # x => sess'[y] = sess[y]
  BY <1>1, <1>2, <1>4, MarkedEffect
<1>10. /\ sessions' \in [Ids -> Objects \cup {None}] /\ Cached(sessions') = Cached(sessions) \ {r}
       /\ \A id \in Ids : sessions'[id] \in {sessions[id], None}
  BY <1>1, <1>3, <1>4, DeleteEffect
<1>11. list' \in Seq(Objects) /\ ListOK'
  <2>1. list \in Seq(Objects) /\ Injective(list) /\ Members(list) = Cached(sessions) /\ Len(list) <= CacheSize
    BY DEF CacheInv, TypeOK, ListOK
  <2>2. /\ list' \in Seq(Objects) /\ Injective(list') /\ Members(list') = Members(list) \ {r}
        /\ Len(list') <= Len(list)
    BY <1>4, <2>1, WithoutMembers
  <2>3. Len(list') \in Nat /\ Len(list) \in Nat /\ CacheSize \in Nat
    BY <2>1, <2>2, CacheAssumption
  <2>4. Len(list') <= CacheSize
    BY <2>1, <2>2, <2>3
  <2> QED BY <1>10, <2>1, <2>2, <2>4 DEF ListOK, Injective, Members, Cached
<1>12. TypeOK'
  <2>1. conn' \in [Conns -> Connection]
    BY <1>1, <1>5, <1>6
  <2>2. /\ conf' \in Configurations /\ issued' \subseteq Ids /\ expired' \subseteq issued'
        /\ store' \subseteq issued' /\ redeemed' \subseteq issued'
    BY <1>4 DEF CacheInv, TypeOK
  <2> QED BY <1>9, <1>10, <1>11, <2>1, <2>2 DEF TypeOK
<1>13. Known'
  BY <1>4, <1>9 DEF CacheInv, Known
<1>14. Balanced(c, k)
  <2> SUFFICES ASSUME NEW y \in Objects
               PROVE  sess'[y].references = sess[y].references + One(y \in Cached(sessions'))
                        - One(y \in Cached(sessions)) + Count(k, y) - Count(conn[c], y)
    BY DEF Balanced
  <2>1. sess[y].references \in Nat
    BY Before
  <2>2. y \in Cached(sessions') <=> y \in Cached(sessions) /\ r # y
    BY <1>10
  <2>3. r = y => y \in Cached(sessions)
    BY <1>1, <1>3
  <2> QED BY <1>8, <1>9, <2>1, <2>2, <2>3 DEF One
<1>15. Taken(c, k)
  <2> SUFFICES ASSUME NEW y \in Objects, Count(k, y) > 0
               PROVE  Count(conn[c], y) > 0 \/ y \in Cached(sessions)
    BY DEF Taken
  <2>1. x = y \/ r = y
    BY <1>8 DEF One
  <2>2. x = y => Count(conn[c], y) = 1
    BY <1>8 DEF One
  <2> QED BY <1>1, <1>3, <2>1, <2>2
<1>16. x \notin Cached(sessions')
  BY <1>3, <1>10
<1>17. Kept(c)
  <2>1. Count(conn[c], x) = 1
    BY <1>2, <1>8 DEF One
  <2> QED BY <1>9, <1>16, <2>1 DEF Kept
<1>18. Entered(c)
  BY <1>10 DEF Entered
<1>19. Settled(c, k)
  <2>1. k.then = "resumed" => k.ret = x
    BY <1>5
  <2> QED BY <1>5, <1>7, <1>16, <2>1 DEF Settled
<1> QED BY <1>4, <1>6, <1>11, <1>12, <1>13, <1>14, <1>15, <1>17, <1>18, <1>19, ConnStep

\* A session that was found is looked at (TLSv1.2).
LEMMA CheckTimeoutStep ==
  ASSUME CacheInv, NEW c \in Conns, CheckTimeout(c)
  PROVE  CacheInv'
<1>1. CASE RemoveLocked(c, conn[c].ret, "missed") /\ UNCHANGED redeemed
  <2>1. redeemed' \subseteq issued /\ conn[c].pc = "found"
    BY <1>1 DEF CheckTimeout, CacheInv, TypeOK
  <2> QED BY <1>1, <2>1, RemoveStep
<1>2. CASE Resume(c)
  BY <1>2, ResumeStep DEF CheckTimeout
<1> QED BY <1>1, <1>2 DEF CheckTimeout

\* A ticket is redeemed (TLSv1.3).
LEMMA CheckReplayStep ==
  ASSUME CacheInv, NEW c \in Conns, CheckReplay(c)
  PROVE  CacheInv'
<1>1. conn[c].pc = "found" /\ conn[c].asked \in issued
  BY Before DEF CheckReplay, ConnOK, IdsOK
<1>2. redeemed' \subseteq issued
  BY <1>1 DEF CheckReplay, CacheInv, TypeOK
<1>3. PICK then \in {"resumed", "missed"} : RemoveLocked(c, conn[c].ret, then)
  BY DEF CheckReplay
<1> QED BY <1>1, <1>2, <1>3, RemoveStep

\* A connection gives its session up and has it removed.
LEMMA CloseBadStep ==
  ASSUME CacheInv, NEW c \in Conns, CloseBad(c)
  PROVE  CacheInv'
<1>1. redeemed' \subseteq issued /\ HasSession(c) /\ RemoveLocked(c, conn[c].session, "close")
  BY DEF CloseBad, CacheInv, TypeOK
<1> QED BY <1>1, RemoveStep

\* A cache with one session too many at most: its objects o, table t and list l.
FullOK(o, t, l) ==
  /\ o \in [Objects -> Session] /\ t \in [Ids -> Objects \cup {None}]
  /\ l \in Seq(Objects) /\ Injective(l) /\ Members(l) = Cached(t) /\ Len(l) <= CacheSize + 1
  /\ \A id \in Ids : t[id] # None => o[t[id]].session_id = id
  /\ \A y \in Cached(t) : o[y].references > 0

\* What is evicted had the reference of the cache.
EvictedOK(o, t, o2, t2, l2) ==
  /\ o2 \in [Objects -> Session] /\ t2 \in [Ids -> Objects \cup {None}]
  /\ l2 \in Seq(Objects) /\ Injective(l2) /\ Members(l2) = Cached(t2)
  /\ Len(l2) <= CacheSize
  /\ \A id \in Ids : t2[id] \in {t[id], None}
  /\ \A y \in Objects :
       o2[y].references = o[y].references + One(y \in Cached(t2)) - One(y \in Cached(t))
  /\ \A y \in Objects :
       \/ o2[y].session_id = o[y].session_id /\ o2[y].not_resumable = o[y].not_resumable
       \/ o2[y] = Free
       \/ /\ y \in Cached(t) /\ y \notin Cached(t2)
          /\ o2[y].session_id = o[y].session_id

\* The cache comes back to its size.
LEMMA EvictedEffect ==
  ASSUME NEW o, NEW t, NEW l, FullOK(o, t, l),
         NEW k, k = [sess |-> o, gone |-> {}, sessions |-> t, list |-> l],
         NEW o2, o2 = Evicted(k).sess, NEW t2, t2 = Evicted(k).sessions, NEW l2, l2 = Evicted(k).list
  PROVE  EvictedOK(o, t, o2, t2, l2)
<1> SUFFICES /\ o2 \in [Objects -> Session] /\ t2 \in [Ids -> Objects \cup {None}]
             /\ l2 \in Seq(Objects) /\ Injective(l2) /\ Members(l2) = Cached(t2)
             /\ Len(l2) <= CacheSize
             /\ \A id \in Ids : t2[id] \in {t[id], None}
             /\ \A y \in Objects :
                  o2[y].references = o[y].references + One(y \in Cached(t2)) - One(y \in Cached(t))
             /\ \A y \in Objects :
                  \/ o2[y].session_id = o[y].session_id /\ o2[y].not_resumable = o[y].not_resumable
                  \/ o2[y] = Free
                  \/ /\ y \in Cached(t) /\ y \notin Cached(t2)
                     /\ o2[y].session_id = o[y].session_id
  BY DEF EvictedOK
<1> /\ o \in [Objects -> Session] /\ t \in [Ids -> Objects \cup {None}]
    /\ l \in Seq(Objects) /\ Injective(l) /\ Members(l) = Cached(t) /\ Len(l) <= CacheSize + 1
    /\ \A id \in Ids : t[id] # None => o[t[id]].session_id = id
    /\ \A y \in Cached(t) : o[y].references > 0
  BY DEF FullOK
<1>1. /\ None \notin Objects /\ CacheSize \in Nat /\ CacheSize > 0 /\ Len(l) \in Nat
      /\ \A y \in Objects : o[y].references \in Nat
  BY CacheAssumption DEF Session
<1>2. Cardinality(Cached(t)) = Len(l)
  BY InjectiveLength
<1>0. k.sess = o /\ k.sessions = t /\ k.list = l
  OBVIOUS
<1>3. CASE Len(l) <= CacheSize
  <2>1. Evicted(k) = k
    BY <1>0, <1>2, <1>3 DEF Evicted
  <2>2. o2 = o /\ t2 = t /\ l2 = l
    BY <1>0, <2>1
  <2>3. \A y \in Objects :
          o2[y].references = o[y].references + One(y \in Cached(t2)) - One(y \in Cached(t))
    BY <1>1, <2>2 DEF One
  <2> QED BY <1>3, <2>2, <2>3
<1>4. CASE ~(Len(l) <= CacheSize)
  <2> DEFINE x == Last(l)
             m == Marked(o, x)
  <2>1. x = l[Len(l)] /\ Len(l) \in 1..Len(l)
    BY <1>1, <1>4 DEF Last
  <2>2. x \in Members(l) /\ x \in Objects /\ x \in Cached(t)
    BY <2>1 DEF Members
  <2>3. Retrieve(o, t, o[x].session_id) = x
    BY <2>2, RetrieveEffect
  <2>4. /\ o2 = tls_SESSION_free(m, x) /\ t2 = Delete(t, x) /\ l2 = Without(l, {x})
    <3>1. ~(Cardinality(Cached(t)) <= CacheSize)
      BY <1>2, <1>4
    <3>2. Evicted(k) = [sess |-> tls_SESSION_free(m, x), gone |-> {o[x].session_id},
                        sessions |-> Delete(t, x), list |-> Without(l, {x})]
      BY <1>0, <2>3, <3>1 DEF Evicted
    <3>3. o2 = Evicted(k).sess /\ t2 = Evicted(k).sessions /\ l2 = Evicted(k).list
      OBVIOUS
    <3> HIDE DEF x, m
    <3> QED BY ONLY <3>2, <3>3
  <2> HIDE DEF x
  <2>5. /\ m \in [Objects -> Session]
        /\ \A y \in Objects : /\ m[y].references = o[y].references
                              /\ m[y].session_id = o[y].session_id
                              /\ y # x => m[y] = o[y]
    BY <2>2, MarkedEffect
  <2> HIDE DEF m
  <2>12. /\ t \in [Ids -> Objects \cup {None}] /\ l \in Seq(Objects) /\ Injective(l)
         /\ m[x].references > 0
    BY <2>2, <2>5
  <2>6. /\ o2 \in [Objects -> Session]
        /\ \A y \in Objects :
             /\ o2[y].references = m[y].references - One(x = y)
             /\ \/ o2[y].session_id = m[y].session_id /\ o2[y].not_resumable = m[y].not_resumable
                \/ o2[y] = Free /\ m[y].references = 1
    BY ONLY <2>2, <2>4, <2>5, <2>12, FreeEffect
  <2>7. /\ t2 \in [Ids -> Objects \cup {None}] /\ Cached(t2) = Cached(t) \ {x}
        /\ \A id \in Ids : t2[id] \in {t[id], None}
    BY ONLY <2>2, <2>4, <2>12, DeleteEffect
  <2>8. /\ l2 \in Seq(Objects) /\ Injective(l2) /\ Members(l2) = Members(l) \ {x}
        /\ Members(l) \cap {x} # {} => Len(l2) < Len(l)
    BY ONLY <2>4, <2>12, WithoutMembers
  <2>9. Len(l2) <= CacheSize
    <3>1. Len(l2) < Len(l) /\ Len(l2) \in Nat
      BY <2>2, <2>8
    <3> QED BY <1>1, <3>1
  <2>10. \A y \in Objects :
           o2[y].references = o[y].references + One(y \in Cached(t2)) - One(y \in Cached(t))
    <3> TAKE y \in Objects
    <3>1. y \in Cached(t2) <=> y \in Cached(t) /\ x # y
      BY <2>7
    <3>2. x = y => y \in Cached(t)
      BY <2>2
    <3>3. o2[y].references = o[y].references - One(x = y) /\ o[y].references \in Nat
      BY <1>1, <2>5, <2>6
    <3> QED BY ONLY <3>1, <3>2, <3>3 DEF One
  <2>11. \A y \in Objects :
           \/ o2[y].session_id = o[y].session_id /\ o2[y].not_resumable = o[y].not_resumable
           \/ o2[y] = Free
           \/ /\ y \in Cached(t) /\ y \notin Cached(t2)
              /\ o2[y].session_id = o[y].session_id
    BY <2>2, <2>5, <2>6, <2>7
  <2> QED BY <2>6, <2>7, <2>8, <2>9, <2>10, <2>11
<1> QED BY <1>3, <1>4

\* After x was inserted: the one that was there under its id has lost the reference of the cache.
InsertedOK(x, o, t) ==
  /\ \A id \in Ids : t[id] = sessions[id] \/ (t[id] = x /\ id = sess[x].session_id)
  /\ x \in Cached(t)
  /\ \A y \in Objects :
       o[y].references = sess[y].references + One(y \in Cached(t)) - One(y \in Cached(sessions))
         - One(x = y)
  /\ \A y \in Objects :
       \/ o[y].session_id = sess[y].session_id /\ o[y].not_resumable = sess[y].not_resumable
       \/ o[y] = Free
  /\ o[x].session_id = sess[x].session_id /\ o[x].not_resumable = sess[x].not_resumable

\* A session is inserted under its id.
LEMMA InsertedEffect ==
  ASSUME CacheInv, NEW x \in Objects, x \notin Cached(sessions), sess[x].references > 0,
         sess[x].session_id \in Ids,
         NEW o, o = tls_SESSION_free(sess, Found(x)),
         NEW t, t = [sessions EXCEPT ![sess[x].session_id] = x],
         NEW l, l = <<x>> \o Without(list, {Found(x)})
  PROVE  FullOK(o, t, l) /\ InsertedOK(x, o, t)
<1> DEFINE i == sess[x].session_id
           f == Found(x)
<1>1. /\ sess \in [Objects -> Session] /\ sessions \in [Ids -> Objects \cup {None}]
      /\ list \in Seq(Objects) /\ Injective(list) /\ Members(list) = Cached(sessions)
      /\ Len(list) <= CacheSize /\ Len(list) \in Nat /\ CacheSize \in Nat
      /\ None \notin Objects /\ \A y \in Objects : sess[y].references \in Nat
      /\ \A id \in Ids : sessions[id] # None => sess[sessions[id]].session_id = id
  BY CacheAssumption DEF CacheInv, TypeOK, ListOK, TableOK, Session
<1>2. f = sessions[i]
  <2>1. \A id \in Ids : Retrieve(sess, sessions, id) = sessions[id]
    BY <1>1, RetrieveEffect
  <2> QED BY <2>1 DEF Found
<1>3. \A y \in Cached(sessions) : y \in Objects /\ sess[y].references > 0
  <2> TAKE y \in Cached(sessions)
  <2>1. y \in Objects
    BY <1>1 DEF Cached
  <2>2. sess[y].references = (IF y \in Cached(sessions) THEN 1 ELSE 0) + Cardinality(Held(conn, y))
    BY <2>1 DEF CacheInv, RefsExact, Holders, Held
  <2> QED BY <2>1, <2>2, Referenced
<1>4. f \in Objects \cup {None} /\ (f # None => f \in Cached(sessions) /\ f # x /\ sess[f].references > 0)
  BY <1>1, <1>2, <1>3 DEF Cached
<1> HIDE DEF f
<1>5. /\ o \in [Objects -> Session]
      /\ \A y \in Objects :
           /\ o[y].references = sess[y].references - One(f = y)
           /\ \/ o[y].session_id = sess[y].session_id /\ o[y].not_resumable = sess[y].not_resumable
              \/ o[y] = Free /\ sess[y].references = 1
  <2>1. o = tls_SESSION_free(sess, f)
    BY DEF f
  <2> QED BY <1>1, <1>4, <2>1, FreeEffect
<1>6. t \in [Ids -> Objects \cup {None}] /\ t[i] = x /\ \A id \in Ids : id # i => t[id] = sessions[id]
  BY <1>1
<1>7. Cached(t) = (Cached(sessions) \ {f}) \cup {x}
  <2>1. \A id \in Ids : sessions[id] = f /\ f # None => id = i
    BY <1>1, <1>2
  <2>2. ASSUME NEW y \in Cached(t)
        PROVE  y \in (Cached(sessions) \ {f}) \cup {x}
    <3>1. PICK id \in Ids : t[id] = y /\ y # None
      BY DEF Cached
    <3>2. CASE id = i
      BY <1>6, <3>1, <3>2
    <3>3. CASE id # i
      BY <1>6, <2>1, <3>1, <3>3 DEF Cached
    <3> QED BY <3>2, <3>3
  <2>3. ASSUME NEW y \in (Cached(sessions) \ {f}) \cup {x}
        PROVE  y \in Cached(t)
    <3>1. CASE y = x
      BY <1>1, <1>6, <3>1 DEF Cached
    <3>2. CASE y # x
      <4>1. PICK id \in Ids : sessions[id] = y /\ y # None /\ y # f
        BY <2>3, <3>2 DEF Cached
      <4>2. id # i
        BY <1>2, <4>1
      <4> QED BY <1>6, <4>1, <4>2 DEF Cached
    <3> QED BY <3>1, <3>2
  <2> QED BY <2>2, <2>3
<1>8. o[x].session_id = i /\ o[x].not_resumable = sess[x].not_resumable /\ o[x].references = sess[x].references
  <2>1. f # x
    BY <1>1, <1>4
  <2>2. o[x].references = sess[x].references
    BY <1>1, <1>5, <2>1 DEF One
  <2>3. o[x] # Free
    BY <2>2 DEF Free
  <2> QED BY <1>5, <2>2, <2>3
<1>9. \A y \in Cached(t) : /\ y \in Objects /\ o[y].references > 0
                           /\ o[y].session_id = sess[y].session_id
  <2> TAKE y \in Cached(t)
  <2>1. y \in Objects /\ f # y /\ sess[y].references > 0
    BY <1>1, <1>3, <1>4, <1>7
  <2>2. o[y].references = sess[y].references
    BY <1>1, <1>5, <2>1 DEF One
  <2>3. o[y] # Free
    BY <2>1, <2>2 DEF Free
  <2> QED BY <1>5, <2>1, <2>2, <2>3
<1>10. \A id \in Ids : t[id] # None => o[t[id]].session_id = id
  <2> SUFFICES ASSUME NEW id \in Ids, t[id] # None PROVE o[t[id]].session_id = id
    OBVIOUS
  <2>1. t[id] \in Cached(t)
    BY DEF Cached
  <2>2. o[t[id]].session_id = sess[t[id]].session_id
    BY <1>9, <2>1
  <2>3. sess[t[id]].session_id = id
    BY <1>1, <1>6
  <2> QED BY <2>2, <2>3
<1>11. /\ l \in Seq(Objects) /\ Injective(l) /\ Members(l) = Cached(t) /\ Len(l) <= CacheSize + 1
  <2> DEFINE w == Without(list, {f})
  <2>1. /\ w \in Seq(Objects) /\ Injective(w) /\ Members(w) = Members(list) \ {f}
        /\ Len(w) <= Len(list)
    BY <1>1, WithoutMembers
  <2>2. l = <<x>> \o w
    BY DEF f
  <2> HIDE DEF w
  <2>3. x \notin Members(w)
    BY <1>1, <2>1
  <2>4. /\ l \in Seq(Objects) /\ Injective(l) /\ Members(l) = Members(w) \cup {x}
        /\ Len(l) = Len(w) + 1
    BY <2>1, <2>2, <2>3, HeadMembers
  <2>5. /\ Len(w) \in Nat /\ Len(w) <= Len(list) /\ Len(list) \in Nat /\ Len(list) <= CacheSize
        /\ CacheSize \in Nat /\ Len(l) = Len(w) + 1
    BY ONLY <1>1, <2>1, <2>4
  <2>6. Len(l) <= CacheSize + 1
    BY ONLY <2>5
  <2> QED BY <1>1, <1>7, <2>1, <2>4, <2>6
<1>12. \A y \in Objects :
         o[y].references = sess[y].references + One(y \in Cached(t)) - One(y \in Cached(sessions))
           - One(x = y)
  <2> TAKE y \in Objects
  <2>1. y \in Cached(t) <=> (y \in Cached(sessions) /\ f # y) \/ x = y
    BY <1>7
  <2>2. f = y => y \in Cached(sessions) /\ x # y
    BY <1>1, <1>4
  <2>3. x = y => y \notin Cached(sessions)
    OBVIOUS
  <2> QED BY <1>1, <1>5, <2>1, <2>2, <2>3 DEF One
<1>13. FullOK(o, t, l)
  BY ONLY <1>5, <1>6, <1>9, <1>10, <1>11 DEF FullOK
<1>14. x \in Cached(t) /\ \A id \in Ids : t[id] = sessions[id] \/ (t[id] = x /\ id = i)
  BY <1>6, <1>7
<1>15. InsertedOK(x, o, t)
  BY ONLY <1>5, <1>8, <1>12, <1>14 DEF InsertedOK
<1> QED BY <1>13, <1>15

\* The session x has given the reference of the cache back, or it is in the table.
Added(x) ==
  /\ sess' \in [Objects -> Session] /\ sessions' \in [Ids -> Objects \cup {None}]
  /\ list' \in Seq(Objects) /\ ListOK'
  /\ \A y \in Objects :
       sess'[y].references = sess[y].references + One(y \in Cached(sessions'))
         - One(y \in Cached(sessions)) - One(x = y)
  /\ \A y \in Objects :
       \/ sess'[y].session_id = sess[y].session_id /\ sess'[y].not_resumable = sess[y].not_resumable
       \/ sess'[y].references = 0 /\ sess'[y].session_id = None
       \/ /\ y \notin Cached(sessions') /\ (y = x \/ y \in Cached(sessions))
          /\ sess'[y].session_id = sess[y].session_id
  /\ \A id \in Ids :
       \/ sessions'[id] \in {sessions[id], None}
       \/ /\ sessions'[id] = x /\ sess'[x].session_id = id
          /\ sess'[x].not_resumable = sess[x].not_resumable

\* tls_CTX_add_session, with the lock held: the session is in the cache, or is not.
LEMMA AddedStep ==
  ASSUME CacheInv, NEW c \in Conns, AddLocked(c), Added(conn[c].ret), store' \subseteq store
  PROVE  CacheInv'
<1> DEFINE x == conn[c].ret
<1>0. /\ conn[c].pc = "adding"
      /\ conn' = [conn EXCEPT
           ![c].pc = IF conn[c].then = "open" /\ conf.external THEN "storing" ELSE conn[c].then,
           ![c].ret = IF conn[c].then = "open" THEN None ELSE @]
      /\ UNCHANGED <<conf, issued, expired, redeemed>>
  BY DEF AddLocked
<1> DEFINE pc == IF conn[c].then = "open" /\ conf.external THEN "storing" ELSE conn[c].then
           ret == IF conn[c].then = "open" THEN None ELSE x
           k == [conn[c] EXCEPT !.pc = pc, !.ret = ret]
<1>1. /\ conn \in [Conns -> Connection] /\ conn[c] \in Connection /\ ShapeOK(conn[c]) /\ ConnOK(c)
      /\ sess \in [Objects -> Session] /\ None \notin Objects
      /\ conn[c].hit \in BOOLEAN /\ x \in Objects
  <2>1. /\ conn \in [Conns -> Connection] /\ conn[c] \in Connection /\ ShapeOK(conn[c]) /\ ConnOK(c)
        /\ sess \in [Objects -> Session] /\ None \notin Objects
    BY Before
  <2> QED BY <1>0, <2>1 DEF Connection, ShapeOK
<1>2. /\ \/ conn[c].then = "found" /\ conn[c].session = None
         \/ conn[c].then = "open" /\ conn[c].session = x
      /\ conn[c].r = None
  BY <1>0, <1>1 DEF ShapeOK
<1>3. /\ conn[c].then = "found" => pc = "found" /\ ret = x
      /\ conn[c].then = "open" => pc \in {"storing", "open"} /\ ret = None
  OBVIOUS
<1>4. conn' = [conn EXCEPT ![c] = k]
  BY <1>0, <1>1
<1> HIDE DEF pc, ret
<1>5. /\ k \in Connection /\ k.pc = pc /\ k.ret = ret /\ k.session = conn[c].session /\ k.r = None
      /\ k.asked = conn[c].asked /\ k.hit = conn[c].hit /\ k.sent_tickets = conn[c].sent_tickets
      /\ k.then = conn[c].then
  <2>1. pc \in {"found", "storing", "open"} /\ ret \in Objects \cup {None}
    BY <1>1, <1>2, <1>3
  <2> QED BY ONLY <1>1, <1>2, <2>1 DEF Connection
<1> HIDE DEF k
<1>6. ShapeOK(k) /\ Own(k) = None
  <2>1. conn[c].then = "open" => conf.version = "TLSv1.2" \/ conn[c].sent_tickets # 0
    BY <1>0, <1>1 DEF ShapeOK
  <2>2. ShapeOK(k)
    BY ONLY <1>1, <1>2, <1>3, <1>5, <2>1 DEF ShapeOK
  <2>3. Own(k) = None
    BY ONLY <1>1, <1>2, <1>3, <1>5, <2>1 DEF Own
  <2> QED BY <2>2, <2>3
<1>7. \A y \in Objects : /\ Count(conn[c], y) = One(x = y) + One(x = y)
                         /\ Count(k, y) = One(x = y)
  <2> TAKE y \in Objects
  <2>1. Count(conn[c], y) = One(x = y) + One(x = y)
    BY <1>0, <1>1, CountOf
  <2>2. Count(k, y) = One(x = y)
    BY <1>2, <1>3, <1>5, <1>6, CountOf
  <2> QED BY <2>1, <2>2
<1>8. x = Own(conn[c])
  BY <1>0 DEF Own
<1>9. /\ conf.version = "TLSv1.2" => sess[x].not_resumable = FALSE
      /\ conn[c].then = "found" => sess[x].session_id \in {conn[c].asked, None} /\ conn[c].asked \in issued
  BY <1>0, <1>1, <1>8 DEF ConnOK, OwnOK, IdsOK
<1>11. TypeOK'
  <2>1. conn' \in [Conns -> Connection]
    BY <1>1, <1>4, <1>5
  <2>2. /\ conf' \in Configurations /\ issued' \subseteq Ids /\ expired' \subseteq issued'
        /\ store' \subseteq issued' /\ redeemed' \subseteq issued'
    BY <1>0 DEF CacheInv, TypeOK
  <2> QED BY <2>1, <2>2 DEF Added, TypeOK
<1> HIDE DEF x
<1>10. Added(x)
  BY DEF x
<1>12. Known'
  BY <1>0, <1>10 DEF CacheInv, Known, Added
<1>13. Balanced(c, k)
  <2> SUFFICES ASSUME NEW y \in Objects
               PROVE  sess'[y].references = sess[y].references + One(y \in Cached(sessions'))
                        - One(y \in Cached(sessions)) + Count(k, y) - Count(conn[c], y)
    BY DEF Balanced
  <2>1. sess[y].references \in Nat
    BY Before
  <2> QED BY <1>7, <1>10, <2>1 DEF One, Added
<1>14. Taken(c, k)
  BY <1>7 DEF Taken, One
<1>15. Kept(c)
  BY <1>8, <1>10 DEF Kept, Added
<1>16. Entered(c)
  BY <1>8, <1>9, <1>10 DEF Entered, Added
<1>17. Settled(c, k)
  <2>1. sess'[x].session_id \in {sess[x].session_id, None}
    BY <1>1, <1>10 DEF Added
  <2> QED BY <1>0, <1>2, <1>3, <1>5, <1>6, <1>9, <2>1 DEF Settled
<1> QED BY <1>0, <1>4, <1>11, <1>12, <1>13, <1>14, <1>15, <1>16, <1>17, ConnStep DEF Added

\* The locked region, which inserts the session or not, does so.
LEMMA AddLockedEffect ==
  ASSUME CacheInv, NEW c \in Conns, AddLocked(c)
  PROVE  Added(conn[c].ret) /\ store' \subseteq store
<1> DEFINE x == conn[c].ret
<1>1. /\ conn \in [Conns -> Connection] /\ conn[c] \in Connection /\ ShapeOK(conn[c]) /\ ConnOK(c)
      /\ conn[c].pc = "adding" /\ sess \in [Objects -> Session] /\ None \notin Objects
      /\ sessions \in [Ids -> Objects \cup {None}]
      /\ \A y \in Objects : sess[y].references \in Nat
  BY Before DEF AddLocked
<1>2. x \in Objects
  BY <1>1 DEF ShapeOK, Connection
<1>3. x \notin Cached(sessions) /\ sess[x].session_id \in Ids
  <2>1. x = Own(conn[c])
    BY <1>1 DEF Own
  <2>2. x \notin Cached(sessions) /\ sess[x].session_id # None
    BY <1>1, <1>2, <2>1 DEF ConnOK, OwnOK, IdsOK
  <2> QED BY <1>1, <1>2, <2>2 DEF Session
<1>4. sess[x].references > 0
  <2>1. Count(conn[c], x) = 2
    BY <1>1, <1>2, CountOf DEF One
  <2>2. /\ sess[x].references >= One(x \in Cached(sessions)) + Count(conn[c], x)
        /\ One(x \in Cached(sessions)) \in Nat
    BY <1>2, Before DEF One
  <2> QED BY <1>1, <1>2, <2>1, <2>2
<1>5. \E k \in {NotInserted(x), Evicted(Inserted(x))} :
        sess' = k.sess /\ sessions' = k.sessions /\ list' = k.list /\ store' \subseteq store
  BY DEF AddLocked
<1> HIDE DEF x
<1>8. CacheInv /\ x \in Objects /\ x \notin Cached(sessions) /\ sess[x].references > 0
      /\ sess[x].session_id \in Ids
  BY <1>2, <1>3, <1>4
<1>6. CASE sess' = NotInserted(x).sess /\ sessions' = NotInserted(x).sessions /\ list' = NotInserted(x).list
           /\ store' \subseteq store
  <2>1. sess' = tls_SESSION_free(sess, x) /\ sessions' = sessions /\ list' = list
    BY <1>6 DEF NotInserted
  <2>2. /\ sess' \in [Objects -> Session]
        /\ \A y \in Objects :
             /\ sess'[y].references = sess[y].references - One(x = y)
             /\ \/ sess'[y].session_id = sess[y].session_id /\ sess'[y].not_resumable = sess[y].not_resumable
                \/ sess'[y] = Free /\ sess[y].references = 1
    BY <1>1, <1>2, <1>4, <2>1, FreeEffect
  <2>3. \A y \in Objects :
          sess'[y].references = sess[y].references + One(y \in Cached(sessions'))
            - One(y \in Cached(sessions)) - One(x = y)
    BY <1>1, <2>1, <2>2 DEF One
  <2>4. list' \in Seq(Objects) /\ ListOK' /\ sessions' \in [Ids -> Objects \cup {None}]
    <3>1. Injective(list)' /\ Members(list)' = Members(list) /\ Cached(sessions)' = Cached(sessions)
      BY <2>1 DEF CacheInv, ListOK, Members, Injective, Cached
    <3> QED BY <2>1, <3>1 DEF CacheInv, ListOK, TypeOK
  <2>5. \A id \in Ids : sessions'[id] \in {sessions[id], None}
    BY <2>1
  <2>6. \A y \in Objects :
          \/ sess'[y].session_id = sess[y].session_id /\ sess'[y].not_resumable = sess[y].not_resumable
          \/ sess'[y].references = 0 /\ sess'[y].session_id = None
    BY <2>2 DEF Free
  <2>7. Added(x)
    BY ONLY <2>2, <2>3, <2>4, <2>5, <2>6 DEF Added
  <2> QED BY <1>6, <2>7 DEF x
<1>7. ASSUME NEW o, o = tls_SESSION_free(sess, Found(x)),
             NEW t, t = [sessions EXCEPT ![sess[x].session_id] = x],
             NEW l, l = <<x>> \o Without(list, {Found(x)}),
             sess' = Evicted(Inserted(x)).sess, sessions' = Evicted(Inserted(x)).sessions,
             list' = Evicted(Inserted(x)).list, store' \subseteq store
      PROVE  Added(conn[c].ret) /\ store' \subseteq store
  <2>1. FullOK(o, t, l) /\ InsertedOK(x, o, t)
    BY ONLY <1>7, <1>8, InsertedEffect
  <2>2. EvictedOK(o, t, sess', sessions', list')
    <3> DEFINE k == Inserted(x)
               o2 == sess'
               t2 == sessions'
               l2 == list'
    <3>1. o2 = Evicted(k).sess /\ t2 = Evicted(k).sessions /\ l2 = Evicted(k).list
      BY <1>7
    <3>2. k = [sess |-> o, gone |-> {}, sessions |-> t, list |-> l]
      BY <1>7 DEF Inserted
    <3> HIDE DEF k, o2, t2, l2
    <3>3. EvictedOK(o, t, o2, t2, l2)
      BY ONLY <2>1, <3>1, <3>2, EvictedEffect
    <3> QED BY <3>3 DEF o2, t2, l2
  <2>3. ListOK'
    BY <2>2 DEF ListOK, Injective, Members, Cached, FullOK, InsertedOK, EvictedOK
  <2>4. Free.references = 0 /\ Free.session_id = None
    BY DEF Free
  <2>5. \A y \in Objects :
          sess'[y].references = sess[y].references + One(y \in Cached(sessions'))
            - One(y \in Cached(sessions)) - One(x = y)
    BY <1>1, <2>1, <2>2 DEF One, FullOK, InsertedOK, EvictedOK
  <2>6. \A y \in Cached(t) : y = x \/ y \in Cached(sessions)
    BY <2>1 DEF Cached, FullOK, InsertedOK, EvictedOK
  <2>7. \A y \in Objects :
          \/ sess'[y].session_id = sess[y].session_id /\ sess'[y].not_resumable = sess[y].not_resumable
          \/ sess'[y].references = 0 /\ sess'[y].session_id = None
          \/ /\ y \notin Cached(sessions') /\ (y = x \/ y \in Cached(sessions))
             /\ sess'[y].session_id = sess[y].session_id
    <3> TAKE y \in Objects
    <3>1. CASE o[y] = Free
      <4>1. y \notin Cached(t) /\ o[y].references = 0 /\ o[y].session_id = None
        BY <2>1, <2>4, <3>1 DEF FullOK, InsertedOK, EvictedOK
      <4>2. y \notin Cached(sessions')
        <5>1. \A id \in Ids : sessions'[id] \in {t[id], None}
          BY <2>2 DEF EvictedOK
        <5> QED BY ONLY <4>1, <5>1 DEF Cached
      <4>3. sess'[y].references = 0
        BY <2>2, <4>1, <4>2 DEF One, FullOK, InsertedOK, EvictedOK
      <4> QED BY <2>2, <2>4, <4>1, <4>3 DEF FullOK, InsertedOK, EvictedOK
    <3>2. CASE o[y] # Free
      BY <2>1, <2>2, <2>4, <2>6, <3>2 DEF FullOK, InsertedOK, EvictedOK
    <3> QED BY <3>1, <3>2
  <2>8. \A id \in Ids :
          \/ sessions'[id] \in {sessions[id], None}
          \/ /\ sessions'[id] = x /\ sess'[x].session_id = id
             /\ sess'[x].not_resumable = sess[x].not_resumable
    <3> SUFFICES ASSUME NEW id \in Ids, sessions'[id] = x, id = sess[x].session_id
                 PROVE  sess'[x].session_id = id /\ sess'[x].not_resumable = sess[x].not_resumable
      BY <2>1, <2>2 DEF FullOK, InsertedOK, EvictedOK
    <3>1. x \in Cached(sessions')
      BY <1>1, <1>2 DEF Cached
    <3>2. o[x].references > 0 /\ o[x].references \in Nat
      BY <1>2, <2>1 DEF Session, FullOK, InsertedOK, EvictedOK
    <3>3. sess'[x].references = o[x].references
      BY <1>2, <2>1, <2>2, <3>1, <3>2 DEF One, FullOK, InsertedOK, EvictedOK
    <3>4. sess'[x] # Free
      BY <2>4, <3>2, <3>3
    <3> QED BY <1>2, <2>1, <2>2, <3>1, <3>4 DEF FullOK, InsertedOK, EvictedOK
  <2>9. Added(x)
    BY ONLY <2>2, <2>3, <2>5, <2>7, <2>8 DEF Added, EvictedOK
  <2> QED BY <1>7, <2>9 DEF x
<1> QED BY <1>5, <1>6, <1>7

\* A session is added to the cache.
LEMMA AddLockedStep ==
  ASSUME CacheInv, NEW c \in Conns, AddLocked(c)
  PROVE  CacheInv'
BY AddLockedEffect, AddedStep

\* tls_CTX_flush_sessions.
LEMMA FlushStep ==
  ASSUME CacheInv, Flush
  PROVE  CacheInv'
<1> DEFINE T == TimedOut
<1>1. /\ sess \in [Objects -> Session] /\ sessions \in [Ids -> Objects \cup {None}]
      /\ list \in Seq(Objects) /\ Injective(list) /\ Members(list) = Cached(sessions)
      /\ Len(list) <= CacheSize /\ Len(list) \in Nat /\ CacheSize \in Nat /\ None \notin Objects
      /\ \A y \in Objects : sess[y].references \in Nat
  BY CacheAssumption DEF CacheInv, TypeOK, ListOK, Session
<1>2. \A y \in Objects :
        sess[y].references = (IF y \in Cached(sessions) THEN 1 ELSE 0) + Cardinality(Held(conn, y))
  BY DEF CacheInv, RefsExact, Holders, Held
<1>3. \A y \in T : y \in Cached(sessions) /\ y \in Objects /\ sess[y].references > 0
  <2> TAKE y \in T
  <2>1. y \in Cached(sessions) /\ y \in Objects
    BY <1>1 DEF TimedOut, Cached
  <2> QED BY <1>2, <2>1, Referenced
<1>4. /\ UNCHANGED <<conf, issued, expired, conn, redeemed>> /\ store' \subseteq store
      /\ list' = Without(list, T)
      /\ sessions' = [id \in Ids |-> IF sessions[id] \in T THEN None ELSE sessions[id]]
      /\ sess' = [y \in Objects |-> IF y \notin T THEN sess[y]
                                    ELSE tls_SESSION_free(Marked(sess, y), y)[y]]
  BY DEF Flush
<1> HIDE DEF T
<1>5. /\ sessions' \in [Ids -> Objects \cup {None}] /\ Cached(sessions') = Cached(sessions) \ T
      /\ \A id \in Ids : sessions'[id] \in {sessions[id], None}
  <2>1. /\ sessions' \in [Ids -> Objects \cup {None}]
        /\ \A id \in Ids : sessions'[id] = IF sessions[id] \in T THEN None ELSE sessions[id]
    BY <1>1, <1>4
  <2>2. None \notin T
    BY <1>1, <1>3
  <2> QED BY <1>1, <2>1, <2>2 DEF Cached
<1>6. \A y \in Objects : y \notin T => sess'[y] = sess[y]
  BY <1>4
<1>7. ASSUME NEW y \in T
      PROVE  /\ sess'[y] \in Session /\ sess'[y].references = sess[y].references - 1
             /\ sess'[y].session_id \in {sess[y].session_id, None}
  <2> DEFINE m == Marked(sess, y)
             f == tls_SESSION_free(m, y)
  <2>1. y \in Objects /\ sess[y].references > 0
    BY <1>3
  <2>2. /\ m \in [Objects -> Session] /\ m[y].references = sess[y].references
        /\ m[y].session_id = sess[y].session_id
    BY <1>1, <2>1, MarkedEffect
  <2> HIDE DEF m
  <2>3. /\ f \in [Objects -> Session] /\ f[y].references = m[y].references - One(y = y)
        /\ \/ f[y].session_id = m[y].session_id
           \/ f[y] = Free
    BY <2>1, <2>2, FreeEffect
  <2>4. sess'[y] = f[y]
    BY <1>4, <2>1 DEF m
  <2> HIDE DEF f
  <2> QED BY <2>1, <2>2, <2>3, <2>4 DEF One, Free
<1>8. sess' \in [Objects -> Session]
  <2>1. \A y \in Objects : sess'[y] \in Session
    BY <1>1, <1>6, <1>7
  <2> QED BY <1>4, <2>1
<1>9. /\ list' \in Seq(Objects) /\ ListOK'
  <2>1. /\ list' \in Seq(Objects) /\ Injective(list') /\ Members(list') = Members(list) \ T
        /\ Len(list') <= Len(list)
    BY <1>1, <1>4, WithoutMembers
  <2>2. Len(list') \in Nat
    BY <2>1
  <2>3. Len(list') <= CacheSize
    BY <1>1, <2>1, <2>2
  <2> QED BY <1>1, <1>5, <2>1, <2>3 DEF ListOK, Injective, Members, Cached
<1>10. TypeOK'
  <2>1. /\ conf' \in Configurations /\ issued' \subseteq Ids /\ expired' \subseteq issued'
        /\ store' \subseteq issued' /\ redeemed' \subseteq issued' /\ conn' \in [Conns -> Connection]
    BY <1>4 DEF CacheInv, TypeOK
  <2> QED BY <1>5, <1>8, <1>9, <2>1 DEF TypeOK
<1>11. RefsExact'
  <2>1. ASSUME NEW y \in Objects
        PROVE  sess'[y].references = (IF y \in Cached(sessions') THEN 1 ELSE 0) + Cardinality(Holders(y))'
    <3>1. Holders(y) = Held(conn, y) /\ Holders(y)' = Held(conn, y)
      BY <1>4 DEF Holders, Held
    <3>2. Cardinality(Holders(y))' = Cardinality(Held(conn, y)) /\ Cardinality(Held(conn, y)) \in Nat
      BY <3>1, HeldFinite
    <3>3. y \in Cached(sessions') <=> y \in Cached(sessions) /\ y \notin T
      BY <1>5
    <3>4. CASE y \in T
      BY <1>2, <1>3, <1>7, <3>2, <3>3, <3>4
    <3>5. CASE y \notin T
      BY <1>2, <1>6, <3>2, <3>3, <3>5
    <3> QED BY <3>4, <3>5
  <2> QED BY <2>1 DEF RefsExact, Cached
<1>12. Known'
  BY <1>4, <1>6, <1>7 DEF CacheInv, Known
<1>13. TableOK' /\ \A d \in Conns : ConnOK(d)'
  <2>1. /\ CacheInv /\ TypeOK' /\ RefsExact' /\ conf' = conf /\ issued \subseteq issued'
        /\ Conns \in SUBSET Conns /\ \A d \in Conns : conn'[d] = conn[d]
    BY <1>4, <1>10, <1>11
  <2>2. \A d \in Conns : Own(conn[d]) \notin {}
    OBVIOUS
  <2>3. \A y \in Objects :
          \/ sess'[y].session_id = sess[y].session_id /\ sess'[y].not_resumable = sess[y].not_resumable
          \/ /\ y \notin Cached(sessions') /\ (y \in {} \/ y \in Cached(sessions))
             /\ sess'[y].session_id \in {sess[y].session_id, None}
    BY <1>3, <1>5, <1>6, <1>7
  <2>4. None \notin Objects /\ \A e \in Conns \ Conns : FALSE
    BY <1>1
  <2> QED BY ONLY <1>5, <2>1, <2>2, <2>3, <2>4, Frame
<1> QED BY <1>9, <1>10, <1>11, <1>12, <1>13 DEF CacheInv

\* Time passes, or nothing happens.
LEMMA QuietInv ==
  ASSUME CacheInv, UNCHANGED <<conf, sess, sessions, list, issued, store, conn, redeemed>>,
         expired' \subseteq issued
  PROVE  CacheInv'
<1>1. TypeOK' /\ RefsExact' /\ TableOK' /\ Known'
  BY DEF CacheInv, TypeOK, RefsExact, TableOK, Known, Holders, Cached
<1>2. ListOK'
  <2>1. Injective(list)' /\ Members(list)' = Members(list) /\ Cached(sessions)' = Cached(sessions)
    BY DEF CacheInv, ListOK, Members, Injective, Cached
  <2> QED BY <2>1 DEF CacheInv, ListOK
<1>3. ASSUME NEW c \in Conns PROVE ConnOK(c)'
  <2>1. ConnOK(c)
    BY DEF CacheInv
  <2>2. ShapeOK(conn[c])'
    BY <2>1 DEF ConnOK, ShapeOK
  <2>3. OwnOK(c)'
    BY <2>1 DEF ConnOK, OwnOK, Own, Cached
  <2>4. IdsOK(c)'
    BY <2>1 DEF ConnOK, IdsOK, Cached
  <2> QED BY <2>2, <2>3, <2>4 DEF ConnOK
<1> QED BY <1>1, <1>2, <1>3 DEF CacheInv

\* The invariant holds at first.
LEMMA InitInv == Init => CacheInv
<1> SUFFICES ASSUME Init PROVE CacheInv
  OBVIOUS
<1>1. /\ conf \in Configurations /\ sess = [x \in Objects |-> Free]
      /\ sessions = [id \in Ids |-> None] /\ list = <<>>
      /\ issued = {} /\ expired = {} /\ store = {} /\ redeemed = {}
      /\ conn = [c \in Conns |-> Closed]
  BY DEF Init
<1>2. Free \in Session /\ Free.references = 0 /\ Free.session_id = None
  BY DEF Free, Session
<1>3. TypeOK
  BY <1>1, <1>2, ClosedType DEF TypeOK
<1>4. Cached(sessions) = {} /\ None \notin Objects
  BY <1>1, CacheAssumption DEF Cached
<1>5. ShapeOK(Closed) /\ Own(Closed) = None /\ Closed.pc = "closed"
  BY DEF ShapeOK, Own, Closed
<1>6. RefsExact
  <2> SUFFICES ASSUME NEW x \in Objects
               PROVE  sess[x].references = (IF x \in Cached(sessions) THEN 1 ELSE 0) + Cardinality(Holders(x))
    BY DEF RefsExact
  <2>1. Holders(x) = {}
    BY <1>1, <1>4 DEF Holders, References, Reference, Closed
  <2>2. Cardinality(Holders(x)) = 0
    BY <2>1, FS_EmptySet
  <2> QED BY <1>1, <1>2, <1>4, <2>2
<1>7. TableOK /\ Known
  BY <1>1, <1>2, <1>4 DEF TableOK, Known
<1>8. ListOK
  BY <1>1, <1>4, CacheAssumption DEF ListOK, Injective, Members
<1>9. \A c \in Conns : ConnOK(c)
  BY <1>1, <1>5 DEF ConnOK, OwnOK, IdsOK
<1> QED BY <1>3, <1>6, <1>7, <1>8, <1>9 DEF CacheInv

\* Every step keeps it.
LEMMA NextInv == CacheInv /\ [Next]_vars => CacheInv'
<1> SUFFICES ASSUME CacheInv, [Next]_vars PROVE CacheInv'
  OBVIOUS
<1>1. ASSUME NEW c \in Conns, Step(c) PROVE CacheInv'
  <2>1. CASE \E id \in Ids : Lookup(c, id)
    BY <2>1, LookupStep
  <2>2. CASE AskForNone(c)
    BY <2>2, AskForNoneStep
  <2>3. CASE AskExternal(c)
    BY <2>3, AskExternalStep
  <2>4. CASE CheckTimeout(c)
    BY <2>4, CheckTimeoutStep
  <2>5. CASE CheckReplay(c)
    BY <2>5, CheckReplayStep
  <2>6. CASE Removed(c)
    BY <2>6, RemovedStep
  <2>7. CASE NewSession(c)
    BY <2>7, NewSessionStep
  <2>8. CASE ServerHello(c)
    BY <2>8, ServerHelloStep
  <2>9. CASE Finish(c)
    BY <2>9, FinishStep
  <2>10. CASE NewTicket(c)
    BY <2>10, NewTicketStep
  <2>11. CASE AddLocked(c)
    BY <2>11, AddLockedStep
  <2>12. CASE StoreExternal(c)
    BY <2>12, StoreExternalStep
  <2>13. CASE CloseBad(c)
    BY <2>13, CloseBadStep
  <2>14. CASE CloseGood(c)
    BY <2>14, CloseGoodStep
  <2> QED BY <1>1, <2>1, <2>2, <2>3, <2>4, <2>5, <2>6, <2>7, <2>8, <2>9, <2>10, <2>11, <2>12, <2>13,
             <2>14 DEF Step
<1>2. CASE Flush
  BY <1>2, FlushStep
<1>3. ASSUME NEW id \in Ids, GrowOld(id) PROVE CacheInv'
  <2>1. expired' \subseteq issued
    BY <1>3 DEF GrowOld, CacheInv, TypeOK
  <2> QED BY <1>3, <2>1, QuietInv DEF GrowOld
<1>4. CASE UNCHANGED vars
  <2>1. expired' \subseteq issued
    BY <1>4 DEF vars, CacheInv, TypeOK
  <2> QED BY <1>4, <2>1, QuietInv DEF vars
<1> QED BY <1>1, <1>2, <1>3, <1>4 DEF Next

\* The invariant is one of the specification.
LEMMA CacheInvariant == Spec => []CacheInv
BY InitInv, NextInv, PTL DEF Spec

(***************************************************************************)
(* For any number of connections, objects and ids, and whichever way the   *)
(* cache is used: no reference count goes below zero, and what is stored   *)
(* or redeemed was issued (ssl_sess.c).                                    *)
(***************************************************************************)
THEOREM CacheTypeCorrect == Spec => []TypeOK
<1>1. CacheInv => TypeOK
  BY DEF CacheInv
<1> QED BY <1>1, CacheInvariant, PTL

(***************************************************************************)
(* The reference count of every tls_SESSION is the number of its users:    *)
(* the cache, and the connections with a pointer to it.  So tls_SESSION_   *)
(* free never frees a session under a thread and never leaves one behind.  *)
(***************************************************************************)
THEOREM RefsAreExact == Spec => []RefsExact
<1>1. CacheInv => RefsExact
  BY DEF CacheInv
<1> QED BY <1>1, CacheInvariant, PTL

(***************************************************************************)
(* The list and the table of the cache hold the same sessions, each once,  *)
(* within its size, and a session in the table keeps the id it is found    *)
(* by (tls_CTX_add_session, remove_session_lock, tls_CTX_flush_sessions).  *)
(***************************************************************************)
THEOREM CacheIsConsistent == Spec => []CacheConsistent
<1>1. CacheInv => CacheConsistent
  <2> SUFFICES ASSUME CacheInv PROVE CacheConsistent
    OBVIOUS
  <2>1. list \in Seq(Objects) /\ Injective(list) /\ Members(list) = Cached(sessions) /\ Len(list) <= CacheSize
    BY DEF CacheInv, TypeOK, ListOK
  <2>2. ToSet(list) = Members(list)
    BY <2>1 DEF ToSet, Members
  <2>3. Cardinality(Members(list)) = Len(list)
    BY <2>1, InjectiveLength
  <2>4. \A id \in Ids : sessions[id] # None => sess[sessions[id]].session_id = id
    BY DEF CacheInv, TableOK
  <2> QED BY <2>1, <2>2, <2>3, <2>4 DEF CacheConsistent
<1> QED BY <1>1, CacheInvariant, PTL

-----------------------------------------------------------------------------
(***************************************************************************)
(* Tickets are redeemed once.  Objects made in the cache alone have ids of *)
(* their own, so that a ticket which was redeemed is not added again; an   *)
(* external cache, which is asked for the same session again and again, is *)
(* left out in TLSv1.3.                                                    *)
(***************************************************************************)
Internal == \A f \in Configurations : f.version = "TLSv1.3" => ~f.external

OnceInv ==
  /\ conf.version = "TLSv1.2" => redeemed = {}
  /\ \A id \in redeemed : sessions[id] = None
  /\ ~conf.external =>
       \A x, y \in Objects : sess[x].session_id = sess[y].session_id /\ x # y => sess[x].session_id = None
  /\ \A c \in Conns : /\ conn[c].pc = "adding" => sess[conn[c].ret].session_id \notin redeemed
                      /\ conn[c].pc = "asking" => conf.external

\* A step that redeems nothing and gives a new id to x0 at most.
SameIds(x0) ==
  \/ conf.external
  \/ \A x \in Objects : \/ sess'[x].session_id \in {sess[x].session_id, None}
                        \/ x = x0 /\ sess'[x].session_id \notin issued

Quietly(x0) ==
  /\ conf' = conf /\ redeemed' = redeemed /\ SameIds(x0)
  /\ \A c \in Conns :
       /\ conn'[c].pc = "adding" => \/ conn[c].pc = "adding" /\ conn'[c].ret = conn[c].ret
                                    \/ conf.version = "TLSv1.2"
                                    \/ sess'[conn'[c].ret].session_id \notin redeemed
       /\ conn'[c].pc = "asking" => conf.external

Dropping == \A id \in Ids : sessions'[id] \in {sessions[id], None}

\* Such a step keeps the invariant.
LEMMA OnceStep ==
  ASSUME Internal, CacheInv, CacheInv', OnceInv, NEW x0, Quietly(x0),
         \A id \in Ids : sessions'[id] \in {sessions[id], None} \/ id \notin redeemed
  PROVE  OnceInv'
<1>1. /\ redeemed \subseteq issued /\ issued \subseteq Ids /\ None \notin Ids
      /\ conf.version = "TLSv1.2" \/ (conf.version = "TLSv1.3" /\ ~conf.external)
      /\ conf' = conf /\ redeemed' = redeemed
      /\ \A x \in Objects : sess[x].session_id \in issued \cup {None}
  BY CacheAssumption DEF CacheInv, TypeOK, Known, AllConfigurations, Internal, Quietly
<1>2. conf'.version = "TLSv1.2" => redeemed' = {}
  BY <1>1 DEF OnceInv
<1>3. \A id \in redeemed' : sessions'[id] = None
  BY <1>1 DEF OnceInv
<1>4. ASSUME ~conf'.external, NEW x \in Objects, NEW y \in Objects,
             sess'[x].session_id = sess'[y].session_id, x # y
      PROVE  sess'[x].session_id = None
  <2>1. /\ sess'[x].session_id \in {sess[x].session_id, None} \/ (x = x0 /\ sess'[x].session_id \notin issued)
        /\ sess'[y].session_id \in {sess[y].session_id, None} \/ (y = x0 /\ sess'[y].session_id \notin issued)
    BY <1>1, <1>4 DEF Quietly, SameIds
  <2>2. sess[x].session_id = sess[y].session_id => sess[x].session_id = None
    BY <1>1, <1>4 DEF OnceInv
  <2> QED BY <1>1, <1>4, <2>1, <2>2
<1>5. ASSUME NEW c \in Conns, conn'[c].pc = "adding"
      PROVE  sess'[conn'[c].ret].session_id \notin redeemed'
  <2>1. CASE conf.version = "TLSv1.2"
    BY <1>1, <2>1 DEF OnceInv
  <2>2. CASE conf.version = "TLSv1.3" /\ conn[c].pc = "adding" /\ conn'[c].ret = conn[c].ret
    <3>1. conn[c].ret \in Objects
      BY <2>2, Before DEF ShapeOK, Connection
    <3>2. \/ sess'[conn[c].ret].session_id \in {sess[conn[c].ret].session_id, None}
          \/ sess'[conn[c].ret].session_id \notin issued
      BY <1>1, <2>2, <3>1 DEF Quietly, SameIds
    <3>3. sess[conn[c].ret].session_id \notin redeemed
      BY <2>2 DEF OnceInv
    <3> QED BY <1>1, <2>2, <3>2, <3>3
  <2> QED BY <1>1, <1>5, <2>1, <2>2 DEF Quietly
<1>6. \A c \in Conns : conn'[c].pc = "asking" => conf'.external
  BY <1>1 DEF Quietly
<1> QED BY <1>2, <1>3, <1>4, <1>5, <1>6 DEF OnceInv

\* The tickets on offer are those in the table.
LEMMA Offered ==
  ASSUME NEW o, NEW t \in [Ids -> Objects \cup {None}],
         \A id \in Ids : t[id] # None => o[t[id]].session_id = id
  PROVE  {id \in Ids : Retrieve(o, t, id) # None} = {id \in Ids : t[id] # None}
<1>1. \A id \in Ids : Retrieve(o, t, id) = t[id]
  BY RetrieveEffect
<1> QED BY <1>1

\* So before a step.
LEMMA OfferedNow ==
  ASSUME CacheInv
  PROVE  {id \in Ids : Retrieve(sess, sessions, id) # None} = {id \in Ids : sessions[id] # None}
BY Offered DEF CacheInv, TypeOK, TableOK

\* And after a step.
LEMMA OfferedNext ==
  ASSUME CacheInv'
  PROVE  {id \in Ids : Retrieve(sess', sessions', id) # None} = {id \in Ids : sessions'[id] # None}
BY Offered DEF CacheInv, TypeOK, TableOK

\* Nothing comes on offer.
LEMMA DropStep ==
  ASSUME CacheInv, CacheInv', redeemed' = redeemed, Dropping
  PROVE  Tickets!Next
<1> DEFINE a == {id \in Ids : sessions[id] # None}
           b == {id \in Ids : sessions'[id] # None}
<1>1. b = a \ (a \ b) /\ a \ b \in SUBSET a
  BY DEF Dropping
<1>2. /\ {id \in Ids : Retrieve(sess, sessions, id) # None} = a
      /\ {id \in Ids : Retrieve(sess', sessions', id) # None} = b
  BY OfferedNow, OfferedNext
<1> HIDE DEF a, b
<1> QED BY <1>1, <1>2 DEF Tickets!Next, Tickets!Drop

\* The ticket i comes on offer.
LEMMA OfferStep ==
  ASSUME CacheInv, CacheInv', redeemed' = redeemed, NEW i \in Ids, i \notin redeemed,
         \A id \in Ids : sessions'[id] \in {sessions[id], None} \/ id = i
  PROVE  Tickets!Next
<1> DEFINE a == {id \in Ids : sessions[id] # None}
           b == {id \in Ids : sessions'[id] # None}
           dropped == (a \cup {i}) \ b
<1>1. b = (a \cup {i}) \ dropped /\ dropped \in SUBSET (a \cup {i})
  OBVIOUS
<1>2. /\ {id \in Ids : Retrieve(sess, sessions, id) # None} = a
      /\ {id \in Ids : Retrieve(sess', sessions', id) # None} = b
  BY OfferedNow, OfferedNext
<1> HIDE DEF a, b, dropped
<1>3. Tickets!Offer(i)
  BY <1>1, <1>2 DEF Tickets!Offer
<1> QED BY <1>3 DEF Tickets!Next

\* An object whatever its count.
Counted == [references : Int, session_id : Ids \cup {None}, not_resumable : BOOLEAN]

\* tls_SESSION_free changes no id but to remove it, whatever the counts.
LEMMA FreeIds ==
  ASSUME NEW o \in [Objects -> Counted], NEW x \in Objects \cup {None}
  PROVE  /\ tls_SESSION_free(o, x) \in [Objects -> Counted]
         /\ \A y \in Objects : tls_SESSION_free(o, x)[y].session_id \in {o[y].session_id, None}
<1>1. Free \in Counted /\ Free.session_id = None
  BY DEF Free, Counted
<1>2. CASE tls_SESSION_free(o, x) = o
  BY <1>2
<1>3. CASE x \in Objects /\ tls_SESSION_free(o, x) = [o EXCEPT ![x] = Free]
  BY <1>1, <1>3
<1>4. CASE x \in Objects /\ tls_SESSION_free(o, x) = [o EXCEPT ![x].references = @ - 1]
  <2> DEFINE s == [o[x] EXCEPT !.references = o[x].references - 1]
  <2>1. s \in Counted /\ s.session_id = o[x].session_id
    BY <1>4 DEF Counted
  <2>2. tls_SESSION_free(o, x) = [o EXCEPT ![x] = s]
    BY <1>4
  <2> HIDE DEF s
  <2> QED BY <1>4, <2>1, <2>2
<1> QED BY <1>2, <1>3, <1>4 DEF tls_SESSION_free

\* The objects of the invariant.
LEMMA SessCounted ==
  ASSUME CacheInv
  PROVE  sess \in [Objects -> Session] /\ sess \in [Objects -> Counted]
<1>1. sess \in [Objects -> Session]
  BY DEF CacheInv, TypeOK
<1>2. \A x \in Objects : sess[x] \in Counted
  BY <1>1 DEF Session, Counted
<1> QED BY <1>1, <1>2

\* A step that only c takes, after which it is not adding or asking unless as below.
LEMMA QuietConn ==
  ASSUME OnceInv, conn \in [Conns -> Connection], NEW c \in Conns, NEW k, conn' = [conn EXCEPT ![c] = k],
         conf' = conf, redeemed' = redeemed, NEW x0, SameIds(x0),
         k.pc = "adding" => conf.version = "TLSv1.2" \/ sess'[k.ret].session_id \notin redeemed,
         k.pc = "asking" => conf.external
  PROVE  Quietly(x0)
<1>1. conn'[c] = k /\ \A d \in Conns \ {c} : conn'[d] = conn[d]
  OBVIOUS
<1> QED BY <1>1 DEF Quietly, OnceInv

\* A session is looked up, and what was found is taken.
LEMMA LookupQuiet ==
  ASSUME CacheInv, OnceInv, NEW c \in Conns, NEW id \in Ids, Lookup(c, id)
  PROVE  Quietly(None) /\ Dropping
<1> DEFINE x == Retrieve(sess, sessions, id)
           pc == IF x # None THEN "found" ELSE IF conf.external THEN "asking" ELSE "full"
           k == [Closed EXCEPT !.asked = id, !.ret = x, !.pc = pc]
<1>1. conn \in [Conns -> Connection] /\ sess \in [Objects -> Session]
      /\ sessions \in [Ids -> Objects \cup {None}]
  BY Before
<1>2. conn' = [conn EXCEPT ![c] = k] /\ conf' = conf /\ redeemed' = redeemed /\ sessions' = sessions
  BY DEF Lookup
<1>3. x \in Objects \cup {None}
  BY <1>1 DEF Retrieve
<1>4. SameIds(None)
  <2>1. CASE x = None
    <3>1. sess' = sess
      BY <2>1 DEF Lookup
    <3> QED BY <3>1 DEF SameIds
  <2>2. CASE x # None
    <3>1. sess' = tls_SESSION_up_ref(sess, x) /\ x \in Objects
      BY <1>3, <2>2 DEF Lookup
    <3> HIDE DEF x
    <3>2. \A y \in Objects : sess'[y].session_id = sess[y].session_id
      BY <1>1, <3>1, UpRefEffect
    <3> QED BY <3>2 DEF SameIds
  <2> QED BY <2>1, <2>2
<1> HIDE DEF x
<1>5. k.pc = pc
  BY DEF Closed
<1> HIDE DEF k
<1>6. Quietly(None)
  BY <1>1, <1>2, <1>4, <1>5, QuietConn
<1> QED BY <1>2, <1>6 DEF Dropping

\* The steps that change no session.
LEMMA IdleQuiet ==
  ASSUME CacheInv, OnceInv, NEW c \in Conns, NEW k, conn' = [conn EXCEPT ![c] = k],
         k.pc \notin {"adding", "asking"}, UNCHANGED <<conf, sess, sessions, redeemed>>
  PROVE  Quietly(None) /\ Dropping
<1>1. SameIds(None) /\ Dropping
  BY DEF SameIds, Dropping
<1>2. conn \in [Conns -> Connection]
  BY Before
<1> QED BY <1>1, <1>2, QuietConn

\* No session is asked for.
LEMMA AskForNoneQuiet ==
  ASSUME CacheInv, OnceInv, NEW c \in Conns, AskForNone(c)
  PROVE  Quietly(None) /\ Dropping
<1> DEFINE k == [Closed EXCEPT !.pc = "full"]
<1>1. /\ conn' = [conn EXCEPT ![c] = k] /\ UNCHANGED <<conf, sess, sessions, redeemed>>
      /\ k.pc \notin {"adding", "asking"}
  BY DEF AskForNone, Closed
<1> QED BY <1>1, IdleQuiet

\* The session that was found is taken.
LEMMA ResumeQuiet ==
  ASSUME CacheInv, OnceInv, NEW c \in Conns, Resume(c)
  PROVE  Quietly(None) /\ Dropping
<1> DEFINE k == [conn[c] EXCEPT !.pc = "hello", !.session = conn[c].ret, !.ret = None, !.hit = TRUE]
<1>1. conn \in [Conns -> Connection] /\ conn[c] \in Connection
  BY Before
<1>2. /\ conn' = [conn EXCEPT ![c] = k] /\ UNCHANGED <<conf, sess, sessions, redeemed>>
      /\ k.pc \notin {"adding", "asking"}
  BY <1>1 DEF Resume, Connection
<1> QED BY <1>2, IdleQuiet

\* The external cache is asked only where there is one.
LEMMA AskExternalQuiet ==
  ASSUME Internal, CacheInv, OnceInv, NEW c \in Conns, AskExternal(c)
  PROVE  Quietly(None) /\ Dropping
<1>1. /\ conn \in [Conns -> Connection] /\ conn[c] \in Connection
  BY Before
<1>2. /\ conf' = conf /\ redeemed' = redeemed /\ sessions' = sessions
      /\ conf.external /\ conf.version = "TLSv1.2"
  BY CacheAssumption DEF AskExternal, OnceInv, CacheInv, TypeOK, AllConfigurations, Internal
<1>3. SameIds(None)
  BY <1>2 DEF SameIds
<1>4. CASE conn' = Go(c, "full")
  <2> DEFINE k == [conn[c] EXCEPT !.pc = "full"]
  <2>1. conn' = [conn EXCEPT ![c] = k]
    BY <1>1, <1>4 DEF Go
  <2> HIDE DEF k
  <2> QED BY <1>1, <1>2, <1>3, <2>1, QuietConn DEF Dropping
<1>5. ASSUME NEW x \in Objects,
             conn' = [conn EXCEPT ![c].pc = "adding", ![c].ret = x, ![c].then = "found"]
      PROVE  Quietly(None) /\ Dropping
  <2> DEFINE k == [conn[c] EXCEPT !.pc = "adding", !.ret = x, !.then = "found"]
  <2>1. conn' = [conn EXCEPT ![c] = k]
    BY <1>1, <1>5
  <2> HIDE DEF k
  <2> QED BY <1>1, <1>2, <1>3, <2>1, QuietConn DEF Dropping
<1> QED BY <1>4, <1>5 DEF AskExternal

\* A session is taken out of the cache, and none is redeemed.
LEMMA RemoveQuiet ==
  ASSUME CacheInv, OnceInv, NEW c \in Conns, NEW x \in Objects, NEW then, RemoveLocked(c, x, then)
  PROVE  /\ Dropping /\ SameIds(None)
         /\ redeemed' = redeemed => Quietly(None)
<1> DEFINE k == [conn[c] EXCEPT !.pc = "removing", !.r = Found(x), !.then = then]
<1>1. /\ conn \in [Conns -> Connection] /\ conn[c] \in Connection /\ sess \in [Objects -> Session]
      /\ sessions \in [Ids -> Objects \cup {None}]
  BY Before
<1>2. /\ conn' = [conn EXCEPT ![c] = k] /\ conf' = conf /\ sess' = Marked(sess, x)
      /\ sessions' = Delete(sessions, Found(x))
  BY <1>1 DEF RemoveLocked
<1>3. k.pc = "removing"
  BY <1>1 DEF Connection
<1> HIDE DEF k
<1>4. \A y \in Objects : sess'[y].session_id = sess[y].session_id
  BY <1>1, <1>2, MarkedEffect
<1>5. SameIds(None)
  BY <1>4 DEF SameIds
<1>6. Dropping
  BY <1>2 DEF Delete, Dropping
<1> QED BY <1>1, <1>2, <1>3, <1>5, <1>6, QuietConn

\* A session that was found is looked at.
LEMMA CheckTimeoutQuiet ==
  ASSUME CacheInv, OnceInv, NEW c \in Conns, CheckTimeout(c)
  PROVE  Quietly(None) /\ Dropping
<1>1. CASE RemoveLocked(c, conn[c].ret, "missed") /\ UNCHANGED redeemed
  <2>1. conn[c].ret \in Objects
    BY Before DEF CheckTimeout, ShapeOK, Connection
  <2> QED BY <1>1, <2>1, RemoveQuiet
<1>2. CASE Resume(c)
  BY <1>2, ResumeQuiet
<1> QED BY <1>1, <1>2 DEF CheckTimeout

\* A connection gives its session up and has it removed.
LEMMA CloseBadQuiet ==
  ASSUME CacheInv, OnceInv, NEW c \in Conns, CloseBad(c)
  PROVE  Quietly(None) /\ Dropping
<1>1. conn[c].session \in Objects
  BY Before DEF CloseBad, HasSession, ShapeOK, Connection
<1>2. RemoveLocked(c, conn[c].session, "close") /\ redeemed' = redeemed
  BY DEF CloseBad
<1> QED BY <1>1, <1>2, RemoveQuiet

\* A connection is freed.
LEMMA CloseGoodQuiet ==
  ASSUME CacheInv, OnceInv, NEW c \in Conns, CloseGood(c)
  PROVE  Quietly(None) /\ Dropping
<1>1. conn \in [Conns -> Connection] /\ conn[c].session \in Objects
  BY Before DEF CloseGood, HasSession, ShapeOK, Connection
<1>2. /\ sess' = tls_SESSION_free(sess, conn[c].session) /\ conn' = [conn EXCEPT ![c] = Closed]
      /\ conf' = conf /\ redeemed' = redeemed /\ sessions' = sessions /\ Closed.pc = "closed"
  BY DEF CloseGood, Closed
<1>3. \A y \in Objects : sess'[y].session_id \in {sess[y].session_id, None}
  BY <1>1, <1>2, SessCounted, FreeIds
<1>4. SameIds(None)
  BY <1>3 DEF SameIds
<1> QED BY <1>1, <1>2, <1>4, QuietConn DEF Dropping

\* The new session is given to the external cache.
LEMMA StoreExternalQuiet ==
  ASSUME CacheInv, OnceInv, NEW c \in Conns, StoreExternal(c)
  PROVE  Quietly(None) /\ Dropping
<1> DEFINE k == [conn[c] EXCEPT !.pc = "open"]
<1>1. conn \in [Conns -> Connection] /\ conn[c] \in Connection
  BY Before
<1>2. /\ conn' = [conn EXCEPT ![c] = k] /\ UNCHANGED <<conf, sess, sessions, redeemed>>
      /\ k.pc \notin {"adding", "asking"}
  BY <1>1 DEF StoreExternal, Go, Connection
<1> QED BY <1>2, IdleQuiet

\* The rest of tls_CTX_remove_session.
LEMMA RemovedQuiet ==
  ASSUME CacheInv, OnceInv, NEW c \in Conns, Removed(c)
  PROVE  Quietly(None) /\ Dropping
<1> DEFINE k == conn[c]
           of == IF k.then = "close" THEN k.session ELSE k.ret
           freed == tls_SESSION_free(sess, k.r)
           q == CASE k.then = "resumed" -> [k EXCEPT !.pc = "hello", !.r = None, !.session = k.ret,
                                                     !.ret = None, !.hit = TRUE]
                  [] k.then = "missed" -> [k EXCEPT !.pc = "full", !.r = None, !.ret = None]
                  [] k.then = "close" -> Closed
<1>1. /\ conn \in [Conns -> Connection] /\ k \in Connection /\ ShapeOK(k) /\ k.pc = "removing"
  BY Before DEF Removed
<1>2. /\ \/ k.then = "resumed" \/ k.then = "missed" \/ k.then = "close"
      /\ k.r \in Objects \cup {None} /\ of \in Objects \cup {None}
  BY <1>1 DEF ShapeOK, Connection
<1>3. /\ conf' = conf /\ sessions' = sessions /\ redeemed' = redeemed /\ conn' = [conn EXCEPT ![c] = q]
      /\ sess' = IF k.then = "resumed" THEN freed ELSE tls_SESSION_free(freed, of)
  BY DEF Removed
<1>4. q.pc \in {"hello", "full", "closed"}
  <2>1. CASE k.then = "resumed"
    <3>1. q = [k EXCEPT !.pc = "hello", !.r = None, !.session = k.ret, !.ret = None, !.hit = TRUE]
      BY <2>1
    <3> HIDE DEF k, q
    <3> QED BY <1>1, <3>1 DEF Connection
  <2>2. CASE k.then = "missed"
    <3>1. q = [k EXCEPT !.pc = "full", !.r = None, !.ret = None]
      BY <2>2
    <3> HIDE DEF k, q
    <3> QED BY <1>1, <3>1 DEF Connection
  <2>3. CASE k.then = "close"
    <3>1. q = Closed
      BY <2>3
    <3> HIDE DEF q
    <3> QED BY <3>1 DEF Closed
  <2> QED BY <1>2, <2>1, <2>2, <2>3
<1> HIDE DEF q, k, of
<1>5. /\ freed \in [Objects -> Counted]
      /\ \A y \in Objects : freed[y].session_id \in {sess[y].session_id, None}
  BY <1>2, SessCounted, FreeIds
<1> HIDE DEF freed
<1>6. \A y \in Objects : tls_SESSION_free(freed, of)[y].session_id \in {freed[y].session_id, None}
  BY <1>2, <1>5, FreeIds
<1>7. SameIds(None)
  BY <1>3, <1>5, <1>6 DEF SameIds
<1> QED BY <1>1, <1>3, <1>4, <1>7, QuietConn DEF Dropping

\* A new session has an id of its own.
LEMMA NewSessionQuiet ==
  ASSUME CacheInv, OnceInv, NEW c \in Conns, NewSession(c)
  PROVE  (\E x0 : Quietly(x0)) /\ Dropping
<1>1. conn \in [Conns -> Connection] /\ conn[c] \in Connection /\ sess \in [Objects -> Session]
  BY Before
<1>2. PICK x \in Objects :
        /\ conn' = [conn EXCEPT ![c].pc = "hello", ![c].session = x]
        /\ \E id \in FreshIds \cup {None} : sess' = New(sess, x, id, FALSE)
  BY DEF NewSession
<1>3. PICK id \in FreshIds \cup {None} : sess' = New(sess, x, id, FALSE)
  BY <1>2
<1>4. conf' = conf /\ sessions' = sessions /\ redeemed' = redeemed
  BY DEF NewSession
<1> DEFINE k == [conn[c] EXCEPT !.pc = "hello", !.session = x]
<1>5. conn' = [conn EXCEPT ![c] = k] /\ k.pc = "hello"
  BY <1>1, <1>2 DEF Connection
<1> HIDE DEF k
<1>6. SameIds(x)
  BY <1>1, <1>3 DEF SameIds, New, FreshIds
<1>7. Quietly(x)
  BY <1>1, <1>4, <1>5, <1>6, QuietConn
<1> QED BY <1>4, <1>7 DEF Dropping

\* The ServerHello is made.
LEMMA ServerHelloQuiet ==
  ASSUME CacheInv, OnceInv, NEW c \in Conns, ServerHello(c)
  PROVE  Quietly(None) /\ Dropping
<1> DEFINE x == conn[c].session
           pc == IF conf.version = "TLSv1.2" THEN "finish" ELSE "open"
<1>1. conn \in [Conns -> Connection] /\ conn[c] \in Connection /\ sess \in [Objects -> Session]
      /\ x \in Objects
  BY Before DEF ServerHello, ShapeOK, Connection
<1>2. PICK e \in BOOLEAN : conn' = [conn EXCEPT ![c].pc = pc, ![c].echoed = e]
  BY DEF ServerHello
<1>3. /\ conf' = conf /\ sessions' = sessions /\ redeemed' = redeemed
      /\ sess' \in {sess, [sess EXCEPT ![x].session_id = None]}
  BY DEF ServerHello
<1> DEFINE k == [conn[c] EXCEPT !.pc = pc, !.echoed = e]
<1>4. conn' = [conn EXCEPT ![c] = k] /\ k.pc \in {"finish", "open"}
  BY <1>1, <1>2 DEF Connection
<1> HIDE DEF k, x
<1>5. \A y \in Objects : sess'[y].session_id \in {sess[y].session_id, None}
  <2>1. CASE sess' = sess
    BY <2>1
  <2>2. CASE sess' = [sess EXCEPT ![x].session_id = None]
    BY <1>1, <2>2 DEF Session
  <2> QED BY <1>3, <2>1, <2>2
<1>6. SameIds(None)
  BY <1>5 DEF SameIds
<1> QED BY <1>1, <1>3, <1>4, <1>6, QuietConn DEF Dropping

\* A session is about to be added.
LEMMA BeginAddQuiet ==
  ASSUME CacheInv, OnceInv, NEW c \in Conns, NEW x \in Objects, NEW o \in [Objects -> Counted],
         BeginAdd(c, o, x), UNCHANGED <<conf, sessions, redeemed>>,
         NEW x0, \A y \in Objects : \/ o[y].session_id \in {sess[y].session_id, None}
                                    \/ y = x0 /\ o[y].session_id \notin issued,
         conf.version = "TLSv1.2" \/ o[x].session_id \notin redeemed
  PROVE  Quietly(x0) /\ Dropping
<1> DEFINE n == IF conf.version = "TLSv1.3" THEN conn[c].sent_tickets + 1 ELSE conn[c].sent_tickets
           k == [conn[c] EXCEPT !.pc = "adding", !.session = x, !.ret = x, !.then = "open",
                                !.sent_tickets = n]
<1>1. conn \in [Conns -> Connection] /\ conn[c] \in Connection
  BY Before
<1>2. conn' = [conn EXCEPT ![c] = k] /\ sess' = tls_SESSION_up_ref(o, x)
  BY <1>1 DEF BeginAdd
<1>3. k.ret = x /\ k.pc = "adding"
  BY <1>1 DEF Connection
<1> HIDE DEF k
<1>4. \A y \in Objects : sess'[y].session_id = o[y].session_id
  BY <1>2 DEF tls_SESSION_up_ref, Counted
<1>5. SameIds(x0)
  BY <1>4 DEF SameIds
<1> QED BY <1>1, <1>2, <1>3, <1>4, <1>5, QuietConn DEF Dropping

\* The handshake ends (TLSv1.2).
LEMMA FinishQuiet ==
  ASSUME CacheInv, OnceInv, NEW c \in Conns, Finish(c)
  PROVE  Quietly(None) /\ Dropping
<1>1. /\ conn \in [Conns -> Connection] /\ conn[c] \in Connection /\ conn[c].session \in Objects
      /\ conf.version = "TLSv1.2"
  BY Before DEF Finish, ShapeOK, Connection
<1>2. UNCHANGED <<conf, sessions, redeemed>>
  BY DEF Finish
<1>3. CASE conn' = Go(c, "open") /\ UNCHANGED sess
  <2> DEFINE k == [conn[c] EXCEPT !.pc = "open"]
  <2>1. conn' = [conn EXCEPT ![c] = k] /\ k.pc = "open"
    BY <1>1, <1>3 DEF Go, Connection
  <2> HIDE DEF k
  <2> QED BY <1>2, <1>3, <2>1, IdleQuiet
<1>4. CASE BeginAdd(c, sess, conn[c].session)
  <2>1. sess \in [Objects -> Counted]
    BY SessCounted
  <2>2. \A y \in Objects : sess[y].session_id \in {sess[y].session_id, None}
    OBVIOUS
  <2> QED BY <1>1, <1>2, <1>4, <2>1, <2>2, BeginAddQuiet
<1> QED BY <1>3, <1>4 DEF Finish

\* A ticket has an id of its own.
LEMMA NewTicketQuiet ==
  ASSUME CacheInv, OnceInv, NEW c \in Conns, NewTicket(c)
  PROVE  (\E x0 : Quietly(x0)) /\ Dropping
<1> DEFINE x == conn[c].session
<1>1. x \in Objects /\ sess \in [Objects -> Session] /\ sess \in [Objects -> Counted]
      /\ redeemed \subseteq issued /\ None \notin Ids
  BY Before, SessCounted DEF NewTicket, ShapeOK, Connection, CacheInv, TypeOK
<1>2. UNCHANGED <<conf, sessions, redeemed>>
  BY DEF NewTicket
<1>3. PICK id \in FreshIds :
        \/ \E y \in Objects :
             BeginAdd(c, tls_SESSION_free(New(sess, y, id, sess[x].not_resumable), x), y)
        \/ BeginAdd(c, [sess EXCEPT ![x].session_id = id], x)
  BY DEF NewTicket
<1>4. id \in Ids /\ id \notin issued /\ id \notin redeemed /\ None \notin redeemed
  BY <1>1 DEF FreshIds, CacheInv, TypeOK
<1> HIDE DEF x
<1>5. ASSUME NEW y \in Objects,
             BeginAdd(c, tls_SESSION_free(New(sess, y, id, sess[x].not_resumable), x), y)
      PROVE  Quietly(y) /\ Dropping
  <2> DEFINE s == [references |-> 1, session_id |-> id, not_resumable |-> sess[x].not_resumable]
             n == New(sess, y, id, sess[x].not_resumable)
             o == tls_SESSION_free(n, x)
  <2>1. s \in Counted /\ s.session_id = id
    BY <1>1, <1>4 DEF Counted, Session
  <2>2. n = [sess EXCEPT ![y] = s]
    BY DEF New
  <2>3. BeginAdd(c, o, y)
    BY <1>5
  <2> HIDE DEF s, n
  <2>4. /\ n \in [Objects -> Counted]
        /\ \A z \in Objects : z # y => n[z] = sess[z]
        /\ n[y].session_id = id
    BY <1>1, <2>1, <2>2
  <2>5. o \in [Objects -> Counted] /\ \A z \in Objects : o[z].session_id \in {n[z].session_id, None}
    BY <1>1, <2>4, FreeIds
  <2> HIDE DEF o
  <2>6. \A z \in Objects : \/ o[z].session_id \in {sess[z].session_id, None}
                           \/ z = y /\ o[z].session_id \notin issued
    BY <1>4, <2>4, <2>5
  <2>7. o[y].session_id \notin redeemed
    BY <1>4, <2>4, <2>5
  <2> QED BY <1>2, <2>3, <2>5, <2>6, <2>7, BeginAddQuiet
<1>6. ASSUME BeginAdd(c, [sess EXCEPT ![x].session_id = id], x)
      PROVE  Quietly(x) /\ Dropping
  <2> DEFINE s == [sess[x] EXCEPT !.session_id = id]
             o == [sess EXCEPT ![x].session_id = id]
  <2>1. s \in Counted /\ s.session_id = id
    BY <1>1, <1>4 DEF Counted
  <2>2. o = [sess EXCEPT ![x] = s]
    BY <1>1
  <2>3. BeginAdd(c, o, x)
    BY <1>6
  <2> HIDE DEF s, o
  <2>4. o \in [Objects -> Counted] /\ o[x].session_id = id /\ \A z \in Objects : z # x => o[z] = sess[z]
    BY <1>1, <2>1, <2>2
  <2>5. \A z \in Objects : \/ o[z].session_id \in {sess[z].session_id, None}
                           \/ z = x /\ o[z].session_id \notin issued
    BY <1>4, <2>4
  <2> QED BY <1>1, <1>2, <1>4, <2>3, <2>4, <2>5, BeginAddQuiet
<1> QED BY <1>3, <1>5, <1>6

\* Sessions are flushed.
LEMMA FlushQuiet ==
  ASSUME CacheInv, OnceInv, Flush
  PROVE  Quietly(None) /\ Dropping
<1>1. /\ conf' = conf /\ redeemed' = redeemed /\ conn' = conn
      /\ sessions' = [id \in Ids |-> IF sessions[id] \in TimedOut THEN None ELSE sessions[id]]
      /\ sess' = [y \in Objects |-> IF y \notin TimedOut THEN sess[y]
                                    ELSE tls_SESSION_free(Marked(sess, y), y)[y]]
  BY DEF Flush
<1>2. ASSUME NEW y \in Objects
      PROVE  sess'[y].session_id \in {sess[y].session_id, None}
  <2>1. CASE y \notin TimedOut
    BY <1>1, <2>1
  <2>2. CASE y \in TimedOut
    <3> DEFINE m == Marked(sess, y)
    <3>1. /\ m \in [Objects -> Session] /\ m[y].session_id = sess[y].session_id
      BY SessCounted, MarkedEffect
    <3> HIDE DEF m
    <3>2. m \in [Objects -> Counted]
      <4>1. \A z \in Objects : m[z] \in Counted
        BY <3>1 DEF Session, Counted
      <4> QED BY <3>1, <4>1
    <3>3. tls_SESSION_free(m, y)[y].session_id \in {m[y].session_id, None}
      BY <3>2, FreeIds
    <3> QED BY <1>1, <2>2, <3>1, <3>3 DEF m
  <2> QED BY <2>1, <2>2
<1>3. SameIds(None)
  BY <1>2 DEF SameIds
<1>4. Dropping
  BY <1>1 DEF Dropping
<1> QED BY <1>1, <1>3, <1>4 DEF Quietly, OnceInv

\* A session that is added comes on offer, if it is inserted, and was never redeemed.
LEMMA AddOffers ==
  ASSUME Internal, CacheInv, CacheInv', OnceInv, NEW c \in Conns, AddLocked(c)
  PROVE  OnceInv' /\ Tickets!Next
<1> DEFINE x == conn[c].ret
           i == sess[x].session_id
           k == [conn[c] EXCEPT
                  !.pc = IF conn[c].then = "open" /\ conf.external THEN "storing" ELSE conn[c].then,
                  !.ret = IF conn[c].then = "open" THEN None ELSE conn[c].ret]
<1>1. /\ conn \in [Conns -> Connection] /\ conn[c] \in Connection /\ ConnOK(c) /\ ShapeOK(conn[c])
      /\ conn[c].pc = "adding" /\ sess \in [Objects -> Session] /\ None \notin Objects
  BY Before DEF AddLocked
<1>2. x \in Objects /\ i \in Ids /\ i \notin redeemed
  <2>1. x \in Objects /\ i # None
    BY <1>1 DEF ShapeOK, Connection, ConnOK, IdsOK
  <2> QED BY <1>1, <2>1 DEF OnceInv, Session
<1>3. Added(x)
  BY AddLockedEffect
<1>4. conf' = conf /\ redeemed' = redeemed
  BY DEF AddLocked
<1>5. conn' = [conn EXCEPT ![c] = k]
  BY <1>1 DEF AddLocked
<1>6. k.pc \in {"storing", "found", "open"}
  BY <1>1 DEF Connection, ShapeOK
<1> HIDE DEF x, k
<1>7. SameIds(None)
  BY <1>3 DEF SameIds, Added
<1>8. Quietly(None)
  BY <1>1, <1>4, <1>5, <1>6, <1>7, QuietConn
<1>9. \A id \in Ids : sessions'[id] \in {sessions[id], None} \/ id = i
  <2> SUFFICES ASSUME NEW id \in Ids, sessions'[id] = x, sessions'[id] # None, sess'[x].session_id = id
               PROVE  id = i
    BY <1>1, <1>2, <1>3 DEF Added
  <2>1. sess'[x].session_id \in {i, None}
    BY <1>2, <1>3 DEF Added
  <2> QED BY <2>1, CacheAssumption
<1> HIDE DEF i
<1>10. Tickets!Next
  BY <1>2, <1>4, <1>9, OfferStep
<1>11. OnceInv'
  BY <1>2, <1>8, <1>9, OnceStep
<1> QED BY <1>10, <1>11

\* A ticket is redeemed: it was on offer, and no other object has its id.
LEMMA ReplayRedeems ==
  ASSUME Internal, CacheInv, CacheInv', OnceInv, NEW c \in Conns, CheckReplay(c)
  PROVE  OnceInv' /\ Tickets!Next
<1> DEFINE x == conn[c].ret
           i == conn[c].asked
<1>1. /\ conn \in [Conns -> Connection] /\ conn[c] \in Connection /\ ConnOK(c) /\ ShapeOK(conn[c])
      /\ conn[c].pc = "found" /\ conf.version = "TLSv1.3" /\ None \notin Objects /\ None \notin Ids
      /\ sess \in [Objects -> Session] /\ sessions \in [Ids -> Objects \cup {None}]
  BY Before DEF CheckReplay
<1>2. x \in Objects /\ sess[x].session_id \in {i, None} /\ i \in issued /\ i \in Ids
  BY <1>1 DEF ShapeOK, Connection, ConnOK, IdsOK, CacheInv, TypeOK
<1>3. /\ \A id \in Ids : sessions[id] # None => sess[sessions[id]].session_id = id
      /\ \E then : RemoveLocked(c, x, then)
  BY DEF CacheInv, TableOK, CheckReplay
<1>4. Dropping /\ SameIds(None)
  BY <1>2, <1>3, RemoveQuiet
<1>5. CASE ~StillCached(x)
  <2>1. redeemed' = redeemed
    BY <1>5 DEF CheckReplay
  <2>2. Quietly(None)
    BY <1>2, <1>3, <2>1, RemoveQuiet
  <2>3. OnceInv'
    BY <1>4, <2>2, OnceStep DEF Dropping
  <2> QED BY <1>4, <2>1, <2>3, DropStep
<1>6. CASE StillCached(x)
  <2>1. redeemed' = redeemed \cup {i}
    BY <1>6 DEF CheckReplay
  <2>2. Found(x) = sessions[i] /\ sessions[i] # None /\ sess[x].session_id = i
    BY <1>2, <1>6 DEF StillCached, Found, Retrieve
  <2>3. \A id \in Ids : sessions'[id] = IF id = i THEN None ELSE sessions[id]
    <3>1. sessions' = Delete(sessions, sessions[i])
      BY <1>3, <2>2 DEF RemoveLocked
    <3>2. \A id \in Ids : sessions[id] = sessions[i] => id = i
      BY <1>2, <1>3, <2>2
    <3> QED BY <1>2, <3>1, <3>2 DEF Delete
  <2>4. Tickets!Next
    <3> DEFINE a == {id \in Ids : sessions[id] # None}
               b == {id \in Ids : sessions'[id] # None}
    <3>1. b = a \ {i} /\ i \in a
      BY <1>2, <2>2, <2>3
    <3>2. /\ {id \in Ids : Retrieve(sess, sessions, id) # None} = a
          /\ {id \in Ids : Retrieve(sess', sessions', id) # None} = b
      BY OfferedNow, OfferedNext
    <3> HIDE DEF a, b, i
    <3>3. Tickets!Redeem(i)
      BY <2>1, <3>1, <3>2 DEF Tickets!Redeem
    <3> QED BY <1>2, <3>3 DEF Tickets!Next
  <2>5. conf' = conf /\ ~conf.external /\ redeemed \subseteq issued
    BY <1>1, <1>3 DEF RemoveLocked, Internal, CacheInv, TypeOK
  <2>6. \A y \in Objects : sess'[y].session_id = sess[y].session_id
    <3>1. sess' = Marked(sess, x)
      BY <1>3 DEF RemoveLocked
    <3> HIDE DEF x
    <3> QED BY <1>1, <1>2, <3>1, MarkedEffect
  <2>7. /\ \A d \in Conns \ {c} : conn'[d] = conn[d]
        /\ conn'[c].pc = "removing"
    BY <1>1, <1>3 DEF RemoveLocked, Connection
  <2>8. ASSUME NEW d \in Conns, conn'[d].pc = "adding"
        PROVE  sess'[conn'[d].ret].session_id \notin redeemed'
    <3> DEFINE y == conn[d].ret
    <3>1. d # c /\ conn'[d] = conn[d] /\ conn[d].pc = "adding"
      BY <2>7, <2>8
    <3>2. y \in Objects /\ y = Own(conn[d]) /\ ConnOK(d)
      BY <3>1, Before DEF ShapeOK, Connection, Own
    <3>3. y \notin Cached(sessions)
      BY <1>1, <3>2 DEF ConnOK, OwnOK
    <3>4. sessions[i] \in Objects /\ sess[sessions[i]].session_id = i /\ sessions[i] \in Cached(sessions)
      BY <1>1, <1>2, <1>3, <2>2 DEF Cached
    <3>5. sess[y].session_id # i
      BY <1>1, <1>2, <2>5, <3>2, <3>3, <3>4 DEF OnceInv
    <3>6. sess[y].session_id \notin redeemed
      BY <3>1 DEF OnceInv
    <3> QED BY <2>1, <2>6, <3>1, <3>2, <3>5, <3>6
  <2>9. \A id \in redeemed' : sessions'[id] = None
    <3>1. \A id \in redeemed : sessions[id] = None /\ id \in Ids
      BY <2>5 DEF OnceInv, CacheInv, TypeOK
    <3> QED BY <1>2, <2>1, <2>3, <3>1
  <2>10. \A y, z \in Objects : sess'[y].session_id = sess'[z].session_id /\ y # z => sess'[y].session_id = None
    BY <2>5, <2>6 DEF OnceInv
  <2>11. \A d \in Conns : conn'[d].pc = "asking" => conf'.external
    BY <2>5, <2>7 DEF OnceInv
  <2>12. conf'.version # "TLSv1.2"
    BY <1>1, <2>5
  <2>13. OnceInv'
    BY <2>8, <2>9, <2>10, <2>11, <2>12 DEF OnceInv
  <2> QED BY <2>4, <2>13
<1> QED BY <1>5, <1>6

\* Every step keeps the invariant and is one of the store, or none.
LEMMA TicketStep ==
  ASSUME Internal, CacheInv, CacheInv', OnceInv, [Next]_vars
  PROVE  OnceInv' /\ [Tickets!Next]_<<{id \in Ids : Retrieve(sess, sessions, id) # None}, redeemed>>
<1>1. ASSUME NEW x0, Quietly(x0), Dropping
      PROVE  OnceInv' /\ Tickets!Next
  <2>1. OnceInv'
    BY <1>1, OnceStep DEF Dropping
  <2>2. redeemed' = redeemed
    BY <1>1 DEF Quietly
  <2> QED BY <1>1, <2>1, <2>2, DropStep
<1>2. ASSUME NEW c \in Conns, Step(c)
      PROVE  OnceInv' /\ Tickets!Next
  <2>1. CASE \E id \in Ids : Lookup(c, id)
    BY <1>1, <2>1, LookupQuiet
  <2>2. CASE AskForNone(c)
    BY <1>1, <2>2, AskForNoneQuiet
  <2>3. CASE AskExternal(c)
    BY <1>1, <2>3, AskExternalQuiet
  <2>4. CASE CheckTimeout(c)
    BY <1>1, <2>4, CheckTimeoutQuiet
  <2>5. CASE CheckReplay(c)
    BY <2>5, ReplayRedeems
  <2>6. CASE Removed(c)
    BY <1>1, <2>6, RemovedQuiet
  <2>7. CASE NewSession(c)
    BY <1>1, <2>7, NewSessionQuiet
  <2>8. CASE ServerHello(c)
    BY <1>1, <2>8, ServerHelloQuiet
  <2>9. CASE Finish(c)
    BY <1>1, <2>9, FinishQuiet
  <2>10. CASE NewTicket(c)
    BY <1>1, <2>10, NewTicketQuiet
  <2>11. CASE AddLocked(c)
    BY <2>11, AddOffers
  <2>12. CASE StoreExternal(c)
    BY <1>1, <2>12, StoreExternalQuiet
  <2>13. CASE CloseBad(c)
    BY <1>1, <2>13, CloseBadQuiet
  <2>14. CASE CloseGood(c)
    BY <1>1, <2>14, CloseGoodQuiet
  <2> QED BY <1>2, <2>1, <2>2, <2>3, <2>4, <2>5, <2>6, <2>7, <2>8, <2>9, <2>10, <2>11, <2>12, <2>13,
             <2>14 DEF Step
<1>3. CASE Flush
  BY <1>1, <1>3, FlushQuiet
<1>4. CASE UNCHANGED <<conf, sess, sessions, conn, redeemed>>
  <2>1. Quietly(None) /\ Dropping
    BY <1>4 DEF Quietly, Dropping, SameIds, OnceInv
  <2> QED BY <1>1, <2>1
<1>5. (\E id \in Ids : GrowOld(id)) \/ UNCHANGED vars => UNCHANGED <<conf, sess, sessions, conn, redeemed>>
  BY DEF GrowOld, vars
<1> QED BY <1>2, <1>3, <1>4, <1>5 DEF Next

(***************************************************************************)
(* The cache is a store of single-use tickets, if the application keeps no *)
(* external cache for TLSv1.3: of any number of connections that come with *)
(* the same ticket at the same time, tls_CTX_remove_session lets one pass  *)
(* (tls_parse_ctos_psk), and a ticket that was redeemed is never found in  *)
(* the cache again, whatever is added, evicted, flushed and removed.       *)
(***************************************************************************)
THEOREM TicketsAreSingleUse ==
  ASSUME Internal PROVE Spec => SingleUse
<1>1. Init => OnceInv /\ Tickets!Init
  <2> SUFFICES ASSUME Init PROVE OnceInv /\ Tickets!Init
    OBVIOUS
  <2>1. OnceInv
    BY DEF Init, OnceInv, Free, Closed
  <2>2. {id \in Ids : Retrieve(sess, sessions, id) # None} = {}
    BY DEF Init, Retrieve
  <2> QED BY <2>1, <2>2 DEF Init, Tickets!Init
<1>2. CacheInv /\ CacheInv' /\ OnceInv /\ [Next]_vars =>
        OnceInv' /\ [Tickets!Next]_<<{id \in Ids : Retrieve(sess, sessions, id) # None}, redeemed>>
  BY TicketStep
<1> QED BY <1>1, <1>2, CacheInvariant, PTL DEF Spec, SingleUse, Tickets!Spec
=============================================================================
