---------------------------- MODULE StreamProofs ----------------------------
(***************************************************************************)
(* Proofs about the write queue of Stream, for all packages and all ways   *)
(* in which the kernel takes their bytes.                                  *)
(***************************************************************************)
EXTENDS Stream, Integers, FiniteSetTheorems, SequenceTheorems, TLAPS

-----------------------------------------------------------------------------
(* Counting the bytes of requests.                                         *)

\* Sequences of things that have a number of bytes left.
Counted(reqs) ==
    /\ Len(reqs) \in Nat /\ DOMAIN reqs = 1 .. Len(reqs)
    /\ \A i \in 1 .. Len(reqs) : reqs[i].left \in Nat

\* The bytes are pairs of a request and a place.
LEMMA UnwrittenPairs ==
    ASSUME NEW reqs, Counted(reqs)
    PROVE  /\ Unwritten(reqs) = {x \in (1 .. Len(reqs)) \X Nat :
                                    1 <= x[2] /\ x[2] <= reqs[x[1]].left}
           /\ IsFiniteSet(Unwritten(reqs)) /\ BytesLeft(reqs) \in Nat
<1> DEFINE part(i) == {i} \X (1 .. reqs[i].left)
           parts == {part(i) : i \in 1 .. Len(reqs)}
<1>1. Unwritten(reqs) = UNION parts
    BY DEF Unwritten, Counted
<1>2. UNION parts = {x \in (1 .. Len(reqs)) \X Nat : 1 <= x[2] /\ x[2] <= reqs[x[1]].left}
    BY DEF Counted
<1>3. IsFiniteSet(parts)
    <2> DEFINE f == [i \in 1 .. Len(reqs) |-> part(i)]
    <2>1. f \in Surjection(1 .. Len(reqs), parts)
        BY DEF Surjection
    <2>2. IsFiniteSet(1 .. Len(reqs))
        BY FS_Interval DEF Counted
    <2> HIDE DEF f, parts
    <2> QED BY <2>1, <2>2, FS_Surjection
<1>4. \A p \in parts : IsFiniteSet(p)
    <2> SUFFICES ASSUME NEW i \in 1 .. Len(reqs) PROVE IsFiniteSet(part(i))
        OBVIOUS
    <2>1. IsFiniteSet({i})
        BY FS_Singleton
    <2>2. PICK m \in Int : m = reqs[i].left
        BY DEF Counted
    <2>3. IsFiniteSet(1 .. m)
        BY FS_Interval
    <2> QED BY <2>1, <2>2, <2>3, FS_Product
<1>5. IsFiniteSet(UNION parts)
    <2> HIDE DEF parts
    <2> QED BY <1>3, <1>4, FS_UNION
<1>6. BytesLeft(reqs) \in Nat
    BY <1>1, <1>5, FS_CardinalityType DEF BytesLeft
<1> QED BY <1>1, <1>2, <1>5, <1>6

\* The bytes of the requests of two sequences are those of the first and those of the second.
LEMMA BytesConcat ==
    ASSUME NEW r, NEW s, NEW t, Counted(r), Counted(s), Counted(t), Len(t) = Len(r) + Len(s),
           \A i \in 1 .. Len(r) : t[i].left = r[i].left,
           \A i \in 1 .. Len(s) : t[Len(r) + i].left = s[i].left
    PROVE  BytesLeft(t) = BytesLeft(r) + BytesLeft(s)
<1> DEFINE n == Len(r)
           A == Unwritten(r)
           B == {x \in (n + 1 .. Len(t)) \X Nat : 1 <= x[2] /\ x[2] <= t[x[1]].left}
           f == [x \in Unwritten(s) |-> <<n + x[1], x[2]>>]
<1>0. n \in Nat /\ Len(s) \in Nat /\ Len(t) = n + Len(s)
    BY DEF Counted
<1>1. A = {x \in (1 .. n) \X Nat : 1 <= x[2] /\ x[2] <= r[x[1]].left}
    BY UnwrittenPairs
<1>2. Unwritten(s) = {x \in (1 .. Len(s)) \X Nat : 1 <= x[2] /\ x[2] <= s[x[1]].left}
    BY UnwrittenPairs
<1>3. Unwritten(t) = {x \in (1 .. Len(t)) \X Nat : 1 <= x[2] /\ x[2] <= t[x[1]].left}
    BY UnwrittenPairs
<1>4. /\ Unwritten(t) = A \cup B
      /\ A \cap B = {}
    BY <1>0, <1>1, <1>3
<1>5. f \in Bijection(Unwritten(s), B)
    <2>1. \A x \in Unwritten(s) : f[x] \in B
        BY <1>0, <1>2
    <2>2. \A x, y \in Unwritten(s) : f[x] = f[y] => x = y
        BY <1>0, <1>2
    <2>3. \A y \in B : \E x \in Unwritten(s) : f[x] = y
        <3> SUFFICES ASSUME NEW y \in B PROVE \E x \in Unwritten(s) : f[x] = y
            OBVIOUS
        <3> DEFINE x == <<y[1] - n, y[2]>>
        <3>1. x \in Unwritten(s)
            BY <1>0, <1>2
        <3>2. y[1] \in Int /\ y = <<y[1], y[2]>>
            BY <1>0
        <3>3. n + (y[1] - n) = y[1]
            BY <1>0, <3>2
        <3>4. f[x] = <<n + x[1], x[2]>>
            BY <3>1
        <3>5. f[x] = y
            BY <3>2, <3>3, <3>4
        <3> QED BY <3>1, <3>5
    <2>4. f \in [Unwritten(s) -> B]
        BY <2>1
    <2> HIDE DEF f, B
    <2>5. f \in Injection(Unwritten(s), B)
        BY <2>2, <2>4 DEF Injection, IsInjective
    <2>6. f \in Surjection(Unwritten(s), B)
        BY <2>3, <2>4 DEF Surjection
    <2> QED BY <2>5, <2>6 DEF Bijection
<1>6. IsFiniteSet(A) /\ IsFiniteSet(Unwritten(s))
    BY UnwrittenPairs
<1>7. IsFiniteSet(B) /\ Cardinality(B) = BytesLeft(s)
    <2> HIDE DEF f, B
    <2> QED BY <1>5, <1>6, FS_Bijection DEF ExistsBijection, BytesLeft
<1>8. Cardinality(A \cup B) = Cardinality(A) + Cardinality(B)
    <2> HIDE DEF A, B
    <2>1. Cardinality(A \cup B) = Cardinality(A) + Cardinality(B) - Cardinality(A \cap B)
        BY <1>6, <1>7, FS_Union
    <2>2. Cardinality(A \cap B) = 0
        BY <1>4, FS_EmptySet
    <2>3. Cardinality(A) \in Nat /\ Cardinality(B) \in Nat
        BY <1>6, <1>7, FS_CardinalityType
    <2> QED BY <2>1, <2>2, <2>3
<1> QED BY <1>4, <1>7, <1>8 DEF BytesLeft

\* No request has no bytes, and one has those it has.
LEMMA BytesFew ==
    /\ BytesLeft(<<>>) = 0
    /\ \A x : x.left \in Nat => BytesLeft(<<x>>) = x.left
<1>1. BytesLeft(<<>>) = 0
    <2>1. Unwritten(<<>>) = {}
        BY DEF Unwritten
    <2> QED BY <2>1, FS_EmptySet DEF BytesLeft
<1>2. ASSUME NEW x, x.left \in Nat PROVE BytesLeft(<<x>>) = x.left
    <2>1. Unwritten(<<x>>) = {1} \X (1 .. x.left)
        BY DEF Unwritten
    <2>2. IsFiniteSet({1}) /\ Cardinality({1}) = 1
        BY FS_Singleton
    <2> DEFINE T == 1 .. x.left
    <2>3. IsFiniteSet(T) /\ Cardinality(T) = IF 1 > x.left THEN 0 ELSE x.left - 1 + 1
        BY <1>2, FS_Interval
    <2>4. Cardinality(T) = x.left
        BY <1>2, <2>3
    <2> HIDE DEF T
    <2>5. Cardinality({1} \X T) = Cardinality({1}) * Cardinality(T)
        BY <2>2, <2>3, FS_Product
    <2>6. Cardinality({1} \X T) = 1 * x.left
        BY <2>2, <2>4, <2>5
    <2>7. Cardinality({1} \X T) = x.left
        BY <1>2, <2>6
    <2> QED BY <2>1, <2>7 DEF BytesLeft, T
<1> QED BY <1>1, <1>2

\* The same for sequences of requests.
LEMMA BytesOf ==
    ASSUME NEW S, \A x \in S : x.left \in Nat, NEW s \in Seq(S), NEW t \in Seq(S)
    PROVE  /\ Counted(s) /\ BytesLeft(s) \in Nat
           /\ BytesLeft(s \o t) = BytesLeft(s) + BytesLeft(t)
           /\ s # <<>> => BytesLeft(s) = s[1].left + BytesLeft(Tail(s))
           /\ \A x \in S : BytesLeft(Append(s, x)) = BytesLeft(s) + x.left
<1>1. \A u \in Seq(S) : Counted(u)
    BY DEF Counted
<1>2. BytesLeft(s) \in Nat
    BY <1>1, UnwrittenPairs
<1>3. BytesLeft(s \o t) = BytesLeft(s) + BytesLeft(t)
    <2>1. s \o t \in Seq(S) /\ Len(s \o t) = Len(s) + Len(t)
        BY ConcatProperties
    <2>2. Len(s) \in Nat /\ Len(t) \in Nat
        OBVIOUS
    <2>3. /\ \A i \in 1 .. Len(s) : (s \o t)[i] = s[i]
          /\ \A i \in 1 .. Len(t) : (s \o t)[Len(s) + i] = t[i]
        BY <2>2
    <2> QED BY <1>1, <2>1, <2>3, BytesConcat
<1>4. ASSUME s # <<>> PROVE BytesLeft(s) = s[1].left + BytesLeft(Tail(s))
    <2> DEFINE h == <<s[1]>>
    <2>1. /\ Tail(s) \in Seq(S) /\ Len(Tail(s)) = Len(s) - 1 /\ Len(s) \in Nat \ {0}
          /\ \A i \in 1 .. Len(Tail(s)) : Tail(s)[i] = s[1 + i]
        BY <1>4, HeadTailProperties, EmptySeq
    <2>2. h \in Seq(S) /\ Len(h) = 1 /\ h[1] = s[1] /\ s[1].left \in Nat
        BY <2>1
    <2>3. BytesLeft(h) = s[1].left
        BY <2>2, BytesFew
    <2> HIDE DEF h
    <2>4. Counted(h) /\ Counted(Tail(s)) /\ Counted(s)
        BY <1>1, <2>1, <2>2
    <2>5. /\ Len(s) = Len(h) + Len(Tail(s))
          /\ \A i \in 1 .. Len(h) : s[i].left = h[i].left
          /\ \A i \in 1 .. Len(Tail(s)) : s[Len(h) + i].left = Tail(s)[i].left
        BY <2>1, <2>2
    <2>6. BytesLeft(s) = BytesLeft(h) + BytesLeft(Tail(s))
        BY <2>4, <2>5, BytesConcat
    <2> QED BY <2>3, <2>6
<1>5. ASSUME NEW x \in S PROVE BytesLeft(Append(s, x)) = BytesLeft(s) + x.left
    <2> DEFINE h == <<x>>
               a == Append(s, x)
    <2>1. /\ a \in Seq(S) /\ Len(a) = Len(s) + 1 /\ Len(s) \in Nat
          /\ \A i \in 1 .. Len(s) : a[i] = s[i]
          /\ a[Len(s) + 1] = x
        BY AppendProperties
    <2>2. h \in Seq(S) /\ Len(h) = 1 /\ h[1] = x
        OBVIOUS
    <2>3. BytesLeft(h) = x.left
        BY BytesFew
    <2> HIDE DEF h, a
    <2>4. Counted(h) /\ Counted(a) /\ Counted(s)
        BY <1>1, <2>1, <2>2
    <2>5. /\ Len(a) = Len(s) + Len(h)
          /\ \A i \in 1 .. Len(s) : a[i].left = s[i].left
          /\ \A i \in 1 .. Len(h) : a[Len(s) + i].left = h[i].left
        BY <2>1, <2>2
    <2>6. BytesLeft(a) = BytesLeft(s) + BytesLeft(h)
        BY <2>4, <2>5, BytesConcat
    <2> QED BY <2>3, <2>6 DEF a
<1> QED BY <1>1, <1>2, <1>3, <1>4, <1>5
-----------------------------------------------------------------------------
(* The packages of requests.                                               *)

LEMMA PackagesSeq ==
    ASSUME NEW S, \A x \in S : x.pkg \in Packages, NEW s \in Seq(S), NEW t \in Seq(S)
    PROVE  /\ PackagesOf(s) \in Seq(Packages) /\ Len(PackagesOf(s)) = Len(s)
           /\ \A i \in 1 .. Len(s) : PackagesOf(s)[i] = s[i].pkg
           /\ PackagesOf(s \o t) = PackagesOf(s) \o PackagesOf(t)
<1>1. ASSUME NEW u \in Seq(S)
      PROVE  /\ PackagesOf(u) \in Seq(Packages) /\ Len(PackagesOf(u)) = Len(u)
             /\ \A i \in 1 .. Len(u) : PackagesOf(u)[i] = u[i].pkg
    <2>1. Len(u) \in Nat /\ DOMAIN u = 1 .. Len(u) /\ \A i \in 1 .. Len(u) : u[i] \in S
        OBVIOUS
    <2>2. PackagesOf(u) = [i \in 1 .. Len(u) |-> u[i].pkg]
        BY <2>1 DEF PackagesOf
    <2> QED BY <2>1, <2>2
<1>2. PackagesOf(s \o t) = PackagesOf(s) \o PackagesOf(t)
    <2>1. /\ s \o t \in Seq(S) /\ Len(s \o t) = Len(s) + Len(t)
          /\ \A i \in 1 .. Len(s) + Len(t) : (s \o t)[i] = IF i <= Len(s) THEN s[i] ELSE t[i - Len(s)]
          /\ Len(s) \in Nat /\ Len(t) \in Nat
        BY ConcatProperties
    <2> DEFINE l == PackagesOf(s \o t)
               r == PackagesOf(s) \o PackagesOf(t)
    <2>2. /\ r \in Seq(Packages) /\ Len(r) = Len(s) + Len(t)
          /\ \A i \in 1 .. Len(s) + Len(t) :
                r[i] = IF i <= Len(s) THEN PackagesOf(s)[i] ELSE PackagesOf(t)[i - Len(s)]
        <3>1. PackagesOf(s) \in Seq(Packages) /\ PackagesOf(t) \in Seq(Packages)
            BY <1>1
        <3>2. Len(PackagesOf(s)) = Len(s) /\ Len(PackagesOf(t)) = Len(t)
            BY <1>1
        <3>3. /\ r \in Seq(Packages) /\ Len(r) = Len(PackagesOf(s)) + Len(PackagesOf(t))
              /\ \A i \in 1 .. Len(PackagesOf(s)) + Len(PackagesOf(t)) :
                    r[i] = IF i <= Len(PackagesOf(s)) THEN PackagesOf(s)[i]
                           ELSE PackagesOf(t)[i - Len(PackagesOf(s))]
            BY <3>1, ConcatProperties
        <3> HIDE DEF r
        <3> QED BY <3>2, <3>3
    <2>3. /\ l \in Seq(Packages) /\ Len(l) = Len(s) + Len(t)
          /\ \A i \in 1 .. Len(s) + Len(t) : l[i] = (s \o t)[i].pkg
        BY <1>1, <2>1
    <2>4. \A i \in 1 .. Len(l) : l[i] = r[i]
        <3> SUFFICES ASSUME NEW i \in 1 .. Len(s) + Len(t) PROVE l[i] = r[i]
            BY <2>3
        <3>1. CASE i <= Len(s)
            BY <1>1, <2>1, <2>2, <2>3, <3>1
        <3>2. CASE ~(i <= Len(s))
            <4>1. i - Len(s) \in 1 .. Len(t)
                BY <2>1, <3>2
            <4> HIDE DEF l, r
            <4> QED BY <1>1, <2>1, <2>2, <2>3, <3>2, <4>1
        <3> QED BY <3>1, <3>2
    <2> HIDE DEF l, r
    <2>5. l = r
        BY <2>2, <2>3, <2>4, SeqEqual
    <2> QED BY <2>5 DEF l, r
<1> QED BY <1>1, <1>2

\* The packages of no request and of one; a sequence is its head and its tail.
LEMMA PackagesFew ==
    /\ PackagesOf(<<>>) = <<>>
    /\ \A x : PackagesOf(<<x>>) = <<x.pkg>>
    /\ \A q \in Seq(Queued) : q # <<>> => PackagesOf(q) = <<q[1].pkg>> \o PackagesOf(Tail(q))
<1>1. PackagesOf(<<>>) = <<>>
    BY DEF PackagesOf
<1>2. ASSUME NEW x PROVE PackagesOf(<<x>>) = <<x.pkg>>
    BY DEF PackagesOf
<1>3. ASSUME NEW q \in Seq(Queued), q # <<>> PROVE PackagesOf(q) = <<q[1].pkg>> \o PackagesOf(Tail(q))
    <2>1. q[1] \in Queued /\ Tail(q) \in Seq(Queued) /\ q = <<q[1]>> \o Tail(q)
        BY <1>3
    <2>2. <<q[1]>> \in Seq(Queued) /\ \A x \in Queued : x.pkg \in Packages
        BY <2>1 DEF Queued
    <2>3. PackagesOf(<<q[1]>> \o Tail(q)) = PackagesOf(<<q[1]>>) \o PackagesOf(Tail(q))
        BY <2>1, <2>2, PackagesSeq
    <2> QED BY <1>2, <2>1, <2>3
<1> QED BY <1>1, <1>2, <1>3

\* A package has at least the bytes of its header.
LEMMA SizeType ==
    ASSUME NEW p \in Packages
    PROVE  Size(p) \in Nat \ {0} /\ Size(p) >= Header /\ p.length \in Nat /\ p.num \in Nat \ {0}
<1>1. p.length \in Nat /\ p.num \in 1 .. MaxPkg /\ Header \in Nat \ {0} /\ MaxPkg \in Nat
    BY StreamAssumption DEF Packages
<1> QED BY <1>1 DEF Size
-----------------------------------------------------------------------------
(* uv__write.                                                              *)

\* Every request of the queue q has bytes to write, and only the first was begun.
Waiting(q) ==
    \A i \in 1 .. Len(q) : /\ q[i].left \in 1 .. Size(q[i].pkg)
                           /\ i > 1 => q[i].left = Size(q[i].pkg)

\* The outcome r of uv__write on the queue q of sz bytes keeps the requests and their order,
\* and accounts for their bytes.
Accounts(q, sz, r) ==
    /\ r.queue \in Seq(Queued) /\ Waiting(r.queue) /\ r.done \in Seq(Completed)
    /\ PackagesOf(q) = PackagesOf(r.done) \o PackagesOf(r.queue)
    /\ r.size \in Int /\ r.size - BytesLeft(r.queue) - BytesLeft(r.done) = sz - BytesLeft(q)
    /\ q = <<>> => r.queue = <<>>

\* The head of a queue.
LEMMA QueueHead ==
    ASSUME NEW q \in Seq(Queued), q # <<>>
    PROVE  q[1] \in Queued /\ q[1].pkg \in Packages /\ q[1].left \in Nat
<1>1. q[1] \in Queued
    BY EmptySeq
<1> QED BY <1>1 DEF Queued

\* What uv__write leaves when the head of the queue is finished, with k bytes not written.
LEMMA HeadFinished ==
    ASSUME NEW q \in Seq(Queued), Waiting(q), q # <<>>, NEW sz \in Int, NEW k \in Nat, NEW f \in BOOLEAN,
           NEW r, r.queue = Tail(q), r.done = <<[pkg |-> q[1].pkg, left |-> k, failed |-> f]>>,
           r.size = sz - (q[1].left - k)
    PROVE  Accounts(q, sz, r)
<1> DEFINE d == [pkg |-> q[1].pkg, left |-> k, failed |-> f]
<1>1. /\ q[1] \in Queued /\ Tail(q) \in Seq(Queued) /\ Len(Tail(q)) = Len(q) - 1 /\ Len(q) \in Nat \ {0}
      /\ \A i \in 1 .. Len(Tail(q)) : Tail(q)[i] = q[i + 1]
    BY HeadTailProperties, EmptySeq
<1>2. q[1].pkg \in Packages /\ q[1].left \in Nat /\ \A x \in Queued : x.left \in Nat
    BY <1>1 DEF Queued
<1>3. d \in Completed /\ r.done \in Seq(Completed) /\ d.pkg = q[1].pkg /\ d.left = k
    BY <1>2 DEF Completed
<1>4. Waiting(Tail(q))
    BY <1>1 DEF Waiting
<1>5. PackagesOf(q) = PackagesOf(r.done) \o PackagesOf(r.queue)
    BY PackagesFew
<1>6. BytesLeft(r.done) = k
    <2> HIDE DEF d
    <2> QED BY <1>3, BytesFew DEF d
<1>7. BytesLeft(q) = q[1].left + BytesLeft(Tail(q)) /\ BytesLeft(Tail(q)) \in Nat
    BY <1>1, <1>2, BytesOf
<1> QED BY <1>1, <1>2, <1>3, <1>4, <1>5, <1>6, <1>7 DEF Accounts

\* What it leaves when the kernel has taken n bytes and more remain.
LEMMA HeadBegun ==
    ASSUME NEW q \in Seq(Queued), Waiting(q), q # <<>>, NEW sz \in Int,
           NEW n \in Nat, n < q[1].left,
           NEW r, r.queue = [q EXCEPT ![1].left = @ - n], r.done = <<>>, r.size = sz - n
    PROVE  Accounts(q, sz, r)
<1> DEFINE h == [q[1] EXCEPT !.left = @ - n]
           u == r.queue
<1>1. /\ q[1] \in Queued /\ Tail(q) \in Seq(Queued) /\ Len(q) \in Nat \ {0} /\ Len(Tail(q)) = Len(q) - 1
      /\ \A i \in 1 .. Len(Tail(q)) : Tail(q)[i] = q[i + 1]
    BY HeadTailProperties, EmptySeq
<1>2. q[1].pkg \in Packages /\ q[1].left \in Nat /\ q[1].left \in 1 .. Size(q[1].pkg)
    BY <1>1 DEF Queued, Waiting
<1>3. Size(q[1].pkg) \in Nat
    BY <1>2, SizeType
<1>4. h \in Queued /\ h.pkg = q[1].pkg /\ h.left = q[1].left - n /\ h.left \in 1 .. Size(h.pkg)
    <2>1. q[1].left - n \in Nat /\ q[1].left - n \in 1 .. Size(q[1].pkg)
        BY <1>2, <1>3
    <2>2. h = [pkg |-> q[1].pkg, left |-> q[1].left - n]
        BY <1>1 DEF Queued
    <2>3. h \in Queued /\ h.pkg = q[1].pkg /\ h.left = q[1].left - n
        BY <1>2, <2>1, <2>2 DEF Queued
    <2> QED BY <2>1, <2>3
<1>5. u = [q EXCEPT ![1] = h]
    OBVIOUS
<1> HIDE DEF h, u
<1>6. /\ u \in Seq(Queued) /\ Len(u) = Len(q)
      /\ \A j \in 1 .. Len(q) : u[j] = IF j = 1 THEN h ELSE q[j]
    <2>1. 1 \in 1 .. Len(q)
        BY <1>1
    <2> QED BY <1>4, <1>5, <2>1, ExceptSeq
<1>7. u # <<>> /\ u[1] = h /\ \A j \in 2 .. Len(q) : u[j] = q[j]
    BY <1>1, <1>6
<1>8. Waiting(u)
    BY <1>1, <1>4, <1>6, <1>7 DEF Waiting
<1>9. Tail(u) = Tail(q)
    <2>1. /\ Tail(u) \in Seq(Queued) /\ Len(Tail(u)) = Len(q) - 1
          /\ \A i \in 1 .. Len(Tail(u)) : Tail(u)[i] = u[i + 1]
        BY <1>6, <1>7, HeadTailProperties
    <2>2. \A i \in 1 .. Len(Tail(u)) : Tail(u)[i] = Tail(q)[i]
        <3> SUFFICES ASSUME NEW i \in 1 .. Len(q) - 1 PROVE Tail(u)[i] = Tail(q)[i]
            BY <2>1
        <3>1. i + 1 \in 2 .. Len(q)
            BY <1>1
        <3> QED BY <1>1, <1>7, <2>1, <3>1
    <2> QED BY <1>1, <2>1, <2>2, SeqEqual
<1>10. PackagesOf(u) = PackagesOf(q)
    BY <1>4, <1>6, <1>7, <1>9, PackagesFew
<1>11. PackagesOf(q) = PackagesOf(r.done) \o PackagesOf(u)
    <2>1. PackagesOf(u) \in Seq(Packages)
        BY <1>6, PackagesSeq DEF Queued
    <2> QED BY <1>10, <2>1, PackagesFew, ConcatEmptySeq
<1>12. \A x \in Queued : x.left \in Nat
    BY DEF Queued
<1>13. /\ BytesLeft(q) = q[1].left + BytesLeft(Tail(q)) /\ BytesLeft(Tail(q)) \in Nat
       /\ BytesLeft(u) = h.left + BytesLeft(Tail(q))
    BY <1>1, <1>6, <1>7, <1>9, <1>12, BytesOf
<1>14. BytesLeft(r.done) = 0 /\ r.done \in Seq(Completed)
    BY BytesFew
<1>15. r.size - BytesLeft(u) - BytesLeft(r.done) = sz - BytesLeft(q)
    BY <1>2, <1>4, <1>13, <1>14
<1>16. r.size \in Int /\ r.queue = u
    BY DEF u
<1> QED BY <1>6, <1>8, <1>11, <1>14, <1>15, <1>16 DEF Accounts

\* uv__write does not lose, repeat or reorder requests, and accounts for their bytes.
LEMMA WriteAccounts ==
    ASSUME NEW q \in Seq(Queued), Waiting(q), NEW sz \in Nat, NEW good \in BOOLEAN,
           NEW r \in uv__write(q, sz, good)
    PROVE  Accounts(q, sz, r)
<1>1. CASE q = <<>>
    <2>1. r.queue = <<>> /\ r.done = <<>> /\ r.size = sz
        BY <1>1 DEF uv__write
    <2>2. PackagesOf(<<>>) = PackagesOf(<<>>) \o PackagesOf(<<>>)
        <3>1. <<>> \o <<>> = <<>>
            OBVIOUS
        <3> QED BY <3>1, PackagesFew
    <2> QED BY <1>1, <2>1, <2>2, BytesFew DEF Accounts, Waiting
<1>2. CASE q # <<>> /\ reset
    <2>1. /\ r.queue = Tail(q) /\ r.size = sz
          /\ r.done = <<[pkg |-> q[1].pkg, left |-> q[1].left, failed |-> TRUE]>>
        BY <1>2 DEF uv__write, Failed
    <2>2. q[1].left \in Nat
        BY <1>2, QueueHead
    <2>3. r.size = sz - (q[1].left - q[1].left) /\ sz \in Int
        BY <2>1, <2>2
    <2> QED BY <1>2, <2>1, <2>2, <2>3, HeadFinished
<1>3. CASE q # <<>> /\ ~reset
    <2>1. PICK n \in 0 .. q[1].left : r = Written(q, sz, n, good)
        BY <1>3 DEF uv__write
    <2>2. q[1].left \in Nat
        BY <1>3, QueueHead
    <2>3. CASE n = q[1].left
        <3>1. /\ r.queue = Tail(q) /\ r.size = sz - q[1].left
              /\ r.done = <<[pkg |-> q[1].pkg, left |-> 0, failed |-> FALSE]>>
            BY <2>1, <2>3 DEF Written, Finished
        <3>2. r.size = sz - (q[1].left - 0) /\ sz \in Int
            BY <2>2, <3>1
        <3> QED BY <1>3, <3>1, <3>2, HeadFinished
    <2>4. CASE n # q[1].left
        <3>1. r.queue = [q EXCEPT ![1].left = @ - n] /\ r.size = sz - n /\ r.done = <<>>
            BY <2>1, <2>4 DEF Written, Finished
        <3>2. n \in Nat /\ n < q[1].left
            BY <2>2, <2>4
        <3> QED BY <1>3, <3>1, <3>2, HeadBegun
    <2> QED BY <2>3, <2>4
<1> QED BY <1>1, <1>2, <1>3
-----------------------------------------------------------------------------
(* The write queue.                                                        *)

QueueTypes ==
    /\ handle \in {"open", "closing", "closed"}
    /\ sent \in Seq(Packages) /\ queue \in Seq(Queued) /\ size \in Nat
    /\ completed \in Seq(Completed) /\ called \in Seq(Completed)

\* Every package is called back, completed or queued, in this order.
InOrder == sent = PackagesOf(called) \o PackagesOf(completed) \o PackagesOf(queue)

\* A handle that is closed has no requests.
ClosedEmpty == handle = "closed" => queue = <<>> /\ completed = <<>>

QueueInv == QueueTypes /\ Waiting(queue) /\ InOrder /\ ClosedEmpty /\ QueueSize

\* Requests have packages and numbers of bytes.
LEMMA RequestFields ==
    /\ \A x \in Queued : x.pkg \in Packages /\ x.left \in Nat
    /\ \A x \in Completed : x.pkg \in Packages /\ x.left \in Nat
BY DEF Queued, Completed

\* The packages of the three queues are sequences, and the numbers of their bytes natural.
LEMMA QueueFacts ==
    ASSUME QueueTypes
    PROVE  /\ PackagesOf(called) \in Seq(Packages) /\ PackagesOf(completed) \in Seq(Packages)
           /\ PackagesOf(queue) \in Seq(Packages)
           /\ BytesLeft(queue) \in Nat /\ BytesLeft(completed) \in Nat
           /\ Len(PackagesOf(called)) = Len(called) /\ Len(PackagesOf(queue)) = Len(queue)
           /\ Len(PackagesOf(completed)) = Len(completed)
<1>1. PackagesOf(called) \in Seq(Packages) /\ Len(PackagesOf(called)) = Len(called)
    BY RequestFields, PackagesSeq DEF QueueTypes
<1>2. PackagesOf(completed) \in Seq(Packages) /\ Len(PackagesOf(completed)) = Len(completed)
    BY RequestFields, PackagesSeq DEF QueueTypes
<1>3. PackagesOf(queue) \in Seq(Packages) /\ Len(PackagesOf(queue)) = Len(queue)
    BY RequestFields, PackagesSeq DEF QueueTypes
<1>4. BytesLeft(queue) \in Nat
    BY RequestFields, BytesOf DEF QueueTypes
<1>5. BytesLeft(completed) \in Nat
    BY RequestFields, BytesOf DEF QueueTypes
<1> QED BY <1>1, <1>2, <1>3, <1>4, <1>5

\* The queue with one more package.
LEMMA QueueAppend ==
    ASSUME QueueInv, NEW p \in Packages, NEW q, q = Append(queue, [pkg |-> p, left |-> Size(p)])
    PROVE  /\ q \in Seq(Queued) /\ Waiting(q) /\ q # <<>>
           /\ BytesLeft(q) = BytesLeft(queue) + Size(p)
           /\ Append(sent, p) = PackagesOf(called) \o PackagesOf(completed) \o PackagesOf(q)
<1> DEFINE x == [pkg |-> p, left |-> Size(p)]
<1>1. x \in Queued /\ x.pkg = p /\ x.left = Size(p) /\ Size(p) \in Nat \ {0}
    BY SizeType DEF Queued
<1>2. queue \in Seq(Queued) /\ Len(queue) \in Nat /\ Waiting(queue) /\ sent \in Seq(Packages)
    BY DEF QueueInv, QueueTypes
<1> HIDE DEF x
<1>3. /\ q \in Seq(Queued) /\ q # <<>> /\ Len(q) = Len(queue) + 1
      /\ \A i \in 1 .. Len(queue) : q[i] = queue[i]
      /\ q[Len(queue) + 1] = x /\ q = Append(queue, x) /\ q = queue \o <<x>>
    BY <1>1, <1>2, AppendProperties, AppendIsConcat DEF x
<1>4. Waiting(q)
    <2> SUFFICES ASSUME NEW i \in 1 .. Len(queue) + 1
                 PROVE  q[i].left \in 1 .. Size(q[i].pkg) /\ (i > 1 => q[i].left = Size(q[i].pkg))
        BY <1>3 DEF Waiting
    <2>1. CASE i \in 1 .. Len(queue)
        BY <1>2, <1>3, <2>1 DEF Waiting
    <2>2. CASE i = Len(queue) + 1
        BY <1>1, <1>3, <2>2
    <2> QED BY <1>2, <2>1, <2>2
<1>5. BytesLeft(q) = BytesLeft(queue) + Size(p)
    BY <1>1, <1>2, <1>3, BytesOf, RequestFields
<1>6. PackagesOf(q) = PackagesOf(queue) \o <<p>>
    <2>1. <<x>> \in Seq(Queued) /\ PackagesOf(<<x>>) = <<p>>
        BY <1>1, PackagesFew
    <2>2. PackagesOf(queue \o <<x>>) = PackagesOf(queue) \o PackagesOf(<<x>>)
        BY <1>2, <2>1, PackagesSeq, RequestFields
    <2> QED BY <1>3, <2>1, <2>2
<1>7. Append(sent, p) = PackagesOf(called) \o PackagesOf(completed) \o PackagesOf(q)
    <2> DEFINE A == PackagesOf(called) \o PackagesOf(completed)
               B == PackagesOf(queue)
    <2>1. A \in Seq(Packages) /\ B \in Seq(Packages) /\ <<p>> \in Seq(Packages)
        BY QueueFacts DEF QueueInv
    <2>2. sent = A \o B /\ PackagesOf(q) = B \o <<p>>
        BY <1>6 DEF QueueInv, InOrder
    <2>3. Append(sent, p) = sent \o <<p>>
        BY <1>2, AppendIsConcat
    <2> HIDE DEF A, B
    <2>4. (A \o B) \o <<p>> = A \o (B \o <<p>>)
        BY <2>1, ConcatAssociative
    <2> QED BY <2>2, <2>3, <2>4 DEF A
<1> QED BY <1>3, <1>4, <1>5, <1>7

\* uv_write2 keeps the queue in order.
LEMMA QueueWrite ==
    ASSUME QueueInv, NEW p \in Packages, do_write(p)
    PROVE  QueueInv'
<1> DEFINE q == Append(queue, [pkg |-> p, left |-> Size(p)])
           sz == size + Size(p)
<1>1. /\ q \in Seq(Queued) /\ Waiting(q)
      /\ BytesLeft(q) = BytesLeft(queue) + Size(p)
      /\ Append(sent, p) = PackagesOf(called) \o PackagesOf(completed) \o PackagesOf(q)
    BY QueueAppend
<1>2. /\ handle = "open" /\ UNCHANGED <<handle, called>> /\ sent' = Append(sent, p)
      /\ IF size = 0 THEN WriteAtOnce(q, sz) ELSE Enqueue(q, sz)
    BY DEF do_write
<1>3. /\ Size(p) \in Nat /\ sz \in Nat /\ BytesLeft(queue) \in Nat /\ BytesLeft(completed) \in Nat
      /\ size = BytesLeft(queue) + BytesLeft(completed) /\ sent' \in Seq(Packages)
      /\ completed \in Seq(Completed) /\ called \in Seq(Completed)
    BY <1>2, SizeType, QueueFacts, AppendProperties DEF QueueInv, QueueTypes, QueueSize
<1> HIDE DEF q
<1>4. CASE size # 0
    <2>1. queue' = q /\ size' = sz /\ UNCHANGED completed
        BY <1>2, <1>4 DEF Enqueue
    <2>2. QueueTypes' /\ Waiting(queue)' /\ InOrder' /\ ClosedEmpty'
        BY <1>1, <1>2, <1>3, <2>1 DEF QueueTypes, Waiting, InOrder, ClosedEmpty
    <2>3. QueueSize'
        BY <1>1, <1>3, <2>1 DEF QueueSize
    <2> QED BY <2>2, <2>3 DEF QueueInv
<1>5. CASE size = 0
    <2>1. PICK r \in uv__write(q, sz, TRUE) :
            queue' = r.queue /\ size' = r.size /\ completed' = completed \o r.done
        BY <1>2, <1>5 DEF WriteAtOnce
    <2>2. Accounts(q, sz, r)
        BY <1>1, <1>3, WriteAccounts
    <2>3. /\ r.queue \in Seq(Queued) /\ Waiting(r.queue) /\ r.done \in Seq(Completed) /\ r.size \in Int
          /\ PackagesOf(q) = PackagesOf(r.done) \o PackagesOf(r.queue)
          /\ r.size - BytesLeft(r.queue) - BytesLeft(r.done) = sz - BytesLeft(q)
        BY <2>2 DEF Accounts
    <2>4. /\ completed \o r.done \in Seq(Completed)
          /\ BytesLeft(completed \o r.done) = BytesLeft(completed) + BytesLeft(r.done)
          /\ BytesLeft(r.done) \in Nat
        BY <1>3, <2>3, ConcatProperties, BytesOf, RequestFields
    <2>5. BytesLeft(r.queue) \in Nat
        BY <2>3, BytesOf, RequestFields
    <2>6. size' = BytesLeft(queue') + BytesLeft(completed') /\ size' \in Nat
        <3>1. sz - BytesLeft(q) = BytesLeft(completed)
            BY <1>1, <1>3
        <3>2. r.size - BytesLeft(r.queue) - BytesLeft(r.done) = BytesLeft(completed)
            BY <2>3, <3>1
        <3>3. /\ r.size \in Int /\ BytesLeft(r.queue) \in Int /\ BytesLeft(r.done) \in Int
              /\ BytesLeft(completed) \in Int
            BY <1>3, <2>3, <2>4, <2>5
        <3>4. r.size = BytesLeft(r.queue) + (BytesLeft(completed) + BytesLeft(r.done))
            BY ONLY <3>2, <3>3
        <3> QED BY <1>3, <2>1, <2>4, <2>5, <3>4
    <2>7. QueueTypes' /\ Waiting(queue)' /\ QueueSize' /\ ClosedEmpty'
        BY <1>2, <1>3, <2>1, <2>3, <2>4, <2>6 DEF QueueTypes, Waiting, QueueSize, ClosedEmpty
    <2>8. InOrder'
        <3> DEFINE A == PackagesOf(called)
                   B == PackagesOf(completed)
                   C == PackagesOf(r.done)
                   D == PackagesOf(r.queue)
        <3>1. A \in Seq(Packages) /\ B \in Seq(Packages)
            BY QueueFacts DEF QueueInv
        <3>2. C \in Seq(Packages)
            BY <2>3, PackagesSeq, RequestFields
        <3>3. D \in Seq(Packages)
            BY <2>3, PackagesSeq, RequestFields
        <3>4. PackagesOf(completed \o r.done) = B \o C
            BY <1>3, <2>3, PackagesSeq, RequestFields
        <3>5. sent' = (A \o B) \o (C \o D)
            BY <1>1, <1>2, <2>3
        <3> HIDE DEF A, B, C, D
        <3>6. A \o B \in Seq(Packages)
            BY <3>1, ConcatProperties
        <3>7. \A E \in Seq(Packages) : E \o (C \o D) = (E \o C) \o D
            BY <3>2, <3>3, ConcatAssociative
        <3>8. (A \o B) \o C = A \o (B \o C)
            BY <3>1, <3>2, ConcatAssociative
        <3> QED BY <1>2, <2>1, <3>4, <3>5, <3>6, <3>7, <3>8 DEF InOrder, A, D
    <2> QED BY <2>7, <2>8 DEF QueueInv
<1> QED BY <1>4, <1>5

\* uv__stream_io keeps the queue in order.
LEMMA QueueIo ==
    ASSUME QueueInv, NEW good \in BOOLEAN, stream_io(good)
    PROVE  QueueInv'
<1>1. PICK r \in uv__write(queue, size, good) :
        /\ queue' = r.queue /\ completed' = <<>>
        /\ called' = called \o (completed \o r.done)
        /\ size' = r.size - BytesLeft(completed \o r.done)
    BY DEF stream_io, write_callbacks
<1>2. UNCHANGED <<handle, sent>> /\ handle = "open"
    BY DEF stream_io
<1>3. /\ queue \in Seq(Queued) /\ Waiting(queue) /\ size \in Nat /\ sent \in Seq(Packages)
      /\ completed \in Seq(Completed) /\ called \in Seq(Completed)
      /\ size = BytesLeft(queue) + BytesLeft(completed)
      /\ BytesLeft(queue) \in Nat /\ BytesLeft(completed) \in Nat
    BY QueueFacts DEF QueueInv, QueueTypes, QueueSize
<1>4. Accounts(queue, size, r)
    BY <1>3, WriteAccounts
<1>5. /\ r.queue \in Seq(Queued) /\ Waiting(r.queue) /\ r.done \in Seq(Completed) /\ r.size \in Int
      /\ PackagesOf(queue) = PackagesOf(r.done) \o PackagesOf(r.queue)
      /\ r.size - BytesLeft(r.queue) - BytesLeft(r.done) = size - BytesLeft(queue)
    BY <1>4 DEF Accounts
<1>6. /\ completed \o r.done \in Seq(Completed)
      /\ BytesLeft(completed \o r.done) = BytesLeft(completed) + BytesLeft(r.done)
      /\ BytesLeft(r.done) \in Nat
    BY <1>3, <1>5, ConcatProperties, BytesOf, RequestFields
<1>7. called \o (completed \o r.done) \in Seq(Completed)
    BY <1>3, <1>6, ConcatProperties
<1>8. size' = BytesLeft(r.queue) /\ BytesLeft(r.queue) \in Nat
    <2>1. BytesLeft(r.queue) \in Nat
        BY <1>5, BytesOf, RequestFields
    <2>2. size - BytesLeft(queue) = BytesLeft(completed)
        BY <1>3
    <2>3. r.size - BytesLeft(r.queue) - BytesLeft(r.done) = BytesLeft(completed)
        BY <1>5, <2>2
    <2>4. size' = r.size - (BytesLeft(completed) + BytesLeft(r.done))
        BY <1>1, <1>6
    <2>5. /\ r.size \in Int /\ BytesLeft(r.queue) \in Int /\ BytesLeft(r.done) \in Int
          /\ BytesLeft(completed) \in Int
        BY <1>3, <1>5, <1>6, <2>1
    <2>6. size' = BytesLeft(r.queue)
        BY ONLY <2>3, <2>4, <2>5
    <2> QED BY <2>1, <2>6
<1>9. QueueTypes' /\ Waiting(queue)' /\ ClosedEmpty'
    BY <1>1, <1>2, <1>3, <1>5, <1>7, <1>8 DEF QueueTypes, Waiting, ClosedEmpty
<1>10. QueueSize'
    BY <1>1, <1>8, BytesFew DEF QueueSize
<1>11. InOrder'
    <2> DEFINE A == PackagesOf(called)
               B == PackagesOf(completed)
               C == PackagesOf(r.done)
               D == PackagesOf(r.queue)
    <2>1. A \in Seq(Packages) /\ B \in Seq(Packages)
        BY QueueFacts DEF QueueInv
    <2>2. C \in Seq(Packages)
        BY <1>5, PackagesSeq, RequestFields
    <2>3. D \in Seq(Packages)
        BY <1>5, PackagesSeq, RequestFields
    <2>4. PackagesOf(completed \o r.done) = B \o C
        BY <1>3, <1>5, PackagesSeq, RequestFields
    <2>5. PackagesOf(called \o (completed \o r.done)) = A \o (B \o C)
        <3>1. PICK d \in Seq(Completed) : d = completed \o r.done
            BY <1>6
        <3>2. PackagesOf(called \o d) = PackagesOf(called) \o PackagesOf(d)
            <4>1. called \in Seq(Completed) /\ d \in Seq(Completed)
                BY <1>3
            <4>2. \A x \in Completed : x.pkg \in Packages
                BY RequestFields
            <4> QED BY ONLY <4>1, <4>2, PackagesSeq
        <3> QED BY <2>4, <3>1, <3>2
    <2>6. sent = (A \o B) \o (C \o D)
        BY <1>5 DEF QueueInv, InOrder
    <2>7. sent' = sent /\ PackagesOf(called') = A \o (B \o C) /\ PackagesOf(queue') = D
        BY <1>1, <1>2, <2>5
    <2>8. PackagesOf(completed') = <<>>
        BY <1>1, PackagesFew
    <2> HIDE DEF A, B, C, D
    <2>9. A \o B \in Seq(Packages)
        BY <2>1, ConcatProperties
    <2>10. \A E \in Seq(Packages) : E \o (C \o D) = (E \o C) \o D
        BY <2>2, <2>3, ConcatAssociative
    <2>11. (A \o B) \o C = A \o (B \o C)
        BY <2>1, <2>2, ConcatAssociative
    <2>12. A \o (B \o C) \in Seq(Packages)
        BY <2>1, <2>2, ConcatProperties
    <2>13. (A \o (B \o C)) \o <<>> = A \o (B \o C)
        BY <2>12, ConcatEmptySeq
    <2> QED BY <2>6, <2>7, <2>8, <2>9, <2>10, <2>11, <2>13 DEF InOrder
<1> QED BY <1>9, <1>10, <1>11 DEF QueueInv

\* The cancelled requests are those of the queue.
LEMMA CancelledRequests ==
    ASSUME QueueInv
    PROVE  /\ Cancelled \in Seq(Completed) /\ PackagesOf(Cancelled) = PackagesOf(queue)
           /\ BytesLeft(Cancelled) = BytesLeft(queue)
<1>1. /\ Len(queue) \in Nat /\ DOMAIN queue = 1 .. Len(queue)
      /\ \A i \in 1 .. Len(queue) : queue[i] \in Queued
    BY DEF QueueInv, QueueTypes
<1>2. Cancelled = [i \in 1 .. Len(queue) |->
                    [pkg |-> queue[i].pkg, left |-> queue[i].left, failed |-> TRUE]]
    BY <1>1 DEF Cancelled
<1>3. \A i \in 1 .. Len(queue) :
        [pkg |-> queue[i].pkg, left |-> queue[i].left, failed |-> TRUE] \in Completed
    BY <1>1 DEF Queued, Completed
<1>4. /\ Cancelled \in Seq(Completed) /\ Len(Cancelled) = Len(queue) /\ DOMAIN Cancelled = DOMAIN queue
      /\ \A i \in DOMAIN queue : Cancelled[i].pkg = queue[i].pkg /\ Cancelled[i].left = queue[i].left
    BY <1>1, <1>2, <1>3
<1>5. PackagesOf(Cancelled) = PackagesOf(queue)
    BY <1>4 DEF PackagesOf
<1>6. Unwritten(Cancelled) = Unwritten(queue)
    BY <1>4 DEF Unwritten
<1> QED BY <1>4, <1>5, <1>6 DEF BytesLeft

\* uv__stream_destroy calls every request back.
LEMMA QueueDestroy ==
    ASSUME QueueInv, stream_destroy
    PROVE  QueueInv'
<1>1. /\ queue' = <<>> /\ completed' = <<>> /\ handle' = "closed" /\ UNCHANGED sent
      /\ called' = called \o (completed \o Cancelled)
      /\ size' = size - BytesLeft(completed \o Cancelled)
    BY DEF stream_destroy, write_callbacks
<1>2. /\ size \in Nat /\ sent \in Seq(Packages)
      /\ completed \in Seq(Completed) /\ called \in Seq(Completed)
      /\ size = BytesLeft(queue) + BytesLeft(completed)
      /\ BytesLeft(queue) \in Nat /\ BytesLeft(completed) \in Nat
    BY QueueFacts DEF QueueInv, QueueTypes, QueueSize
<1>3. /\ Cancelled \in Seq(Completed) /\ PackagesOf(Cancelled) = PackagesOf(queue)
      /\ BytesLeft(Cancelled) = BytesLeft(queue)
    BY CancelledRequests
<1>4. /\ completed \o Cancelled \in Seq(Completed)
      /\ BytesLeft(completed \o Cancelled) = BytesLeft(completed) + BytesLeft(queue)
    BY <1>2, <1>3, ConcatProperties, BytesOf, RequestFields
<1>5. called' \in Seq(Completed)
    BY <1>1, <1>2, <1>4, ConcatProperties
<1>6. size' = 0
    BY <1>1, <1>2, <1>4
<1>7. QueueTypes' /\ Waiting(queue)' /\ ClosedEmpty'
    BY <1>1, <1>2, <1>5, <1>6 DEF QueueTypes, Waiting, ClosedEmpty
<1>8. QueueSize'
    BY <1>1, <1>6, BytesFew DEF QueueSize
<1>9. InOrder'
    <2> DEFINE A == PackagesOf(called)
               B == PackagesOf(completed)
               C == PackagesOf(queue)
    <2>1. A \in Seq(Packages) /\ B \in Seq(Packages) /\ C \in Seq(Packages)
        BY QueueFacts DEF QueueInv
    <2>2. PackagesOf(completed \o Cancelled) = B \o C
        BY <1>2, <1>3, PackagesSeq, RequestFields
    <2>3. PackagesOf(called') = A \o (B \o C)
        BY <1>1, <1>2, <1>4, <2>2, PackagesSeq, RequestFields
    <2>4. PackagesOf(queue') = <<>> /\ PackagesOf(completed') = <<>>
        BY <1>1, PackagesFew
    <2>5. sent' = (A \o B) \o C
        BY <1>1 DEF QueueInv, InOrder
    <2> HIDE DEF A, B, C
    <2>6. (A \o B) \o C = A \o (B \o C) /\ A \o (B \o C) \in Seq(Packages)
        BY <2>1, ConcatAssociative, ConcatProperties
    <2>7. A \o (B \o C) \o <<>> \o <<>> = A \o (B \o C)
        BY <2>6, ConcatEmptySeq
    <2> QED BY <2>3, <2>4, <2>5, <2>6, <2>7 DEF InOrder
<1> QED BY <1>7, <1>8, <1>9 DEF QueueInv

\* Every step keeps the queue in order.
LEMMA QueueInvHolds == Spec => []QueueInv
<1>1. Init => QueueInv
    <2> SUFFICES ASSUME Init PROVE QueueInv
        OBVIOUS
    <2>1. PackagesOf(<<>>) = <<>> /\ BytesLeft(<<>>) = 0
        BY PackagesFew, BytesFew
    <2>2. InOrder
        <3>1. <<>> = <<>> \o <<>> \o <<>>
            OBVIOUS
        <3> QED BY <2>1, <3>1 DEF Init, InOrder
    <2>3. QueueSize
        BY <2>1 DEF Init, QueueSize
    <2> QED BY <2>2, <2>3 DEF Init, QueueInv, QueueTypes, Waiting, ClosedEmpty
<1>2. QueueInv /\ [Next]_vars => QueueInv'
    <2> SUFFICES ASSUME QueueInv, [Next]_vars PROVE QueueInv'
        OBVIOUS
    <2>1. ASSUME UNCHANGED <<sent, queue, size, completed, called>>,
                 handle' = handle \/ handle' = "closing"
          PROVE  QueueInv'
        BY <2>1 DEF QueueInv, QueueTypes, Waiting, InOrder, ClosedEmpty, QueueSize
    <2>2. ASSUME NEW n, read_cb(n) PROVE QueueInv'
        BY <2>1, <2>2 DEF read_cb, sendVars
    <2>3. CASE PeerCloses \/ uv_close \/ UNCHANGED vars
        BY <2>1, <2>3 DEF PeerCloses, uv_close, sendVars, vars
    <2> QED BY <2>2, <2>3, QueueWrite, QueueIo, QueueDestroy DEF Next
<1> QED BY <1>1, <1>2, PTL DEF Spec

\* Whatever the kernel takes at a time and whenever either end closes, uv__write,
\* uv__write_callbacks and uv__stream_flush_write_queue call every package back once, in the
\* order of the calls of uv_write, and all of them before the close callback.
THEOREM WritesAccountedCorrect == Spec => []WritesAccounted
<1>1. QueueInv => WritesAccounted
    <2> SUFFICES ASSUME QueueInv PROVE WritesAccounted
        OBVIOUS
    <2>1. ASSUME handle = "closed" PROVE Len(called) = Len(sent)
        <3>1. PackagesOf(queue) = <<>> /\ PackagesOf(completed) = <<>>
            BY <2>1, PackagesFew DEF QueueInv, ClosedEmpty
        <3>2. PackagesOf(called) \in Seq(Packages) /\ Len(PackagesOf(called)) = Len(called)
            BY QueueFacts DEF QueueInv
        <3>3. PackagesOf(called) \o <<>> \o <<>> = PackagesOf(called)
            BY <3>2, ConcatEmptySeq
        <3> QED BY <3>1, <3>2, <3>3 DEF QueueInv, InOrder
    <2> QED BY <2>1 DEF QueueInv, InOrder, WritesAccounted
<1> QED BY <1>1, QueueInvHolds, PTL

\* write_queue_size is at all times what is left to write, with what failed and was not
\* called back: uv_write2 never writes past other packages, and the assertion in
\* uv__stream_destroy holds.
THEOREM QueueSizeCorrect == Spec => []QueueSize
<1>1. QueueInv => QueueSize
    BY DEF QueueInv
<1> QED BY <1>1, QueueInvHolds, PTL
=============================================================================
