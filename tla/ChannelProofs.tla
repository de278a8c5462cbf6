---------------------------- MODULE ChannelProofs ---------------------------
(***************************************************************************)
(* Stream implements Channel: packages that are cut into chunks anywhere   *)
(* arrive whole, once and in order.  Induction over bytes is done with the *)
(* least counterexample.                                                   *)
(***************************************************************************)
EXTENDS StreamProofs, WellFoundedInduction

-----------------------------------------------------------------------------
(* Induction.                                                              *)

\* A set that has every number all of whose predecessors it has, has every number.
LEMMA SetInduction ==
    ASSUME NEW S, \A n \in Nat : (\A m \in Nat : m < n => m \in S) => n \in S
    PROVE  \A n \in Nat : n \in S
<1> DEFINE R == {ss \in Nat \X Nat : ss[1] < ss[2]}
           T == {n \in Nat : n \notin S}
<1>1. IsWellFoundedOn(R, Nat)
    <2>1. OpToRel(<, Nat) = R
        BY DEF OpToRel
    <2> QED BY <2>1, NatLessThanWellFounded
<1>2. \A m, n \in Nat : <<m, n>> \in R <=> m < n
    OBVIOUS
<1>3. T \subseteq Nat
    OBVIOUS
<1>4. ASSUME T # {} PROVE FALSE
    <2>1. PICK n \in T : \A m \in T : ~ (<<m, n>> \in R)
        <3> HIDE DEF R, T
        <3> QED BY <1>1, <1>3, <1>4, WFMin
    <2>2. n \in Nat /\ n \notin S
        OBVIOUS
    <2>3. \A m \in Nat : m < n => m \in S
        BY <1>2, <2>1, <2>2
    <2> QED BY <2>2, <2>3
<1> QED BY <1>4
-----------------------------------------------------------------------------
(* The loop over proto_parse_package ends: parse is what its definition    *)
(* says.                                                                   *)

\* One turn of the loop, with g for the turns that follow.
Turn(g, b) ==
    IF Len(b) < Header THEN [pkgs |-> <<>>, rest |-> b, damaged |-> FALSE]
    ELSE IF ~HeaderGood(b) THEN [pkgs |-> <<>>, rest |-> b, damaged |-> TRUE]
    ELSE IF requireLen(b) > Len(b) THEN [pkgs |-> <<>>, rest |-> b, damaged |-> FALSE]
    ELSE IF \E i \in 1 .. requireLen(b) : ~b[i].good
         THEN [pkgs |-> <<>>, rest |-> b, damaged |-> TRUE]
    ELSE LET r == g[SubSeq(b, requireLen(b) + 1, Len(b))]
         IN [r EXCEPT !.pkgs = <<b[1].pkg>> \o @]

\* The bytes after the first package.
After(b) == SubSeq(b, requireLen(b) + 1, Len(b))

\* Another turn has fewer bytes.
LEMMA FewerBytes ==
    ASSUME NEW b \in Seq(Byte), ~(Len(b) < Header)
    PROVE  /\ b[1] \in Byte /\ requireLen(b) = Size(b[1].pkg)
           /\ requireLen(b) \in Nat \ {0} /\ requireLen(b) >= Header
           /\ ~(requireLen(b) > Len(b)) => /\ After(b) \in Seq(Byte)
                                           /\ Len(After(b)) = Len(b) - requireLen(b)
                                           /\ Len(After(b)) < Len(b)
                                           /\ \A i \in 1 .. Len(b) - requireLen(b) :
                                                After(b)[i] = b[requireLen(b) + i]
<1>1. Len(b) \in Nat /\ Len(b) >= 1 /\ Header \in Nat \ {0}
    BY StreamAssumption
<1>2. b[1] \in Byte /\ \A i \in 1 .. Len(b) : b[i] \in Byte
    BY <1>1
<1>3. b[1].pkg \in Packages
    BY <1>2 DEF Byte
<1>4. requireLen(b) = Size(b[1].pkg)
    BY DEF requireLen, Size
<1>5. requireLen(b) \in Nat \ {0} /\ requireLen(b) >= Header
    BY <1>3, <1>4, SizeType
<1>6. ASSUME ~(requireLen(b) > Len(b))
      PROVE  /\ After(b) \in Seq(Byte) /\ Len(After(b)) = Len(b) - requireLen(b)
             /\ Len(After(b)) < Len(b)
             /\ \A i \in 1 .. Len(b) - requireLen(b) : After(b)[i] = b[requireLen(b) + i]
    <2>1. PICK m \in Nat \ {0} : m = requireLen(b)
        BY <1>5
    <2>2. m <= Len(b) /\ \A i \in m + 1 .. Len(b) : b[i] \in Byte
        BY <1>1, <1>2, <1>6, <2>1
    <2>3. m + 1 \in Int /\ Len(b) \in Int
        BY <1>1
    <2>4. /\ SubSeq(b, m + 1, Len(b)) \in Seq(Byte)
          /\ Len(SubSeq(b, m + 1, Len(b))) = IF m + 1 <= Len(b) THEN Len(b) - (m + 1) + 1 ELSE 0
          /\ \A i \in 1 .. Len(b) - (m + 1) + 1 : SubSeq(b, m + 1, Len(b))[i] = b[m + 1 + i - 1]
        BY <2>2, <2>3, SubSeqProperties
    <2>5. Len(SubSeq(b, m + 1, Len(b))) = Len(b) - m
        BY <1>1, <2>2, <2>4
    <2>6. \A i \in 1 .. Len(b) - m : SubSeq(b, m + 1, Len(b))[i] = b[m + i]
        BY <1>1, <2>4
    <2>7. Len(b) - m < Len(b)
        BY <1>1
    <2> QED BY <2>1, <2>4, <2>5, <2>6, <2>7 DEF After
<1> QED BY <1>2, <1>4, <1>5, <1>6

\* A turn asks g only about fewer bytes.
LEMMA TurnLocal ==
    ASSUME NEW b \in Seq(Byte), NEW g, NEW h,
           \A c \in Seq(Byte) : Len(c) < Len(b) => g[c] = h[c]
    PROVE  Turn(g, b) = Turn(h, b)
<1>1. CASE ~(Len(b) < Header) /\ ~(requireLen(b) > Len(b))
    <2>1. g[After(b)] = h[After(b)]
        BY <1>1, FewerBytes
    <2> QED BY <2>1 DEF Turn, After
<1>2. CASE Len(b) < Header \/ requireLen(b) > Len(b)
    BY <1>2 DEF Turn
<1> QED BY <1>1, <1>2

\* At most n bytes, and a function that does the loop for them.
Upto(n) == {b \in Seq(Byte) : Len(b) <= n}
Loops(g, n) == g = [b \in Upto(n) |-> Turn(g, b)]

\* Two such functions agree.
LEMMA LoopsAgree ==
    ASSUME NEW m \in Nat, NEW n \in Nat, NEW g, NEW h, Loops(g, m), Loops(h, n)
    PROVE  \A b \in Upto(m) \cap Upto(n) : g[b] = h[b]
<1> DEFINE S == {k \in Nat : \A b \in Upto(m) \cap Upto(n) : Len(b) = k => g[b] = h[b]}
<1>1. ASSUME NEW k \in Nat, \A j \in Nat : j < k => j \in S PROVE k \in S
    <2> SUFFICES ASSUME NEW b \in Upto(m) \cap Upto(n), Len(b) = k PROVE g[b] = h[b]
        OBVIOUS
    <2>1. g[b] = Turn(g, b)
        BY DEF Loops
    <2>2. h[b] = Turn(h, b)
        BY DEF Loops
    <2>3. ASSUME NEW c \in Seq(Byte), Len(c) < Len(b) PROVE g[c] = h[c]
        <3>1. c \in Upto(m) \cap Upto(n) /\ Len(c) \in Nat
            BY <2>3 DEF Upto
        <3>2. Len(c) \in S
            BY <1>1, <2>3, <3>1
        <3> QED BY <3>1, <3>2
    <2>4. Turn(g, b) = Turn(h, b)
        BY <2>3, TurnLocal DEF Upto
    <2> QED BY <2>1, <2>2, <2>4
<1> HIDE DEF S
<1>2. \A k \in Nat : k \in S
    BY <1>1, SetInduction
<1> QED BY <1>2 DEF S, Upto

\* There is one for every n.
LEMMA LoopsExist == \A n \in Nat : \E g : Loops(g, n)
<1> DEFINE S == {n \in Nat : \E g : Loops(g, n)}
<1>1. ASSUME NEW n \in Nat, \A m \in Nat : m < n => m \in S PROVE n \in S
    <2>1. PICK g : n # 0 => Loops(g, n - 1)
        <3>1. CASE n = 0
            BY <3>1
        <3>2. CASE n # 0
            <4>1. n - 1 \in Nat /\ n - 1 < n
                BY <3>2
            <4> QED BY <1>1, <4>1
        <3> QED BY <3>1, <3>2
    <2> DEFINE h == [b \in Upto(n) |-> Turn(g, b)]
    <2>2. ASSUME NEW b \in Upto(n) PROVE Turn(g, b) = Turn(h, b)
        <3>1. ASSUME NEW c \in Seq(Byte), Len(c) < Len(b) PROVE g[c] = h[c]
            <4>1. n # 0 /\ c \in Upto(n - 1) /\ c \in Upto(n)
                BY <2>2, <3>1 DEF Upto
            <4>2. g[c] = Turn(g, c)
                BY <2>1, <4>1 DEF Loops
            <4> QED BY <4>1, <4>2
        <3> HIDE DEF h
        <3> QED BY <2>2, <3>1, TurnLocal DEF Upto
    <2>3. h = [b \in Upto(n) |-> Turn(h, b)]
        <3> DEFINE f == [b \in Upto(n) |-> Turn(h, b)]
        <3>1. \A b \in Upto(n) : h[b] = f[b]
            BY <2>2
        <3> QED BY <3>1
    <2> QED BY <2>3 DEF Loops
<1> HIDE DEF S
<1>2. \A n \in Nat : n \in S
    BY <1>1, SetInduction
<1> QED BY <1>2 DEF S

\* So parse is well defined.
LEMMA ParseEquation == \A b \in Seq(Byte) : parse[b] = Turn(parse, b)
<1> DEFINE loop(n) == CHOOSE g : Loops(g, n)
           f == [b \in Seq(Byte) |-> loop(Len(b))[b]]
<1>1. \A n \in Nat : Loops(loop(n), n)
    BY LoopsExist
<1>2. ASSUME NEW b \in Seq(Byte) PROVE f[b] = Turn(f, b)
    <2> DEFINE n == Len(b)
    <2>1. n \in Nat /\ b \in Upto(n) /\ Loops(loop(n), n)
        BY <1>1 DEF Upto
    <2>2. f[b] = loop(n)[b]
        OBVIOUS
    <2>3. loop(n)[b] = Turn(loop(n), b)
        <3> HIDE DEF loop
        <3> QED BY <2>1 DEF Loops
    <2>4. ASSUME NEW c \in Seq(Byte), Len(c) < Len(b) PROVE f[c] = loop(n)[c]
        <3>1. Len(c) \in Nat /\ Loops(loop(Len(c)), Len(c)) /\ c \in Upto(Len(c)) \cap Upto(n)
            BY <1>1, <2>4 DEF Upto
        <3>2. loop(Len(c))[c] = loop(n)[c]
            <4> HIDE DEF loop, n
            <4> QED BY <2>1, <3>1, LoopsAgree
        <3> QED BY <3>2
    <2>5. Turn(f, b) = Turn(loop(n), b)
        <3> HIDE DEF f, loop, n
        <3> QED BY <2>4, TurnLocal
    <2> QED BY <2>2, <2>3, <2>5
<1>3. f = [b \in Seq(Byte) |-> Turn(f, b)]
    <2> DEFINE h == [b \in Seq(Byte) |-> Turn(f, b)]
    <2>1. \A b \in Seq(Byte) : f[b] = h[b]
        BY <1>2
    <2> QED BY <2>1
<1>4. parse = CHOOSE g : g = [b \in Seq(Byte) |-> Turn(g, b)]
    BY DEF parse, Turn
<1>5. parse = [b \in Seq(Byte) |-> Turn(parse, b)]
    <2> HIDE DEF f
    <2> QED BY <1>3, <1>4
<1> QED BY <1>5
-----------------------------------------------------------------------------
(* Types.                                                                  *)

\* What the loop over proto_parse_package leaves.
Outcome == [pkgs : Seq(Packages), rest : Seq(Byte), damaged : BOOLEAN]

LEMMA ParseType == \A b \in Seq(Byte) : parse[b] \in Outcome
<1> DEFINE S == {k \in Nat : \A b \in Seq(Byte) : Len(b) = k => parse[b] \in Outcome}
<1>1. ASSUME NEW k \in Nat, \A j \in Nat : j < k => j \in S PROVE k \in S
    <2> SUFFICES ASSUME NEW b \in Seq(Byte), Len(b) = k PROVE parse[b] \in Outcome
        OBVIOUS
    <2>1. parse[b] = Turn(parse, b)
        BY ParseEquation
    <2>2. CASE Turn(parse, b) \in {[pkgs |-> <<>>, rest |-> b, damaged |-> d] : d \in BOOLEAN}
        <3>1. PICK d \in BOOLEAN : parse[b] = [pkgs |-> <<>>, rest |-> b, damaged |-> d]
            BY <2>1, <2>2
        <3>2. <<>> \in Seq(Packages)
            OBVIOUS
        <3> QED BY <3>1, <3>2 DEF Outcome
    <2>3. CASE /\ ~(Len(b) < Header) /\ ~(requireLen(b) > Len(b))
               /\ Turn(parse, b) = [parse[After(b)] EXCEPT !.pkgs = <<b[1].pkg>> \o @]
        <3>1. b[1].pkg \in Packages /\ After(b) \in Seq(Byte) /\ Len(After(b)) < Len(b)
            BY <2>3, FewerBytes DEF Byte
        <3>2. parse[After(b)] \in Outcome
            BY <1>1, <3>1
        <3>3. PICK r \in Outcome : r = parse[After(b)]
            BY <3>2
        <3>4. r.pkgs \in Seq(Packages) /\ <<b[1].pkg>> \in Seq(Packages)
            BY <3>1 DEF Outcome
        <3>5. <<b[1].pkg>> \o r.pkgs \in Seq(Packages)
            BY <3>4, ConcatProperties
        <3>6. [r EXCEPT !.pkgs = <<b[1].pkg>> \o @] \in Outcome
            BY <3>5 DEF Outcome
        <3> QED BY <2>1, <2>3, <3>3, <3>6
    <2> QED BY <2>2, <2>3 DEF Turn, After
<1> HIDE DEF S
<1>2. \A k \in Nat : k \in S
    BY <1>1, SetInduction
<1> QED BY <1>2 DEF S

\* The bytes that uv__write hands to the kernel.
LEMMA WriteBytes ==
    ASSUME NEW q \in Seq(Queued), Waiting(q), NEW sz \in Nat, NEW good \in BOOLEAN,
           NEW r \in uv__write(q, sz, good), watching \in BOOLEAN
    PROVE  r.bytes \in Seq(Byte) /\ r.watching \in BOOLEAN
<1>1. CASE q = <<>>
    <2>1. r.bytes = <<>> /\ r.watching = watching
        BY <1>1 DEF uv__write
    <2> QED BY <2>1
<1>2. CASE q # <<>> /\ reset
    <2>1. r = Failed(q, sz)
        BY <1>2 DEF uv__write
    <2>2. r.bytes = <<>>
        BY <2>1 DEF Failed
    <2>3. r.watching = FALSE
        BY <2>1 DEF Failed
    <2>4. r.watching \in BOOLEAN
        BY <2>3, Zenon
    <2> QED BY <2>2, <2>4
<1>3. CASE q # <<>> /\ ~reset
    <2>1. PICK n \in 0 .. q[1].left : r = Written(q, sz, n, good)
        BY <1>3 DEF uv__write
    <2>2. q[1].left \in Nat /\ q[1].pkg \in Packages
        BY <1>3, QueueHead
    <2>3. q[1].left \in 1 .. Size(q[1].pkg) /\ Size(q[1].pkg) \in Nat
        <3>1. 1 \in 1 .. Len(q)
            BY <1>3, EmptySeq
        <3> QED BY <2>2, <3>1, SizeType DEF Waiting
    <2>4. \A i \in 1 .. n : Size(q[1].pkg) - q[1].left + i \in Nat \ {0}
        BY <2>2, <2>3
    <2>5. r.bytes = [i \in 1 .. n |-> [pkg |-> q[1].pkg, good |-> good,
                                       at |-> Size(q[1].pkg) - q[1].left + i]]
        BY <2>1 DEF Written
    <2>6. \A i \in 1 .. n : [pkg |-> q[1].pkg, good |-> good,
                             at |-> Size(q[1].pkg) - q[1].left + i] \in Byte
        BY <2>2, <2>4 DEF Byte
    <2>7. r.bytes \in Seq(Byte)
        BY <2>2, <2>5, <2>6
    <2>8. r.watching \in BOOLEAN
        BY <2>1 DEF Written, Watch
    <2> QED BY <2>7, <2>8
<1> QED BY <1>1, <1>2, <1>3

Flags == /\ watching \in BOOLEAN /\ fed \in BOOLEAN /\ waited \in BOOLEAN
         /\ reset \in BOOLEAN /\ whole \in BOOLEAN

ByteTypes == Flags /\ wire \in Seq(Byte) /\ cache \in Seq(Byte) /\ got \in Seq(Packages)

\* A step that neither writes nor reads.
LEMMA TypesStay ==
    ASSUME ByteTypes, UNCHANGED <<cache, got, whole, waited>>, wire' \in Seq(Byte),
           watching' \in BOOLEAN, fed' \in BOOLEAN, reset' \in BOOLEAN
    PROVE  ByteTypes'
<1>1. whole' \in BOOLEAN /\ waited' \in BOOLEAN
    BY DEF ByteTypes, Flags
<1> QED BY <1>1 DEF ByteTypes, Flags

LEMMA TypesStep ==
    ASSUME QueueInv, ByteTypes, [Next]_vars
    PROVE  ByteTypes'
<1>1. /\ queue \in Seq(Queued) /\ Waiting(queue) /\ size \in Nat /\ watching \in BOOLEAN
      /\ wire \in Seq(Byte) /\ cache \in Seq(Byte) /\ got \in Seq(Packages)
    BY DEF QueueInv, QueueTypes, ByteTypes, Flags
<1>2. fed \in BOOLEAN /\ waited \in BOOLEAN /\ reset \in BOOLEAN /\ whole \in BOOLEAN
    BY DEF ByteTypes, Flags
<1>3. ASSUME NEW p \in Packages, do_write(p) PROVE ByteTypes'
    <2> DEFINE q == Append(queue, [pkg |-> p, left |-> Size(p)])
               sz == size + Size(p)
    <2>1. q \in Seq(Queued) /\ Waiting(q)
        BY QueueAppend
    <2>2. sz \in Nat
        BY <1>1, SizeType
    <2>3. IF size = 0 THEN WriteAtOnce(q, sz) ELSE Enqueue(q, sz)
        BY <1>3 DEF do_write
    <2>4. UNCHANGED <<cache, got, whole, reset>>
        BY <1>3 DEF do_write, readVars
    <2> HIDE DEF q, sz
    <2>5. CASE size # 0
        <3>1. waited' = TRUE /\ watching' = TRUE /\ UNCHANGED <<fed, wire>>
            BY <2>3, <2>5 DEF Enqueue
        <3>2. waited' \in BOOLEAN /\ watching' \in BOOLEAN
            BY <3>1, Zenon
        <3> QED BY <1>1, <1>2, <2>4, <3>1, <3>2 DEF ByteTypes, Flags
    <2>6. CASE size = 0
        <3>1. PICK r \in uv__write(q, sz, TRUE) :
                /\ watching' = r.watching /\ fed' = (fed \/ r.done # <<>>)
                /\ wire' = wire \o r.bytes /\ waited' = (waited \/ r.queue # <<>>)
            BY <2>3, <2>6 DEF WriteAtOnce
        <3>2. r.bytes \in Seq(Byte) /\ r.watching \in BOOLEAN
            BY <1>1, <2>1, <2>2, WriteBytes
        <3>3. wire' \in Seq(Byte)
            BY <1>1, <3>1, <3>2, ConcatProperties
        <3>4. watching' \in BOOLEAN /\ fed' \in BOOLEAN /\ waited' \in BOOLEAN
            BY <3>1, <3>2
        <3> QED BY <1>1, <1>2, <2>4, <3>3, <3>4 DEF ByteTypes, Flags
    <2> QED BY <2>5, <2>6
<1>4. ASSUME NEW good \in BOOLEAN, stream_io(good) PROVE ByteTypes'
    <2>1. PICK r \in uv__write(queue, size, good) :
            /\ watching' = (r.watching /\ r.queue # <<>>) /\ fed' = (r.done # <<>>)
            /\ wire' = wire \o r.bytes
        BY <1>4 DEF stream_io
    <2>2. UNCHANGED <<waited, reset, cache, got, whole>>
        BY <1>4 DEF stream_io, readVars
    <2>3. r.bytes \in Seq(Byte) /\ r.watching \in BOOLEAN
        BY <1>1, WriteBytes
    <2>4. wire' \in Seq(Byte)
        BY <1>1, <2>1, <2>3, ConcatProperties
    <2>5. watching' \in BOOLEAN /\ fed' \in BOOLEAN /\ reset' \in BOOLEAN
        BY <1>2, <2>1, <2>2
    <2> QED BY <2>2, <2>4, <2>5, TypesStay
<1>5. ASSUME NEW n \in 1 .. Room, read_cb(n) PROVE ByteTypes'
    <2>1. /\ n \in 1 .. Len(wire) /\ wire' = SubSeq(wire, n + 1, Len(wire))
          /\ UNCHANGED <<watching, fed, waited, reset>>
        BY <1>5 DEF read_cb, sendVars
    <2>2. Len(wire) \in Nat /\ \A i \in 1 .. Len(wire) : wire[i] \in Byte
        BY <1>1
    <2>3. n \in Nat /\ n + 1 \in Int /\ Len(wire) \in Int
        BY <2>1, <2>2
    <2>4. wire' \in Seq(Byte)
        <3>1. \A i \in n + 1 .. Len(wire) : wire[i] \in Byte
            BY <2>2, <2>3
        <3> QED BY <2>1, <2>3, <3>1, SubSeqProperties
    <2>5. Content(n) \in Seq(Byte)
        <3>1. \A i \in 1 .. n : wire[i] \in Byte
            BY <2>1, <2>2
        <3>2. SubSeq(wire, 1, n) \in Seq(Byte)
            BY <2>3, <3>1, SubSeqProperties
        <3> QED BY <1>1, <3>2, ConcatProperties DEF Content
    <2>6. CASE whole
        <3>1. PICK r \in Outcome : r = parse[Content(n)]
            BY <2>5, ParseType
        <3>2. /\ got' = got \o r.pkgs /\ cache' = IF r.damaged THEN <<>> ELSE r.rest
              /\ whole' = ~r.damaged
            BY <1>5, <2>6, <3>1 DEF read_cb
        <3>3. r.pkgs \in Seq(Packages) /\ r.rest \in Seq(Byte) /\ <<>> \in Seq(Byte)
            BY DEF Outcome
        <3>4. got' \in Seq(Packages)
            BY <1>1, <3>2, <3>3, ConcatProperties
        <3>5. cache' \in Seq(Byte)
            BY <3>2, <3>3
        <3>6. whole' \in BOOLEAN
            BY <3>2
        <3> QED BY <1>1, <1>2, <2>1, <2>4, <3>4, <3>5, <3>6 DEF ByteTypes, Flags
    <2>7. CASE ~whole
        <3>1. UNCHANGED <<cache, got, whole>>
            BY <1>5, <2>7 DEF read_cb, readVars
        <3> QED BY <1>1, <1>2, <2>1, <2>4, <3>1, TypesStay
    <2> QED BY <2>6, <2>7
<1>6. CASE uv_close
    <2>1. /\ watching' = FALSE /\ fed' = FALSE
          /\ UNCHANGED <<waited, reset, wire, cache, got, whole>>
        BY <1>6 DEF uv_close, readVars
    <2>2. watching' \in BOOLEAN /\ fed' \in BOOLEAN
        BY <2>1, Zenon
    <2> QED BY <1>1, <1>2, <2>1, <2>2, TypesStay
<1>7. CASE stream_destroy
    <2>1. UNCHANGED <<watching, fed, waited, reset, wire, cache, got, whole>>
        BY <1>7 DEF stream_destroy, readVars
    <2> QED BY <1>1, <1>2, <2>1, TypesStay
<1>8. CASE PeerCloses
    <2>1. reset' = TRUE /\ wire' = <<>> /\ UNCHANGED <<watching, fed, waited, cache, got, whole>>
        BY <1>8 DEF PeerCloses, readVars, sendVars
    <2>2. reset' \in BOOLEAN
        BY <2>1, Zenon
    <2>3. wire' \in Seq(Byte)
        BY <2>1
    <2> QED BY <1>1, <1>2, <2>1, <2>2, <2>3, TypesStay
<1>9. CASE UNCHANGED vars
    <2>1. UNCHANGED <<watching, fed, waited, reset, wire, cache, got, whole>>
        BY <1>9 DEF vars, sendVars, readVars
    <2> QED BY <1>1, <1>2, <2>1, TypesStay
<1> QED BY <1>3, <1>4, <1>5, <1>6, <1>7, <1>8, <1>9 DEF Next

LEMMA ByteTypesHold == Spec => []ByteTypes
<1>1. Init => ByteTypes
    <2> SUFFICES ASSUME Init PROVE ByteTypes
        OBVIOUS
    <2>1. Flags
        BY DEF Init, Flags
    <2> QED BY <2>1 DEF Init, ByteTypes
<1>2. QueueInv /\ ByteTypes /\ [Next]_vars => ByteTypes'
    BY TypesStep
<1> QED BY <1>1, <1>2, QueueInvHolds, PTL DEF Spec

\* Every variable keeps its type: the sequences hold requests, bytes and packages, whatever
\* the loop over proto_parse_package meets, and write_queue_size, which is unsigned, never
\* drops below zero.
THEOREM StreamTypeCorrect == Spec => []TypeOK
<1>1. QueueInv /\ ByteTypes => TypeOK
    <2> SUFFICES ASSUME QueueInv, ByteTypes PROVE TypeOK
        OBVIOUS
    <2>1. {watching, fed, waited, reset, whole} \subseteq BOOLEAN
        BY Zenon DEF ByteTypes, Flags
    <2> QED BY <2>1 DEF QueueInv, QueueTypes, ByteTypes, TypeOK
<1> QED BY <1>1, QueueInvHolds, ByteTypesHold, PTL
-----------------------------------------------------------------------------
(* The bytes between the ends.                                             *)

\* b is a byte of a package of s, the packages handed over so far.
InSent(s, b) ==
    /\ b.pkg.num \in 1 .. Len(s) /\ b.pkg = s[b.pkg.num]
    /\ b.at \in 1 .. Size(b.pkg)

\* After byte b comes byte at of package num.
Before(b, num, at) ==
    \/ b.at < Size(b.pkg) /\ num = b.pkg.num /\ at = b.at + 1
    \/ b.at = Size(b.pkg) /\ num = b.pkg.num + 1 /\ at = 1

\* The bytes t are without gaps, and begin with the first byte of package g + 1.
Run(s, t, g) ==
    /\ \A i \in 1 .. Len(t) : InSent(s, t[i])
    /\ \A i \in 1 .. Len(t) - 1 : Before(t[i], t[i + 1].pkg.num, t[i + 1].at)
    /\ t # <<>> => t[1].pkg.num = g + 1 /\ t[1].at = 1

\* Byte at of package num is the one that comes after them.
Ends(t, g, num, at) ==
    IF t = <<>> THEN num = g + 1 /\ at = 1 ELSE Before(t[Len(t)], num, at)

\* The first k bytes of t are the packages g + 1 to n.
Consumed(t, k, g, n) ==
    \/ k = 0 /\ n = g
    \/ k \in 1 .. Len(t) /\ t[k].at = Size(t[k].pkg) /\ t[k].pkg.num = n

\* A suffix of a sequence.
LEMMA Suffix ==
    ASSUME NEW S, NEW t \in Seq(S), NEW k \in 0 .. Len(t)
    PROVE  /\ SubSeq(t, k + 1, Len(t)) \in Seq(S)
           /\ Len(SubSeq(t, k + 1, Len(t))) = Len(t) - k
           /\ \A i \in 1 .. Len(t) - k : SubSeq(t, k + 1, Len(t))[i] = t[k + i]
<1>1. Len(t) \in Nat /\ k \in Nat /\ k + 1 \in Int /\ Len(t) \in Int
    OBVIOUS
<1>2. \A i \in k + 1 .. Len(t) : t[i] \in S
    BY <1>1
<1>3. /\ SubSeq(t, k + 1, Len(t)) \in Seq(S)
      /\ Len(SubSeq(t, k + 1, Len(t))) = IF k + 1 <= Len(t) THEN Len(t) - (k + 1) + 1 ELSE 0
      /\ \A i \in 1 .. Len(t) - (k + 1) + 1 : SubSeq(t, k + 1, Len(t))[i] = t[k + 1 + i - 1]
    BY <1>1, <1>2, SubSeqProperties
<1>4. Len(SubSeq(t, k + 1, Len(t))) = Len(t) - k
    BY <1>1, <1>3
<1>5. \A i \in 1 .. Len(t) - k : SubSeq(t, k + 1, Len(t))[i] = t[k + i]
    BY <1>1, <1>3
<1> QED BY <1>3, <1>4, <1>5

\* The types of a byte's fields.
LEMMA ByteFields ==
    ASSUME NEW b \in Byte
    PROVE  /\ b.pkg \in Packages /\ b.pkg.num \in Nat /\ b.at \in Nat /\ b.good \in BOOLEAN
           /\ Size(b.pkg) \in Nat \ {0} /\ Size(b.pkg) >= Header
<1>1. b.pkg \in Packages /\ b.at \in Nat /\ b.good \in BOOLEAN
    BY DEF Byte
<1> QED BY <1>1, SizeType

\* What follows k bytes that are whole packages begins with the next package.
LEMMA Cut ==
    ASSUME NEW s \in Seq(Packages), NEW t \in Seq(Byte), NEW g \in Nat, NEW n \in Nat,
           NEW k \in 0 .. Len(t), Run(s, t, g), Consumed(t, k, g, n)
    PROVE  /\ Run(s, SubSeq(t, k + 1, Len(t)), n)
           /\ \A num, at \in Nat : Ends(t, g, num, at) => Ends(SubSeq(t, k + 1, Len(t)), n, num, at)
<1>1. PICK u \in Seq(Byte) : u = SubSeq(t, k + 1, Len(t))
    BY Suffix
<1>2. /\ Len(u) = Len(t) - k /\ Len(t) \in Nat /\ Len(u) \in Nat /\ k \in Nat
      /\ \A i \in 1 .. Len(u) : u[i] = t[k + i] /\ k + i \in 1 .. Len(t)
    BY <1>1, Suffix
<1>3. \A i \in 1 .. Len(u) : InSent(s, u[i])
    BY <1>2 DEF Run
<1>4. ASSUME NEW i \in 1 .. Len(u) - 1 PROVE Before(u[i], u[i + 1].pkg.num, u[i + 1].at)
    <2>1. u[i] = t[k + i] /\ u[i + 1] = t[k + i + 1] /\ k + i \in 1 .. Len(t) - 1
        BY <1>2
    <2> QED BY <2>1 DEF Run
<1>5. ASSUME u # <<>> PROVE u[1].pkg.num = n + 1 /\ u[1].at = 1
    <2>1. 1 \in 1 .. Len(u) /\ u[1] = t[k + 1] /\ k < Len(t) /\ t # <<>>
        BY <1>2, <1>5, EmptySeq
    <2>2. CASE k = 0 /\ n = g
        BY <2>1, <2>2 DEF Run
    <2>3. CASE k \in 1 .. Len(t) /\ t[k].at = Size(t[k].pkg) /\ t[k].pkg.num = n
        <3>0. k \in 1 .. Len(t) - 1 /\ t[k] \in Byte
            BY <1>2, <2>1, <2>3
        <3>1. Before(t[k], t[k + 1].pkg.num, t[k + 1].at) /\ t[k] \in Byte
            BY <3>0 DEF Run
        <3>2. t[k].at \in Nat
            BY <3>1, ByteFields
        <3> QED BY <2>1, <2>3, <3>1, <3>2 DEF Before
    <2> QED BY <2>2, <2>3 DEF Consumed
<1>6. ASSUME NEW num \in Nat, NEW at \in Nat, Ends(t, g, num, at) PROVE Ends(u, n, num, at)
    <2>1. CASE u # <<>>
        <3>1. Len(u) \in 1 .. Len(u) /\ t # <<>>
            BY <1>2, <2>1, EmptySeq
        <3>2. u[Len(u)] = t[Len(t)]
            BY <1>2, <3>1
        <3> QED BY <1>6, <2>1, <3>1, <3>2 DEF Ends
    <2>2. CASE u = <<>>
        <3>1. k = Len(t)
            BY <1>2, <2>2
        <3>2. CASE t = <<>>
            BY <1>6, <2>2, <3>1, <3>2 DEF Ends, Consumed
        <3>3. CASE t # <<>>
            <4>1. k # 0 /\ k \in 1 .. Len(t) /\ t[k] \in Byte
                BY <3>1, <3>3, EmptySeq
            <4>2. t[k].at = Size(t[k].pkg) /\ t[k].pkg.num = n /\ t[k].at \in Nat
                BY <4>1, ByteFields DEF Consumed
            <4>3. Before(t[k], num, at)
                BY <1>6, <3>1, <3>3 DEF Ends
            <4>4. num = n + 1 /\ at = 1
                BY <4>2, <4>3 DEF Before
            <4> QED BY <2>2, <4>4 DEF Ends
        <3> QED BY <3>2, <3>3
    <2> QED BY <2>1, <2>2
<1>7. Run(s, u, n)
    BY <1>3, <1>4, <1>5 DEF Run
<1> QED BY <1>1, <1>6, <1>7

\* The bytes up to the size of the first package are that package.
LEMMA FirstPackage ==
    ASSUME NEW s \in Seq(Packages), NEW b \in Seq(Byte), NEW g \in Nat, b # <<>>, Run(s, b, g)
    PROVE  /\ b[1].pkg = s[g + 1] /\ g + 1 \in 1 .. Len(s) /\ b[1].pkg.num = g + 1
           /\ \A i \in 1 .. Len(b) : i <= Size(b[1].pkg) => b[i].pkg = b[1].pkg /\ b[i].at = i
<1>1. Len(b) \in Nat \ {0} /\ b[1] \in Byte /\ \A i \in 1 .. Len(b) : b[i] \in Byte
    BY EmptySeq
<1>2. b[1].pkg.num = g + 1 /\ b[1].at = 1 /\ InSent(s, b[1])
    BY <1>1 DEF Run
<1>3. b[1].pkg = s[g + 1] /\ g + 1 \in 1 .. Len(s)
    BY <1>2 DEF InSent
<1>4. PICK p \in Packages : p = b[1].pkg /\ p = s[g + 1] /\ p.num = g + 1
    BY <1>1, <1>2, <1>3, ByteFields
<1>5. Size(p) \in Nat
    BY SizeType
<1> DEFINE S == {i \in Nat : i \in 1 .. Len(b) /\ i <= Size(p) => b[i].pkg = p /\ b[i].at = i}
<1>6. ASSUME NEW i \in Nat, \A j \in Nat : j < i => j \in S PROVE i \in S
    <2> SUFFICES ASSUME i \in 1 .. Len(b), i <= Size(p) PROVE b[i].pkg = p /\ b[i].at = i
        OBVIOUS
    <2>1. CASE i = 1
        BY <1>2, <1>4, <2>1
    <2>2. CASE i # 1
        <3>1. PICK j \in Nat : j = i - 1
            BY <2>2
        <3>2. j < i /\ j \in 1 .. Len(b) - 1 /\ j \in 1 .. Len(b) /\ j < Size(p) /\ i = j + 1
            BY <1>1, <1>5, <2>2, <3>1
        <3>3. j \in S
            BY <1>6, <3>2
        <3>4. b[j].pkg = p /\ b[j].at = j
            BY <1>5, <3>2, <3>3
        <3>5. Before(b[j], b[j + 1].pkg.num, b[j + 1].at)
            BY <3>2 DEF Run
        <3>6. b[i].pkg.num = p.num /\ b[i].at = i
            BY <1>5, <3>2, <3>4, <3>5 DEF Before
        <3>7. b[i].pkg = s[b[i].pkg.num]
            BY DEF Run, InSent
        <3> QED BY <1>4, <3>6, <3>7
    <2> QED BY <2>1, <2>2
<1> HIDE DEF S
<1>7. \A i \in Nat : i \in S
    BY <1>6, SetInduction
<1>8. \A i \in 1 .. Len(b) : i <= Size(p) => b[i].pkg = p /\ b[i].at = i
    BY <1>1, <1>7 DEF S
<1> QED BY <1>2, <1>3, <1>4, <1>8

\* The loop over proto_parse_package takes whole packages off the front of a run, in order,
\* and finds damage only in damaged bytes.
Parsed(s, b, g, r) ==
    \E k \in 0 .. Len(b), n \in Nat :
        /\ n \in g .. Len(s) /\ Consumed(b, k, g, n)
        /\ r.pkgs = SubSeq(s, g + 1, n) /\ r.rest = SubSeq(b, k + 1, Len(b))
        /\ r.damaged => \E i \in 1 .. Len(b) : ~b[i].good

\* A turn of the loop that takes nothing.
LEMMA NothingParsed ==
    ASSUME NEW s \in Seq(Packages), NEW b \in Seq(Byte), NEW g \in 0 .. Len(s), NEW r,
           r.pkgs = <<>>, r.rest = b, r.damaged => \E i \in 1 .. Len(b) : ~b[i].good
    PROVE  Parsed(s, b, g, r)
<1>1. g \in Nat /\ Len(b) \in Nat /\ Len(s) \in Nat
    OBVIOUS
<1>2. SubSeq(s, g + 1, g) = <<>>
    BY <1>1, SubSeqEmpty
<1>3. SubSeq(b, 0 + 1, Len(b)) = b
    BY <1>1, SubSeqFull
<1>4. 0 \in 0 .. Len(b) /\ g \in g .. Len(s) /\ Consumed(b, 0, g, g)
    BY <1>1 DEF Consumed
<1> QED BY <1>1, <1>2, <1>3, <1>4 DEF Parsed

\* A turn of the loop that takes the first package.
LEMMA OneParsed ==
    ASSUME NEW s \in Seq(Packages), NEW b \in Seq(Byte), NEW g \in 0 .. Len(s), Run(s, b, g),
           ~(Len(b) < Header), ~(requireLen(b) > Len(b)), NEW q, NEW r,
           Parsed(s, After(b), g + 1, q),
           r.pkgs = <<b[1].pkg>> \o q.pkgs, r.rest = q.rest, r.damaged = q.damaged
    PROVE  Parsed(s, b, g, r)
<1>1. PICK m \in Nat \ {0} : m = requireLen(b) /\ m <= Len(b) /\ m = Size(b[1].pkg)
    <2>1. requireLen(b) = Size(b[1].pkg) /\ requireLen(b) \in Nat \ {0} /\ Len(b) \in Nat
        BY FewerBytes
    <2> QED BY <2>1
<1>2. PICK c \in Seq(Byte) : c = After(b)
    BY FewerBytes
<1>3. Len(c) = Len(b) - m /\ \A i \in 1 .. Len(b) - m : c[i] = b[m + i]
    BY <1>1, <1>2, FewerBytes
<1>4. /\ Len(b) \in Nat \ {0} /\ Len(c) \in Nat /\ Len(s) \in Nat /\ g \in Nat
      /\ b # <<>> /\ m \in 1 .. Len(b)
    BY <1>1, <1>3, EmptySeq
<1>5. PICK k \in 0 .. Len(c), n \in Nat :
        /\ n \in g + 1 .. Len(s) /\ Consumed(c, k, g + 1, n)
        /\ q.pkgs = SubSeq(s, (g + 1) + 1, n) /\ q.rest = SubSeq(c, k + 1, Len(c))
        /\ q.damaged => \E i \in 1 .. Len(c) : ~c[i].good
    BY <1>2 DEF Parsed
<1>6. /\ b[1].pkg = s[g + 1] /\ g + 1 \in 1 .. Len(s) /\ b[1].pkg.num = g + 1
      /\ \A i \in 1 .. Len(b) : i <= Size(b[1].pkg) => b[i].pkg = b[1].pkg /\ b[i].at = i
    BY <1>4, FirstPackage
<1>7. b[m].pkg = b[1].pkg /\ b[m].at = m
    BY <1>1, <1>4, <1>6
<1>8. m + k \in 0 .. Len(b) /\ m + k \in 1 .. Len(b) /\ k \in Nat
    BY <1>3, <1>4
<1>9. Consumed(b, m + k, g, n)
    <2>1. CASE k = 0 /\ n = g + 1
        BY <1>1, <1>4, <1>6, <1>7, <2>1 DEF Consumed
    <2>2. CASE k \in 1 .. Len(c) /\ c[k].at = Size(c[k].pkg) /\ c[k].pkg.num = n
        <3>1. c[k] = b[m + k]
            BY <1>3, <2>2
        <3> QED BY <1>8, <2>2, <3>1 DEF Consumed
    <2> QED BY <1>5, <2>1, <2>2 DEF Consumed
<1>10. r.pkgs = SubSeq(s, g + 1, n)
    <2>1. SubSeq(s, g + 1, n) = <<s[g + 1]>> \o SubSeq(s, (g + 1) + 1, n)
        BY <1>5, <1>6, SubSeqRecursiveFirst
    <2> QED BY <1>5, <1>6, <2>1
<1>11. r.rest = SubSeq(b, (m + k) + 1, Len(b))
    <2>1. PICK u \in Seq(Byte) : u = SubSeq(c, k + 1, Len(c))
        BY Suffix
    <2>2. Len(u) = Len(c) - k /\ \A i \in 1 .. Len(c) - k : u[i] = c[k + i]
        BY <2>1, Suffix
    <2>3. PICK v \in Seq(Byte) : v = SubSeq(b, (m + k) + 1, Len(b))
        BY <1>8, Suffix
    <2>4. Len(v) = Len(b) - (m + k) /\ \A i \in 1 .. Len(b) - (m + k) : v[i] = b[(m + k) + i]
        BY <1>8, <2>3, Suffix
    <2>5. Len(u) = Len(v)
        BY <1>3, <1>4, <1>8, <2>2, <2>4
    <2>6. ASSUME NEW i \in 1 .. Len(u) PROVE u[i] = v[i]
        <3>1. /\ i \in 1 .. Len(c) - k /\ k + i \in 1 .. Len(b) - m /\ i \in 1 .. Len(b) - (m + k)
              /\ m + (k + i) = (m + k) + i
            BY <1>3, <1>4, <1>8, <2>2
        <3> QED BY <1>3, <2>2, <2>4, <3>1
    <2>7. u = v
        BY <2>5, <2>6, SeqEqual
    <2> QED BY <1>5, <2>1, <2>3, <2>7
<1>12. ASSUME r.damaged PROVE \E i \in 1 .. Len(b) : ~b[i].good
    <2>1. PICK i \in 1 .. Len(c) : ~c[i].good
        BY <1>5, <1>12
    <2>2. i \in 1 .. Len(b) - m /\ m + i \in 1 .. Len(b)
        BY <1>3, <1>4
    <2>3. b[m + i] = c[i]
        BY <1>3, <2>2
    <2> QED BY <2>1, <2>2, <2>3
<1>13. n \in g .. Len(s)
    BY <1>4, <1>5
<1> QED BY <1>8, <1>9, <1>10, <1>11, <1>12, <1>13 DEF Parsed

LEMMA ParseRun ==
    ASSUME NEW s \in Seq(Packages)
    PROVE  \A b \in Seq(Byte), g \in 0 .. Len(s) : Run(s, b, g) => Parsed(s, b, g, parse[b])
<1> DEFINE S == {l \in Nat : \A b \in Seq(Byte), g \in 0 .. Len(s) :
                                Len(b) = l /\ Run(s, b, g) => Parsed(s, b, g, parse[b])}
<1>1. ASSUME NEW l \in Nat, \A j \in Nat : j < l => j \in S PROVE l \in S
    <2> SUFFICES ASSUME NEW b \in Seq(Byte), NEW g \in 0 .. Len(s), Len(b) = l, Run(s, b, g)
                 PROVE  Parsed(s, b, g, parse[b])
        OBVIOUS
    <2>1. parse[b] = Turn(parse, b)
        BY ParseEquation
    <2>2. CASE Len(b) < Header
        <3>1. parse[b] = [pkgs |-> <<>>, rest |-> b, damaged |-> FALSE]
            BY <2>1, <2>2 DEF Turn
        <3>2. /\ parse[b].pkgs = <<>> /\ parse[b].rest = b /\ ~parse[b].damaged
            BY <3>1
        <3> QED BY <3>2, NothingParsed
    <2>3. CASE ~(Len(b) < Header)
        <3>1. /\ Len(b) \in Nat \ {0} /\ b # <<>> /\ Header \in Nat \ {0} /\ g \in Nat
              /\ Header <= Len(b) /\ 1 \in 1 .. Len(b) /\ b[1] \in Byte
            BY <2>3, StreamAssumption
        <3>2. Size(b[1].pkg) \in Nat /\ Header <= Size(b[1].pkg) /\ requireLen(b) = Size(b[1].pkg)
            BY <2>3, <3>1, ByteFields, FewerBytes
        <3>3. \A i \in 1 .. Len(b) : i <= Size(b[1].pkg) => b[i].pkg = b[1].pkg /\ b[i].at = i
            BY <3>1, FirstPackage
        <3>4. CASE ~HeaderGood(b)
            <4>1. parse[b] = [pkgs |-> <<>>, rest |-> b, damaged |-> TRUE]
                BY <2>1, <2>3, <3>4 DEF Turn
            <4>2. PICK i \in 1 .. Header : ~(b[i].good /\ b[i].at = i /\ b[i].pkg = b[1].pkg)
                BY <3>4 DEF HeaderGood
            <4>3. i \in 1 .. Len(b) /\ i <= Size(b[1].pkg)
                BY <3>1, <3>2
            <4>4. ~b[i].good
                BY <3>3, <4>2, <4>3
            <4>5. parse[b].pkgs = <<>> /\ parse[b].rest = b
                BY <4>1
            <4> QED BY <4>3, <4>4, <4>5, NothingParsed
        <3>5. CASE HeaderGood(b) /\ requireLen(b) > Len(b)
            <4>1. parse[b] = [pkgs |-> <<>>, rest |-> b, damaged |-> FALSE]
                BY <2>1, <2>3, <3>5 DEF Turn
            <4>2. /\ parse[b].pkgs = <<>> /\ parse[b].rest = b /\ ~parse[b].damaged
                BY <4>1
            <4> QED BY <4>2, NothingParsed
        <3>6. CASE /\ HeaderGood(b) /\ ~(requireLen(b) > Len(b))
                   /\ \E i \in 1 .. requireLen(b) : ~b[i].good
            <4>1. parse[b] = [pkgs |-> <<>>, rest |-> b, damaged |-> TRUE]
                BY <2>1, <2>3, <3>6 DEF Turn
            <4>2. PICK i \in 1 .. requireLen(b) : ~b[i].good
                BY <3>6
            <4>3. i \in 1 .. Len(b)
                BY <3>1, <3>2, <3>6
            <4>4. parse[b].pkgs = <<>> /\ parse[b].rest = b
                BY <4>1
            <4> QED BY <4>2, <4>3, <4>4, NothingParsed
        <3>7. CASE /\ HeaderGood(b) /\ ~(requireLen(b) > Len(b))
                   /\ ~ \E i \in 1 .. requireLen(b) : ~b[i].good
            <4>1. parse[b] = [parse[After(b)] EXCEPT !.pkgs = <<b[1].pkg>> \o @]
                BY <2>1, <2>3, <3>7 DEF Turn, After
            <4>2. After(b) \in Seq(Byte) /\ Len(After(b)) < Len(b) /\ Len(After(b)) \in Nat
                BY <2>3, <3>7, FewerBytes
            <4>3. PICK q \in Outcome : q = parse[After(b)]
                BY <4>2, ParseType
            <4>4. /\ parse[b].pkgs = <<b[1].pkg>> \o q.pkgs /\ parse[b].rest = q.rest
                  /\ parse[b].damaged = q.damaged
                BY <4>1, <4>3 DEF Outcome
            <4>5. g + 1 \in 1 .. Len(s) /\ g + 1 \in 0 .. Len(s) /\ b[1].pkg.num = g + 1
                <5>1. g + 1 \in 1 .. Len(s) /\ b[1].pkg.num = g + 1
                    BY <3>1, FirstPackage
                <5> QED BY <5>1
            <4>6. Run(s, After(b), g + 1)
                <5>1. requireLen(b) \in 1 .. Len(b) /\ requireLen(b) \in 0 .. Len(b)
                    BY <2>3, <3>1, <3>7, FewerBytes
                <5>2. PICK m \in 1 .. Len(b) : m = requireLen(b)
                    BY <5>1
                <5>3. b[m].pkg = b[1].pkg /\ b[m].at = m /\ m = Size(b[1].pkg)
                    BY <3>2, <3>3, <5>2
                <5>4. Consumed(b, m, g, g + 1)
                    BY <4>5, <5>3 DEF Consumed
                <5>5. m \in 0 .. Len(b) /\ g + 1 \in Nat
                    BY <3>1
                <5>6. Run(s, SubSeq(b, m + 1, Len(b)), g + 1)
                    BY <3>1, <5>4, <5>5, Cut
                <5> QED BY <5>2, <5>6 DEF After
            <4>7. Parsed(s, After(b), g + 1, q)
                <5>1. Len(After(b)) \in S
                    BY <1>1, <4>2
                <5> QED BY <4>2, <4>3, <4>5, <4>6, <5>1
            <4> QED BY <2>3, <3>7, <4>4, <4>7, OneParsed
        <3> QED BY <3>4, <3>5, <3>6, <3>7
    <2> QED BY <2>2, <2>3
<1> HIDE DEF S
<1>2. \A l \in Nat : l \in S
    BY <1>1, SetInduction
<1> QED BY <1>2 DEF S

\* The next bytes of package num lengthen a run.
LEMMA Extend ==
    ASSUME NEW s \in Seq(Packages), NEW t \in Seq(Byte), NEW u \in Seq(Byte), NEW g \in Nat,
           NEW num \in 1 .. Len(s), NEW at \in Nat \ {0}, NEW p \in Packages,
           p = s[num], p.num = num, at + Len(u) <= Size(p) + 1,
           \A i \in 1 .. Len(u) : u[i].pkg = p /\ u[i].at = at + i - 1,
           Run(s, t, g), Ends(t, g, num, at)
    PROVE  /\ Run(s, t \o u, g)
           /\ at + Len(u) = Size(p) + 1 /\ u # <<>> => Ends(t \o u, g, num + 1, 1)
           /\ at + Len(u) <= Size(p) => Ends(t \o u, g, num, at + Len(u))
<1>1. Len(t) \in Nat /\ Len(u) \in Nat /\ Size(p) \in Nat /\ Len(s) \in Nat /\ num \in Nat
    BY SizeType
<1>2. PICK v \in Seq(Byte) : v = t \o u
    BY ConcatProperties
<1>3. /\ Len(v) = Len(t) + Len(u)
      /\ \A i \in 1 .. Len(t) + Len(u) : v[i] = IF i <= Len(t) THEN t[i] ELSE u[i - Len(t)]
    BY <1>2, ConcatProperties
<1>4. /\ \A i \in 1 .. Len(t) : v[i] = t[i]
      /\ \A i \in 1 .. Len(u) : v[Len(t) + i] = u[i]
    <2>1. ASSUME NEW i \in 1 .. Len(u) PROVE v[Len(t) + i] = u[i]
        <3>1. Len(t) + i \in 1 .. Len(t) + Len(u) /\ ~(Len(t) + i <= Len(t)) /\ Len(t) + i - Len(t) = i
            BY <1>1
        <3> QED BY <1>3, <3>1
    <2>2. ASSUME NEW i \in 1 .. Len(t) PROVE v[i] = t[i]
        BY <1>1, <1>3
    <2> QED BY <2>1, <2>2
<1>5. ASSUME NEW i \in 1 .. Len(u)
      PROVE  InSent(s, u[i]) /\ u[i].pkg.num = num /\ u[i].pkg = p /\ u[i].at = at + i - 1
    <2>1. u[i].pkg = p /\ u[i].at = at + i - 1
        OBVIOUS
    <2>2. at + i - 1 \in 1 .. Size(p)
        BY <1>1
    <2> QED BY <2>1, <2>2 DEF InSent
<1>6. ASSUME NEW i \in 1 .. Len(v) PROVE InSent(s, v[i])
    <2>1. CASE i <= Len(t)
        BY <1>1, <1>4, <2>1 DEF Run
    <2>2. CASE ~(i <= Len(t))
        <3>1. PICK j \in 1 .. Len(u) : i = Len(t) + j
            <4>1. i - Len(t) \in 1 .. Len(u) /\ i = Len(t) + (i - Len(t))
                BY <1>1, <1>3, <2>2
            <4> QED BY <4>1
        <3> QED BY <1>4, <1>5, <3>1
    <2> QED BY <2>1, <2>2
<1>7. ASSUME u # <<>> PROVE u[1].pkg.num = num /\ u[1].at = at
    <2>1. 1 \in 1 .. Len(u)
        BY <1>7, EmptySeq
    <2> QED BY <1>5, <2>1
<1>8. ASSUME NEW i \in 1 .. Len(v) - 1 PROVE Before(v[i], v[i + 1].pkg.num, v[i + 1].at)
    <2>1. CASE i + 1 <= Len(t)
        <3>1. i \in 1 .. Len(t) - 1 /\ i \in 1 .. Len(t) /\ i + 1 \in 1 .. Len(t)
            BY <1>1, <2>1
        <3>2. v[i] = t[i] /\ v[i + 1] = t[i + 1]
            BY <1>4, <3>1
        <3> QED BY <3>1, <3>2 DEF Run
    <2>2. CASE i = Len(t)
        <3>1. t # <<>> /\ u # <<>> /\ 1 \in 1 .. Len(u)
            BY <1>1, <1>3, <2>2
        <3>2. v[i] = t[Len(t)] /\ v[i + 1] = u[1]
            BY <1>1, <1>4, <2>2, <3>1
        <3> QED BY <1>7, <3>1, <3>2 DEF Ends
    <2>3. CASE i > Len(t)
        <3>1. PICK j \in 1 .. Len(u) - 1 : i = Len(t) + j
            <4>1. i - Len(t) \in 1 .. Len(u) - 1 /\ i = Len(t) + (i - Len(t))
                BY <1>1, <1>3, <2>3
            <4> QED BY <4>1
        <3>2. /\ j \in 1 .. Len(u) /\ j + 1 \in 1 .. Len(u) /\ i + 1 = Len(t) + (j + 1)
            BY <1>1, <3>1
        <3>3. v[i] = u[j] /\ v[i + 1] = u[j + 1]
            BY <1>4, <3>1, <3>2
        <3>4. u[j].pkg = p /\ u[j].at = at + j - 1
            BY <1>5, <3>2
        <3>5. u[j + 1].pkg.num = num /\ u[j + 1].at = at + (j + 1) - 1
            BY <1>5, <3>2
        <3>6. at + j - 1 < Size(p) /\ at + (j + 1) - 1 = at + j - 1 + 1
            BY <1>1
        <3> QED BY <3>3, <3>4, <3>5, <3>6 DEF Before
    <2> QED BY <1>1, <2>1, <2>2, <2>3
<1>9. ASSUME v # <<>> PROVE v[1].pkg.num = g + 1 /\ v[1].at = 1
    <2>1. CASE t # <<>>
        <3>1. 1 \in 1 .. Len(t)
            BY <2>1, EmptySeq
        <3> QED BY <1>4, <2>1, <3>1 DEF Run
    <2>2. CASE t = <<>>
        <3>1. Len(t) = 0 /\ u # <<>> /\ 1 \in 1 .. Len(u)
            BY <1>1, <1>3, <1>9, <2>2, EmptySeq
        <3>2. v[1] = u[1]
            BY <1>4, <3>1
        <3> QED BY <1>7, <2>2, <3>1, <3>2 DEF Ends
    <2> QED BY <2>1, <2>2
<1>10. Run(s, v, g)
    BY <1>6, <1>8, <1>9 DEF Run
<1>11. CASE u = <<>>
    <2>1. v = t /\ Len(u) = 0 /\ at + Len(u) = at
        BY <1>2, <1>11, ConcatEmptySeq
    <2> QED BY <1>2, <1>10, <1>11, <2>1
<1>12. CASE u # <<>>
    <2>1. Len(u) \in 1 .. Len(u) /\ v # <<>>
        BY <1>1, <1>3, <1>12, EmptySeq
    <2>2. v[Len(v)] = u[Len(u)]
        BY <1>3, <1>4, <2>1
    <2>3. v[Len(v)].pkg = p /\ v[Len(v)].at = at + Len(u) - 1
        BY <1>5, <2>1, <2>2
    <2>4. ASSUME at + Len(u) = Size(p) + 1 PROVE Ends(v, g, num + 1, 1)
        <3>1. at + Len(u) - 1 = Size(p)
            BY <1>1, <2>4
        <3> QED BY <2>1, <2>3, <3>1 DEF Ends, Before
    <2>5. ASSUME at + Len(u) <= Size(p) PROVE Ends(v, g, num, at + Len(u))
        <3>1. at + Len(u) - 1 < Size(p) /\ at + Len(u) = at + Len(u) - 1 + 1
            BY <1>1, <2>5
        <3> QED BY <2>1, <2>3, <3>1 DEF Ends, Before
    <2> QED BY <1>2, <1>10, <2>4, <2>5
<1> QED BY <1>11, <1>12

\* A run stays one when another package is handed over.
LEMMA RunGrows ==
    ASSUME NEW s \in Seq(Packages), NEW p \in Packages, NEW t \in Seq(Byte), NEW g \in Nat,
           Run(s, t, g)
    PROVE  Run(Append(s, p), t, g)
<1>1. /\ Len(Append(s, p)) = Len(s) + 1 /\ Len(s) \in Nat
      /\ \A i \in 1 .. Len(s) : Append(s, p)[i] = s[i]
    BY AppendProperties
<1>2. ASSUME NEW i \in 1 .. Len(t) PROVE InSent(Append(s, p), t[i])
    <2>1. InSent(s, t[i])
        BY DEF Run
    <2> QED BY <1>1, <2>1 DEF InSent
<1> QED BY <1>2 DEF Run
-----------------------------------------------------------------------------
(* uv__write hands the kernel the bytes in order.                          *)

\* The packages are numbered in the order in which they were handed over.
Numbered(s) == \A i \in 1 .. Len(s) : s[i].num = i

\* The next byte to be written, when the packages s were handed over and q is the queue.
NextNum(s, q) == Len(s) - Len(q) + 1
NextAt(q) == IF q = <<>> THEN 1 ELSE Size(q[1].pkg) - q[1].left + 1

\* The head of the queue is the package of the next byte.
LEMMA HeadPackage ==
    ASSUME NEW s \in Seq(Packages), NEW a \in Seq(Packages), NEW q \in Seq(Queued),
           s = a \o PackagesOf(q)
    PROVE  /\ NextNum(s, q) \in Nat \ {0}
           /\ q # <<>> => NextNum(s, q) \in 1 .. Len(s) /\ s[NextNum(s, q)] = q[1].pkg
<1>1. PICK c \in Seq(Packages) : c = PackagesOf(q) /\ Len(c) = Len(q)
    BY PackagesSeq, RequestFields
<1>2. /\ Len(s) = Len(a) + Len(c) /\ Len(a) \in Nat /\ Len(c) \in Nat
      /\ \A i \in 1 .. Len(a) + Len(c) : s[i] = IF i <= Len(a) THEN a[i] ELSE c[i - Len(a)]
    <2>1. s = a \o c
        BY <1>1
    <2>2. /\ Len(a \o c) = Len(a) + Len(c) /\ Len(a) \in Nat /\ Len(c) \in Nat
          /\ \A i \in 1 .. Len(a) + Len(c) :
                (a \o c)[i] = IF i <= Len(a) THEN a[i] ELSE c[i - Len(a)]
        BY ConcatProperties
    <2> QED BY ONLY <2>1, <2>2
<1>3. NextNum(s, q) = Len(a) + 1
    BY <1>1, <1>2 DEF NextNum
<1>4. ASSUME q # <<>> PROVE Len(a) + 1 \in 1 .. Len(s) /\ s[Len(a) + 1] = q[1].pkg
    <2>1. Len(q) \in Nat \ {0} /\ 1 \in DOMAIN q
        BY <1>4, EmptySeq
    <2>2. Len(a) + 1 \in 1 .. Len(a) + Len(c) /\ ~(Len(a) + 1 <= Len(a)) /\ Len(a) + 1 - Len(a) = 1
        BY <1>1, <1>2, <2>1
    <2>3. s[Len(a) + 1] = c[1]
        BY ONLY <1>2, <2>2
    <2>4. c[1] = q[1].pkg
        BY <1>1, <2>1 DEF PackagesOf
    <2> QED BY <1>2, <2>2, <2>3, <2>4
<1> QED BY <1>2, <1>3, <1>4

\* Of a package of z bytes l were not written, and the kernel takes n of them from byte at.
LEMMA NextBytes ==
    ASSUME NEW z \in Nat, NEW l \in 1 .. z, NEW n \in 0 .. l, NEW at \in Int, at = z - l + 1
    PROVE  /\ at \in Nat \ {0} /\ at + n <= z + 1
           /\ z - (l - n) + 1 = at + n
           /\ n = l => at + n = z + 1 /\ n # 0
           /\ n # l => at + n <= z
           /\ \A i \in 1 .. n : z - l + i = at + i - 1
<1>1. l \in Int /\ n \in Int /\ 1 <= l /\ l <= z /\ 0 <= n /\ n <= l
    OBVIOUS
<1>2. at \in Nat \ {0} /\ at + n <= z + 1
    BY <1>1
<1>3. z - (l - n) + 1 = at + n
    BY <1>1
<1>4. n = l => at + n = z + 1 /\ n # 0
    BY <1>1
<1>5. n # l => at + n <= z
    BY <1>1
<1>6. \A i \in 1 .. n : z - l + i = at + i - 1
    BY <1>1
<1> QED BY <1>2, <1>3, <1>4, <1>5, <1>6

\* After uv__write the next byte follows the bytes that the kernel has taken.
LEMMA WriteExtends ==
    ASSUME NEW s \in Seq(Packages), Numbered(s), NEW a \in Seq(Packages), NEW q \in Seq(Queued),
           Waiting(q), s = a \o PackagesOf(q), NEW sz \in Nat, NEW good \in BOOLEAN,
           NEW r \in uv__write(q, sz, good), ~reset, watching \in BOOLEAN,
           NEW t \in Seq(Byte), NEW g \in Nat, Run(s, t, g), Ends(t, g, NextNum(s, q), NextAt(q))
    PROVE  /\ Run(s, t \o r.bytes, g)
           /\ Ends(t \o r.bytes, g, NextNum(s, r.queue), NextAt(r.queue))
           /\ good \/ q = <<>> => \A i \in 1 .. Len(r.bytes) : r.bytes[i].good
<1>1. CASE q = <<>>
    <2>1. r.bytes = <<>> /\ r.queue = <<>>
        BY <1>1 DEF uv__write
    <2>2. t \o <<>> = t /\ Len(<<>>) = 0
        BY ConcatEmptySeq
    <2> QED BY <1>1, <2>1, <2>2
<1>2. CASE q # <<>>
    <2>1. PICK n \in 0 .. q[1].left : r = Written(q, sz, n, good)
        BY <1>2 DEF uv__write
    <2>2. q[1].pkg \in Packages /\ q[1].left \in Nat /\ Len(q) \in Nat \ {0}
        BY <1>2, QueueHead, EmptySeq
    <2>3. PICK p \in Packages : p = q[1].pkg
        BY <2>2
    <2>4. Size(p) \in Nat /\ q[1].left \in 1 .. Size(p) /\ n \in Nat /\ n <= q[1].left
        BY <2>2, <2>3, SizeType DEF Waiting
    <2>5. PICK num \in 1 .. Len(s) : num = NextNum(s, q) /\ s[num] = p /\ p.num = num
        <3>1. NextNum(s, q) \in 1 .. Len(s) /\ s[NextNum(s, q)] = q[1].pkg
            BY <1>2, HeadPackage
        <3>2. s[NextNum(s, q)].num = NextNum(s, q)
            BY <3>1 DEF Numbered
        <3> QED BY ONLY <2>3, <3>1, <3>2
    <2>6. PICK at \in Nat \ {0} :
            /\ at = NextAt(q) /\ at + n <= Size(p) + 1
            /\ Size(p) - (q[1].left - n) + 1 = at + n
            /\ n = q[1].left => at + n = Size(p) + 1 /\ n # 0
            /\ n # q[1].left => at + n <= Size(p)
            /\ \A i \in 1 .. n : Size(p) - q[1].left + i = at + i - 1
        <3>1. PICK z \in Nat : z = Size(p)
            BY <2>4
        <3>2. PICK l \in 1 .. z : l = q[1].left
            BY <2>4, <3>1
        <3>3. NextAt(q) = z - l + 1 /\ z - l + 1 \in Int /\ n \in 0 .. l
            BY <1>2, <2>3, <3>1, <3>2 DEF NextAt
        <3>4. /\ NextAt(q) \in Nat \ {0} /\ NextAt(q) + n <= z + 1
              /\ z - (l - n) + 1 = NextAt(q) + n
              /\ n = l => NextAt(q) + n = z + 1 /\ n # 0
              /\ n # l => NextAt(q) + n <= z
              /\ \A i \in 1 .. n : z - l + i = NextAt(q) + i - 1
            BY <3>3, NextBytes
        <3> QED BY <3>1, <3>2, <3>4
    <2>7. PICK u \in Seq(Byte) : u = r.bytes
        BY WriteBytes
    <2>8. u = [i \in 1 .. n |-> [pkg |-> p, good |-> good, at |-> Size(p) - q[1].left + i]]
        BY <2>1, <2>3, <2>7 DEF Written
    <2>9. Len(u) = n /\ \A i \in 1 .. n : u[i].pkg = p /\ u[i].at = Size(p) - q[1].left + i
        BY <2>4, <2>8
    <2>10. \A i \in 1 .. Len(u) : u[i].pkg = p /\ u[i].at = at + i - 1
        BY <2>6, <2>9
    <2>11. ASSUME good PROVE \A i \in 1 .. Len(u) : u[i].good
        BY <2>8, <2>9, <2>11
    <2>12. at + Len(u) <= Size(p) + 1
        BY <2>6, <2>9
    <2>13. /\ Run(s, t \o u, g)
           /\ at + Len(u) = Size(p) + 1 /\ u # <<>> => Ends(t \o u, g, num + 1, 1)
           /\ at + Len(u) <= Size(p) => Ends(t \o u, g, num, at + Len(u))
        <3>1. Ends(t, g, num, at) /\ p = s[num]
            BY <2>5, <2>6
        <3> QED BY <2>5, <2>10, <2>12, <3>1, Extend
    <2>14. CASE n = q[1].left
        <3>1. r.queue = Tail(q)
            BY <2>1, <2>14 DEF Written, Finished
        <3>2. /\ Tail(q) \in Seq(Queued) /\ Len(Tail(q)) = Len(q) - 1
              /\ \A i \in 1 .. Len(Tail(q)) : Tail(q)[i] = q[i + 1]
            BY <1>2, HeadTailProperties
        <3>3. NextNum(s, r.queue) = num + 1
            BY <2>2, <2>5, <3>1, <3>2 DEF NextNum
        <3>4. NextAt(r.queue) = 1
            <4>1. CASE Tail(q) = <<>>
                BY <3>1, <4>1 DEF NextAt
            <4>2. CASE Tail(q) # <<>>
                <5>1. 1 \in 1 .. Len(Tail(q)) /\ 2 \in 1 .. Len(q)
                    BY <2>2, <3>2, <4>2, EmptySeq
                <5>2. Tail(q)[1] = q[2] /\ q[2].left = Size(q[2].pkg) /\ q[2] \in Queued
                    BY <3>2, <5>1 DEF Waiting
                <5>3. q[2].left \in Nat
                    BY <5>2 DEF Queued
                <5>4. Size(q[2].pkg) - q[2].left + 1 = 1
                    BY <5>2, <5>3
                <5> QED BY <3>1, <4>2, <5>2, <5>4 DEF NextAt
            <4> QED BY <4>1, <4>2
        <3>5. at + Len(u) = Size(p) + 1 /\ u # <<>>
            BY <2>6, <2>9, <2>14
        <3> QED BY <1>2, <2>7, <2>11, <2>13, <3>3, <3>4, <3>5
    <2>15. CASE n # q[1].left
        <3> DEFINE h == [q[1] EXCEPT !.left = @ - n]
        <3>1. r.queue = [q EXCEPT ![1] = h]
            BY <2>1, <2>15 DEF Written, Finished
        <3>2. h \in Queued /\ h.pkg = p /\ h.left = q[1].left - n
            <4>1. q[1] \in Queued /\ q[1].left - n \in Nat
                BY <1>2, <2>4, QueueHead
            <4> QED BY <2>3, <4>1 DEF Queued
        <3> HIDE DEF h
        <3>3. r.queue \in Seq(Queued) /\ Len(r.queue) = Len(q) /\ r.queue[1] = h
            <4>1. 1 \in 1 .. Len(q)
                BY <2>2
            <4> QED BY <3>1, <3>2, <4>1, ExceptSeq
        <3>4. NextNum(s, r.queue) = num
            BY <2>5, <3>3 DEF NextNum
        <3>5. NextAt(r.queue) = at + Len(u)
            <4>1. r.queue # <<>>
                BY <2>2, <3>3
            <4> QED BY <2>6, <2>9, <3>2, <3>3, <4>1 DEF NextAt
        <3>6. at + Len(u) <= Size(p)
            BY <2>6, <2>9, <2>15
        <3> QED BY <1>2, <2>7, <2>11, <2>13, <3>4, <3>5, <3>6
    <2> QED BY <2>14, <2>15
<1> QED BY <1>1, <1>2
-----------------------------------------------------------------------------
(* The invariant: what was delivered is the beginning of what was handed   *)
(* over, and the bytes between the ends are what lies between that and the *)
(* write queue.                                                            *)

InTransit == cache \o wire

AllGood(t) == \A i \in 1 .. Len(t) : t[i].good

\* What is queued had to wait.
QueuedWaited == queue # <<>> => waited

\* The packages that were delivered.
GotFirst == Len(got) \in 0 .. Len(sent) /\ got = SubSeq(sent, 1, Len(got))

\* The bytes on the way, as long as the connection is there and undamaged.
WireInv ==
    ~reset /\ whole =>
        /\ Run(sent, InTransit, Len(got))
        /\ handle = "open" => Ends(InTransit, Len(got), NextNum(sent, queue), NextAt(queue))
        /\ ~waited => AllGood(InTransit)

TransitInv == Numbered(sent) /\ QueuedWaited /\ GotFirst /\ WireInv

\* What was sent ends with what is queued.
LEMMA SentQueue ==
    ASSUME QueueInv
    PROVE  /\ \E a \in Seq(Packages) : sent = a \o PackagesOf(queue)
           /\ NextNum(sent, queue) \in Nat /\ NextAt(queue) \in Nat
<1>1. PICK a \in Seq(Packages) : a = PackagesOf(called) \o PackagesOf(completed)
    BY QueueFacts, ConcatProperties DEF QueueInv
<1>2. sent = a \o PackagesOf(queue)
    BY <1>1 DEF QueueInv, InOrder
<1>3. sent \in Seq(Packages) /\ queue \in Seq(Queued) /\ Waiting(queue)
    BY DEF QueueInv, QueueTypes
<1>4. NextNum(sent, queue) \in Nat
    BY <1>2, <1>3, HeadPackage
<1>5. NextAt(queue) \in Nat
    <2>1. CASE queue = <<>>
        BY <2>1 DEF NextAt
    <2>2. CASE queue # <<>>
        <3>1. queue[1].pkg \in Packages /\ queue[1].left \in Nat /\ 1 \in 1 .. Len(queue)
            BY <1>3, <2>2, QueueHead, EmptySeq
        <3>2. Size(queue[1].pkg) \in Nat /\ queue[1].left \in 1 .. Size(queue[1].pkg)
            BY <1>3, <3>1, SizeType DEF Waiting
        <3>3. Size(queue[1].pkg) - queue[1].left + 1 \in Nat
            BY <3>1, <3>2
        <3> QED BY <2>2, <3>3 DEF NextAt
    <2> QED BY <2>1, <2>2
<1> QED BY <1>2, <1>4, <1>5

\* A run of good bytes with good bytes behind it.
LEMMA GoodConcat ==
    ASSUME NEW t \in Seq(Byte), NEW u \in Seq(Byte), AllGood(t), AllGood(u)
    PROVE  AllGood(t \o u)
<1>1. /\ Len(t \o u) = Len(t) + Len(u) /\ Len(t) \in Nat /\ Len(u) \in Nat
      /\ \A i \in 1 .. Len(t) + Len(u) : (t \o u)[i] = IF i <= Len(t) THEN t[i] ELSE u[i - Len(t)]
    BY ConcatProperties
<1>2. ASSUME NEW i \in 1 .. Len(t) + Len(u) PROVE (t \o u)[i].good
    <2>1. CASE i <= Len(t)
        <3>1. i \in 1 .. Len(t) /\ (t \o u)[i] = t[i]
            BY <1>1, <2>1
        <3> QED BY <3>1 DEF AllGood
    <2>2. CASE ~(i <= Len(t))
        <3>1. i - Len(t) \in 1 .. Len(u) /\ (t \o u)[i] = u[i - Len(t)]
            BY <1>1, <2>2
        <3> QED BY <3>1 DEF AllGood
    <2> QED BY <2>1, <2>2
<1> QED BY <1>1, <1>2 DEF AllGood

\* t without its first k bytes.
Rest(t, k) == SubSeq(t, k + 1, Len(t))

\* The part c of the bytes c \o w, and what is left of them when k bytes of c are gone.
LEMMA Chunk ==
    ASSUME NEW s \in Seq(Packages), NEW c \in Seq(Byte), NEW w \in Seq(Byte), NEW g \in Nat,
           NEW k \in 0 .. Len(c), Run(s, c \o w, g)
    PROVE  /\ Run(s, c, g) /\ k \in 0 .. Len(c \o w)
           /\ \A n : Consumed(c, k, g, n) => Consumed(c \o w, k, g, n)
           /\ Rest(c, k) \o w = Rest(c \o w, k)
           /\ AllGood(c \o w) => AllGood(c) /\ AllGood(Rest(c, k) \o w)
<1>1. PICK t \in Seq(Byte) : t = c \o w
    BY ConcatProperties
<1>2. /\ Len(t) = Len(c) + Len(w) /\ Len(c) \in Nat /\ Len(w) \in Nat /\ k \in Nat
      /\ \A i \in 1 .. Len(c) + Len(w) : t[i] = IF i <= Len(c) THEN c[i] ELSE w[i - Len(c)]
    BY <1>1, ConcatProperties
<1>3. \A i \in 1 .. Len(c) : t[i] = c[i] /\ i \in 1 .. Len(t)
    BY <1>2
<1>4. Run(s, c, g)
    <2>1. \A i \in 1 .. Len(c) : InSent(s, c[i])
        BY <1>1, <1>3 DEF Run
    <2>2. ASSUME NEW i \in 1 .. Len(c) - 1 PROVE Before(c[i], c[i + 1].pkg.num, c[i + 1].at)
        <3>1. i \in 1 .. Len(c) /\ i + 1 \in 1 .. Len(c) /\ i \in 1 .. Len(t) - 1
            BY <1>2
        <3>2. Before(t[i], t[i + 1].pkg.num, t[i + 1].at)
            BY <1>1, <3>1 DEF Run
        <3> QED BY <1>3, <3>1, <3>2
    <2>3. ASSUME c # <<>> PROVE c[1].pkg.num = g + 1 /\ c[1].at = 1
        <3>1. 1 \in 1 .. Len(c) /\ t # <<>>
            BY <1>2, <2>3, EmptySeq
        <3>2. t[1].pkg.num = g + 1 /\ t[1].at = 1
            BY <1>1, <3>1 DEF Run
        <3> QED BY <1>3, <3>1, <3>2
    <2> QED BY <2>1, <2>2, <2>3 DEF Run
<1>5. k \in 0 .. Len(t)
    BY <1>2
<1>6. ASSUME NEW n, Consumed(c, k, g, n) PROVE Consumed(t, k, g, n)
    BY <1>3, <1>6 DEF Consumed
<1>7. PICK u \in Seq(Byte) : u = SubSeq(c, k + 1, Len(c))
    BY Suffix
<1>8. PICK v \in Seq(Byte) : v = SubSeq(t, k + 1, Len(t))
    BY <1>5, Suffix
<1>9. PICK x \in Seq(Byte) : x = u \o w
    BY ConcatProperties
<1>10. Len(u) = Len(c) - k /\ \A i \in 1 .. Len(c) - k : u[i] = c[k + i]
    BY <1>7, Suffix
<1>11. Len(v) = Len(t) - k /\ \A i \in 1 .. Len(t) - k : v[i] = t[k + i]
    BY <1>5, <1>8, Suffix
<1>12. /\ Len(x) = Len(u) + Len(w)
       /\ \A i \in 1 .. Len(u) + Len(w) : x[i] = IF i <= Len(u) THEN u[i] ELSE w[i - Len(u)]
    BY <1>9, ConcatProperties
<1>13. x = v
    <2>1. Len(x) = Len(v)
        BY <1>2, <1>10, <1>11, <1>12
    <2>2. ASSUME NEW i \in 1 .. Len(x) PROVE x[i] = v[i]
        <3>1. i \in 1 .. Len(t) - k /\ v[i] = t[k + i] /\ k + i \in 1 .. Len(c) + Len(w) /\ i \in Nat
            BY <1>2, <1>10, <1>11, <1>12
        <3>2. CASE i <= Len(u)
            <4>1. k + i <= Len(c) /\ i \in 1 .. Len(c) - k
                BY <1>2, <1>10, <3>1, <3>2
            <4>2. x[i] = u[i] /\ u[i] = c[k + i] /\ t[k + i] = c[k + i]
                BY <1>2, <1>10, <1>12, <3>1, <3>2, <4>1
            <4> QED BY <3>1, <4>2
        <3>3. CASE ~(i <= Len(u))
            <4>1. PICK j \in Int : j = k + i
                BY <1>2, <3>1
            <4>2. ~(j <= Len(c)) /\ j - Len(c) = i - Len(u) /\ j \in 1 .. Len(c) + Len(w)
                BY <1>2, <1>10, <3>1, <3>3, <4>1
            <4>3. x[i] = w[i - Len(u)]
                BY <1>12, <3>3
            <4>4. t[j] = w[j - Len(c)]
                BY <1>2, <4>2
            <4> QED BY <3>1, <4>1, <4>2, <4>3, <4>4
        <3> QED BY <3>2, <3>3
    <2> QED BY <2>1, <2>2, SeqEqual
<1>14. ASSUME AllGood(t) PROVE AllGood(c) /\ AllGood(v)
    <2>1. AllGood(c)
        BY <1>3, <1>14 DEF AllGood
    <2>2. ASSUME NEW i \in 1 .. Len(v) PROVE v[i].good
        <3>1. i \in 1 .. Len(t) - k /\ k + i \in 1 .. Len(t)
            BY <1>2, <1>11
        <3> QED BY <1>11, <1>14, <3>1 DEF AllGood
    <2> QED BY <2>1, <2>2 DEF AllGood
<1> QED BY <1>1, <1>4, <1>5, <1>6, <1>7, <1>8, <1>9, <1>13, <1>14 DEF Rest

StreamInv == QueueInv /\ ByteTypes /\ TransitInv

\* What StreamInv says of the types.
LEMMA StreamFacts ==
    ASSUME StreamInv
    PROVE  /\ sent \in Seq(Packages) /\ queue \in Seq(Queued) /\ Waiting(queue) /\ size \in Nat
           /\ wire \in Seq(Byte) /\ cache \in Seq(Byte) /\ got \in Seq(Packages)
           /\ InTransit \in Seq(Byte) /\ Len(got) \in Nat /\ Len(sent) \in Nat
<1>1. /\ sent \in Seq(Packages) /\ queue \in Seq(Queued) /\ Waiting(queue) /\ size \in Nat
      /\ wire \in Seq(Byte) /\ cache \in Seq(Byte) /\ got \in Seq(Packages)
    BY DEF StreamInv, QueueInv, QueueTypes, ByteTypes
<1>2. InTransit \in Seq(Byte)
    BY <1>1, ConcatProperties DEF InTransit
<1> QED BY <1>1, <1>2

\* The chunk that read_cb gets, with the cached bytes in front, begins the bytes in transit.
LEMMA ContentChunk ==
    ASSUME NEW n, StreamInv, read_cb(n)
    PROVE  Content(n) \in Seq(Byte) /\ wire' \in Seq(Byte) /\ InTransit = Content(n) \o wire'
<1>1. /\ wire \in Seq(Byte) /\ cache \in Seq(Byte) /\ n \in 1 .. Len(wire)
      /\ wire' = SubSeq(wire, n + 1, Len(wire))
    BY StreamFacts DEF read_cb
<1>2. Len(wire) \in Nat /\ n \in Nat /\ n \in 0 .. Len(wire) /\ \A i \in 1 .. n : wire[i] \in Byte
    BY <1>1
<1>3. wire' \in Seq(Byte)
    BY <1>1, <1>2, Suffix
<1>4. PICK u \in Seq(Byte) : u = SubSeq(wire, 1, n)
    <2>1. SubSeq(wire, 1, n) \in Seq(Byte)
        BY <1>2, SubSeqProperties
    <2> QED BY <2>1
<1>5. u \o wire' = wire
    <2>1. 1 \in 1 .. Len(wire) + 1 /\ n \in 1 - 1 .. Len(wire) /\ Len(wire) \in n .. Len(wire)
        BY <1>2
    <2>2. SubSeq(wire, 1, n) \o SubSeq(wire, n + 1, Len(wire)) = SubSeq(wire, 1, Len(wire))
        BY <1>1, <2>1, ConcatAdjacentSubSeq
    <2>3. SubSeq(wire, 1, Len(wire)) = wire
        BY <1>1, SubSeqFull
    <2> QED BY <1>1, <1>4, <2>2, <2>3
<1>6. Content(n) = cache \o u /\ cache \o u \in Seq(Byte)
    BY <1>1, <1>4, ConcatProperties DEF Content
<1>7. (cache \o u) \o wire' = cache \o (u \o wire')
    <2>1. PICK w \in Seq(Byte) : w = wire'
        BY <1>3
    <2>2. (cache \o u) \o w = cache \o (u \o w)
        <3>1. cache \in Seq(Byte) /\ u \in Seq(Byte) /\ w \in Seq(Byte)
            BY <1>1
        <3> QED BY ONLY <3>1, ConcatAssociative
    <2> QED BY <2>1, <2>2
<1> QED BY <1>3, <1>5, <1>6, <1>7 DEF InTransit

\* _read_content_process: the next packages are delivered, and what is left begins with the
\* one after them; damage needs a package that had to wait.
ReadsNext(m) ==
    /\ m \in Len(got) .. Len(sent) /\ got' = SubSeq(sent, 1, m) /\ Len(got') = m
    /\ ~whole' => waited
    /\ whole' => /\ Run(sent, InTransit', m)
                 /\ handle = "open" => Ends(InTransit', m, NextNum(sent, queue), NextAt(queue))
                 /\ ~waited => AllGood(InTransit')

LEMMA ReadStep ==
    ASSUME NEW n, StreamInv, read_cb(n), whole
    PROVE  \E m \in Nat : ReadsNext(m)
<1>1. PICK c \in Seq(Byte) : c = Content(n)
    BY ContentChunk
<1>2. PICK w \in Seq(Byte) : w = wire'
    BY ContentChunk
<1>3. InTransit = c \o w
    BY <1>1, <1>2, ContentChunk
<1>4. sent \in Seq(Packages) /\ Len(got) \in Nat /\ Len(sent) \in Nat /\ InTransit \in Seq(Byte)
    BY StreamFacts
<1>5. PICK g \in 0 .. Len(sent) : g = Len(got) /\ got = SubSeq(sent, 1, g)
    BY DEF StreamInv, TransitInv, GotFirst
<1>6. g \in Nat
    BY <1>4, <1>5
<1>7. /\ Run(sent, c \o w, g)
      /\ handle = "open" => Ends(c \o w, g, NextNum(sent, queue), NextAt(queue))
      /\ ~waited => AllGood(c \o w)
    BY <1>3, <1>5 DEF StreamInv, TransitInv, WireInv, read_cb
<1>8. Run(sent, c, g)
    <2>1. 0 \in 0 .. Len(c)
        OBVIOUS
    <2> QED BY <1>4, <1>6, <1>7, <2>1, Chunk
<1>9. PICK r \in Outcome : r = parse[c]
    BY ParseType
<1>10. Parsed(sent, c, g, r)
    BY <1>4, <1>8, <1>9, ParseRun
<1>11. PICK k \in 0 .. Len(c), m \in Nat :
        /\ m \in g .. Len(sent) /\ Consumed(c, k, g, m)
        /\ r.pkgs = SubSeq(sent, g + 1, m) /\ r.rest = SubSeq(c, k + 1, Len(c))
        /\ r.damaged => \E i \in 1 .. Len(c) : ~c[i].good
    BY <1>10 DEF Parsed
<1>12. /\ got' = got \o r.pkgs /\ cache' = IF r.damaged THEN <<>> ELSE r.rest
       /\ whole' = ~r.damaged
    BY <1>1, <1>9 DEF read_cb
<1>13. /\ k \in 0 .. Len(c \o w) /\ Consumed(c \o w, k, g, m)
       /\ Rest(c, k) \o w = Rest(c \o w, k)
       /\ AllGood(c \o w) => AllGood(c) /\ AllGood(Rest(c, k) \o w)
    <2>1. /\ sent \in Seq(Packages) /\ c \in Seq(Byte) /\ w \in Seq(Byte) /\ g \in Nat
          /\ k \in 0 .. Len(c) /\ Run(sent, c \o w, g)
        BY <1>4, <1>6, <1>7, <1>11
    <2>2. /\ k \in 0 .. Len(c \o w)
          /\ Consumed(c, k, g, m) => Consumed(c \o w, k, g, m)
          /\ Rest(c, k) \o w = Rest(c \o w, k)
          /\ AllGood(c \o w) => AllGood(c) /\ AllGood(Rest(c, k) \o w)
        BY ONLY <2>1, Chunk
    <2> QED BY <1>11, <2>2
<1>14. got' = SubSeq(sent, 1, m)
    <2>1. 1 \in 1 .. Len(sent) + 1 /\ g \in 1 - 1 .. Len(sent) /\ m \in g .. Len(sent)
        BY <1>4, <1>5, <1>11
    <2>2. SubSeq(sent, 1, g) \o SubSeq(sent, g + 1, m) = SubSeq(sent, 1, m)
        BY <1>4, <2>1, ConcatAdjacentSubSeq
    <2> QED BY <1>5, <1>11, <1>12, <2>2
<1>15. Len(got') = m
    <2>1. m <= Len(sent) /\ \A i \in 1 .. m : sent[i] \in Packages
        BY <1>4, <1>5, <1>11
    <2>2. Len(SubSeq(sent, 1, m)) = IF 1 <= m THEN m - 1 + 1 ELSE 0
        BY <2>1, SubSeqProperties
    <2> QED BY <1>14, <2>2
<1>16. ASSUME ~whole' PROVE waited
    <2>1. r.damaged
        BY <1>12, <1>16
    <2>2. ~AllGood(c)
        BY <1>11, <2>1 DEF AllGood
    <2> QED BY <1>7, <1>13, <2>2
<1>17. ASSUME whole'
       PROVE  /\ Run(sent, InTransit', m)
              /\ handle = "open" => Ends(InTransit', m, NextNum(sent, queue), NextAt(queue))
              /\ ~waited => AllGood(InTransit')
    <2>1. InTransit' = Rest(c, k) \o w
        BY <1>2, <1>11, <1>12, <1>17 DEF InTransit, Rest
    <2>2. PICK t \in Seq(Byte) : t = c \o w
        BY <1>3, <1>4
    <2>3. /\ InTransit' = SubSeq(t, k + 1, Len(t)) /\ Run(sent, t, g) /\ Consumed(t, k, g, m)
          /\ k \in 0 .. Len(t)
        BY <1>7, <1>13, <2>1, <2>2 DEF Rest
    <2>4. NextNum(sent, queue) \in Nat /\ NextAt(queue) \in Nat
        BY SentQueue DEF StreamInv
    <2>5. /\ Run(sent, SubSeq(t, k + 1, Len(t)), m)
          /\ \A num, at \in Nat : Ends(t, g, num, at) => Ends(SubSeq(t, k + 1, Len(t)), m, num, at)
        BY <1>4, <1>6, <2>3, Cut
    <2>6. handle = "open" => Ends(InTransit', m, NextNum(sent, queue), NextAt(queue))
        BY <1>7, <2>2, <2>3, <2>4, <2>5
    <2>7. ~waited => AllGood(InTransit')
        BY <1>7, <1>13, <2>1
    <2> QED BY <2>3, <2>5, <2>6, <2>7
<1> QED BY <1>5, <1>11, <1>14, <1>15, <1>16, <1>17 DEF ReadsNext

\* The bytes that uv__write hands over lengthen the bytes in transit.
LEMMA TransitGrows ==
    ASSUME NEW u \in Seq(Byte), cache \in Seq(Byte), wire \in Seq(Byte),
           wire' = wire \o u, UNCHANGED cache
    PROVE  InTransit' = InTransit \o u
<1>1. (cache \o wire) \o u = cache \o (wire \o u)
    BY ConcatAssociative
<1> QED BY <1>1 DEF InTransit

\* The packages delivered stay when another one is handed over.
LEMMA GotStays ==
    ASSUME NEW p \in Packages, sent \in Seq(Packages), got \in Seq(Packages), GotFirst,
           sent' = Append(sent, p), UNCHANGED got
    PROVE  GotFirst'
<1>1. PICK s \in Seq(Packages) : s = Append(sent, p)
    BY AppendProperties
<1>2. /\ Len(s) = Len(sent) + 1 /\ Len(sent) \in Nat /\ Len(got) \in Nat /\ Len(got) <= Len(sent)
      /\ \A i \in 1 .. Len(sent) : s[i] = sent[i]
    BY <1>1, AppendProperties DEF GotFirst
<1>3. PICK u \in Seq(Packages) : u = SubSeq(s, 1, Len(got))
    <2>1. \A i \in 1 .. Len(got) : s[i] \in Packages
        BY <1>2
    <2>2. SubSeq(s, 1, Len(got)) \in Seq(Packages)
        BY <1>2, <2>1, SubSeqProperties
    <2> QED BY <2>2
<1>4. Len(u) = Len(got) /\ \A i \in 1 .. Len(got) : u[i] = s[i]
    <2>1. \A i \in 1 .. Len(got) : s[i] \in Packages
        BY <1>2
    <2>2. /\ Len(u) = IF 1 <= Len(got) THEN Len(got) - 1 + 1 ELSE 0
          /\ \A i \in 1 .. Len(got) - 1 + 1 : u[i] = s[1 + i - 1]
        BY <1>2, <1>3, <2>1, SubSeqProperties
    <2> QED BY <1>2, <2>2
<1>5. \A i \in 1 .. Len(got) : got[i] = sent[i]
    <2>1. \A i \in 1 .. Len(got) : sent[i] \in Packages
        BY <1>2
    <2>2. \A i \in 1 .. Len(got) - 1 + 1 : SubSeq(sent, 1, Len(got))[i] = sent[1 + i - 1]
        BY <1>2, <2>1, SubSeqProperties
    <2>3. got = SubSeq(sent, 1, Len(got))
        BY DEF GotFirst
    <2>4. \A i \in 1 .. Len(got) : i \in 1 .. Len(got) - 1 + 1 /\ 1 + i - 1 = i
        BY <1>2
    <2> QED BY <2>2, <2>3, <2>4
<1>6. \A i \in 1 .. Len(got) : got[i] = u[i]
    BY <1>2, <1>4, <1>5
<1>7. got = u
    BY <1>4, <1>6, SeqEqual
<1>8. Len(got) \in 0 .. Len(s)
    BY <1>2
<1> QED BY <1>1, <1>3, <1>7, <1>8 DEF GotFirst

LEMMA TransitWrite ==
    ASSUME StreamInv, NEW p \in Packages, do_write(p)
    PROVE  TransitInv'
<1> DEFINE q == Append(queue, [pkg |-> p, left |-> Size(p)])
           sz == size + Size(p)
<1>1. /\ sent \in Seq(Packages) /\ queue \in Seq(Queued) /\ size \in Nat
      /\ wire \in Seq(Byte) /\ cache \in Seq(Byte) /\ got \in Seq(Packages)
      /\ InTransit \in Seq(Byte) /\ Len(got) \in Nat /\ Len(sent) \in Nat
    BY StreamFacts
<1>2. PICK a \in Seq(Packages) : a = PackagesOf(called) \o PackagesOf(completed)
    BY QueueFacts, ConcatProperties DEF StreamInv, QueueInv
<1>3. /\ q \in Seq(Queued) /\ Waiting(q) /\ q # <<>> /\ Append(sent, p) = a \o PackagesOf(q)
    BY <1>2, QueueAppend DEF StreamInv
<1>4. sz \in Nat /\ Size(p) \in Nat
    BY <1>1, SizeType
<1>5. /\ p.num = Len(sent) + 1 /\ sent' = Append(sent, p)
      /\ IF size = 0 THEN WriteAtOnce(q, sz) ELSE Enqueue(q, sz)
    BY DEF do_write
<1>6. handle = "open" /\ UNCHANGED <<handle, reset, cache, got, whole>>
    BY DEF do_write, readVars
<1>7. watching \in BOOLEAN
    BY DEF StreamInv, ByteTypes, Flags
<1>8. PICK s \in Seq(Packages) : s = Append(sent, p)
    BY <1>1, AppendProperties
<1>9. Numbered(s) /\ Numbered(sent)'
    <2>1. Len(s) = Len(sent) + 1 /\ s[Len(sent) + 1] = p /\ \A i \in 1 .. Len(sent) : s[i] = sent[i]
        BY <1>8, AppendProperties
    <2>2. \A i \in 1 .. Len(s) : i \in 1 .. Len(sent) \/ i = Len(sent) + 1
        BY <1>1, <2>1
    <2>3. Numbered(s)
        BY <1>5, <2>1, <2>2 DEF Numbered, StreamInv, TransitInv
    <2> QED BY <1>5, <1>8, <2>3 DEF Numbered
<1>10. GotFirst'
    BY <1>1, <1>5, <1>6, GotStays DEF StreamInv, TransitInv
<1>11. NextNum(s, q) = NextNum(sent, queue) /\ NextAt(q) = NextAt(queue)
    <2> DEFINE x == [pkg |-> p, left |-> Size(p)]
    <2>1. x \in Queued /\ x.pkg = p /\ x.left = Size(p)
        BY <1>4 DEF Queued
    <2> HIDE DEF x
    <2>2. /\ Len(q) = Len(queue) + 1 /\ q[Len(queue) + 1] = x /\ Len(queue) \in Nat
          /\ \A i \in 1 .. Len(queue) : q[i] = queue[i]
        BY <1>1, <2>1, AppendProperties DEF x
    <2>3. Len(s) = Len(sent) + 1
        BY <1>8, AppendProperties
    <2>4. NextNum(s, q) = NextNum(sent, queue)
        BY <1>1, <2>2, <2>3 DEF NextNum
    <2>5. CASE queue = <<>>
        <3>1. q[1] = x
            BY <2>2, <2>5
        <3>2. Size(p) - Size(p) + 1 = 1
            BY <1>4
        <3> HIDE DEF q
        <3> QED BY <1>3, <2>1, <2>4, <2>5, <3>1, <3>2 DEF NextAt
    <2>6. CASE queue # <<>>
        <3>1. q[1] = queue[1]
            BY <1>1, <2>2, <2>6, EmptySeq
        <3> HIDE DEF q
        <3> QED BY <1>3, <2>4, <2>6, <3>1 DEF NextAt
    <2> QED BY <2>5, <2>6
<1>12. ASSUME ~reset, whole
       PROVE  /\ Run(s, InTransit, Len(got)) /\ Ends(InTransit, Len(got), NextNum(s, q), NextAt(q))
              /\ ~waited => AllGood(InTransit)
    <2>1. Run(sent, InTransit, Len(got))
        BY <1>12 DEF StreamInv, TransitInv, WireInv
    <2>2. Ends(InTransit, Len(got), NextNum(sent, queue), NextAt(queue))
        BY <1>6, <1>12 DEF StreamInv, TransitInv, WireInv
    <2>3. ~waited => AllGood(InTransit)
        BY <1>12 DEF StreamInv, TransitInv, WireInv
    <2> QED BY <1>1, <1>8, <1>11, <2>1, <2>2, <2>3, RunGrows
<1> HIDE DEF q, sz
<1>13. CASE size # 0
    <2>1. queue' = q /\ waited' = TRUE /\ UNCHANGED wire
        BY <1>5, <1>13 DEF Enqueue
    <2>2. InTransit' = InTransit
        BY <1>6, <2>1 DEF InTransit
    <2>3. waited' /\ QueuedWaited'
        BY <2>1 DEF QueuedWaited
    <2>4. WireInv'
        BY <1>5, <1>6, <1>8, <1>12, <2>1, <2>2, <2>3 DEF WireInv
    <2> QED BY <1>9, <1>10, <2>3, <2>4 DEF TransitInv
<1>14. CASE size = 0
    <2>1. PICK r \in uv__write(q, sz, TRUE) :
            /\ queue' = r.queue /\ wire' = wire \o r.bytes /\ waited' = (waited \/ r.queue # <<>>)
        BY <1>5, <1>14 DEF WriteAtOnce
    <2>2. QueuedWaited'
        BY <2>1 DEF QueuedWaited
    <2>3. PICK u \in Seq(Byte) : u = r.bytes
        BY <1>3, <1>4, <1>7, WriteBytes
    <2>4. InTransit' = InTransit \o u
        BY <1>1, <1>6, <2>1, <2>3, TransitGrows
    <2>5. ASSUME ~reset, whole
          PROVE  /\ Run(s, InTransit \o u, Len(got))
                 /\ Ends(InTransit \o u, Len(got), NextNum(s, r.queue), NextAt(r.queue))
                 /\ AllGood(u)
        <3>1. Run(s, InTransit, Len(got)) /\ Ends(InTransit, Len(got), NextNum(s, q), NextAt(q))
            BY <1>12, <2>5
        <3>2. s = a \o PackagesOf(q)
            BY <1>3, <1>8
        <3> QED BY <1>1, <1>3, <1>4, <1>7, <1>9, <2>3, <2>5, <3>1, <3>2, WriteExtends DEF AllGood
    <2>6. ASSUME ~reset, whole, ~waited' PROVE AllGood(InTransit \o u)
        <3>1. ~waited
            BY <2>1, <2>6
        <3> QED BY <1>1, <1>12, <2>5, <2>6, <3>1, GoodConcat
    <2>7. WireInv'
        BY <1>5, <1>6, <1>8, <2>1, <2>4, <2>5, <2>6 DEF WireInv
    <2> QED BY <1>9, <1>10, <2>2, <2>7 DEF TransitInv
<1> QED BY <1>13, <1>14

LEMMA TransitIo ==
    ASSUME StreamInv, NEW good \in BOOLEAN, stream_io(good)
    PROVE  TransitInv'
<1>1. /\ sent \in Seq(Packages) /\ queue \in Seq(Queued) /\ Waiting(queue) /\ size \in Nat
      /\ wire \in Seq(Byte) /\ cache \in Seq(Byte) /\ got \in Seq(Packages)
      /\ InTransit \in Seq(Byte) /\ Len(got) \in Nat
    BY StreamFacts
<1>2. PICK r \in uv__write(queue, size, good) : queue' = r.queue /\ wire' = wire \o r.bytes
    BY DEF stream_io
<1>3. handle = "open" /\ UNCHANGED <<handle, sent, waited, reset, cache, got, whole>>
    BY DEF stream_io, readVars
<1>4. watching \in BOOLEAN
    BY DEF StreamInv, ByteTypes, Flags
<1>5. PICK a \in Seq(Packages) : sent = a \o PackagesOf(queue)
    BY SentQueue DEF StreamInv
<1>6. Numbered(sent) /\ QueuedWaited /\ GotFirst
    BY DEF StreamInv, TransitInv
<1>7. QueuedWaited'
    <2>1. queue = <<>> => r.queue = <<>>
        BY <1>1, WriteAccounts DEF Accounts
    <2> QED BY <1>2, <1>3, <1>6, <2>1 DEF QueuedWaited
<1>8. Numbered(sent)' /\ GotFirst'
    BY <1>3, <1>6 DEF Numbered, GotFirst
<1>9. PICK u \in Seq(Byte) : u = r.bytes
    BY <1>1, <1>4, WriteBytes
<1>10. InTransit' = InTransit \o u
    BY <1>1, <1>2, <1>3, <1>9, TransitGrows
<1>11. ASSUME ~reset, whole
       PROVE  /\ Run(sent, InTransit \o u, Len(got))
              /\ Ends(InTransit \o u, Len(got), NextNum(sent, r.queue), NextAt(r.queue))
              /\ ~waited => AllGood(InTransit \o u)
    <2>1. /\ Run(sent, InTransit, Len(got))
          /\ Ends(InTransit, Len(got), NextNum(sent, queue), NextAt(queue))
          /\ ~waited => AllGood(InTransit)
        BY <1>3, <1>11 DEF StreamInv, TransitInv, WireInv
    <2>2. /\ Run(sent, InTransit \o u, Len(got))
          /\ Ends(InTransit \o u, Len(got), NextNum(sent, r.queue), NextAt(r.queue))
          /\ queue = <<>> => AllGood(u)
        BY <1>1, <1>4, <1>5, <1>6, <1>9, <1>11, <2>1, WriteExtends DEF AllGood
    <2>3. ASSUME ~waited PROVE AllGood(InTransit \o u)
        <3>1. AllGood(u)
            BY <1>6, <2>2, <2>3 DEF QueuedWaited
        <3> QED BY <1>1, <2>1, <2>3, <3>1, GoodConcat
    <2> QED BY <2>2, <2>3
<1>12. WireInv'
    BY <1>2, <1>3, <1>10, <1>11 DEF WireInv
<1> QED BY <1>7, <1>8, <1>12 DEF TransitInv

LEMMA TransitRead ==
    ASSUME NEW n, StreamInv, read_cb(n)
    PROVE  TransitInv'
<1>1. UNCHANGED <<handle, sent, queue, waited, reset>> /\ ~reset
    BY DEF read_cb, sendVars
<1>2. Numbered(sent)' /\ QueuedWaited'
    BY <1>1 DEF StreamInv, TransitInv, Numbered, QueuedWaited
<1>3. CASE whole
    <2>1. PICK m \in Nat : ReadsNext(m)
        BY <1>3, ReadStep
    <2>2. GotFirst'
        <3>1. m \in 0 .. Len(sent) /\ got' = SubSeq(sent, 1, m) /\ Len(got') = m
            BY <2>1, StreamFacts DEF ReadsNext
        <3> QED BY <1>1, <3>1 DEF GotFirst
    <2>3. WireInv'
        BY <1>1, <2>1 DEF ReadsNext, WireInv
    <2> QED BY <1>2, <2>2, <2>3 DEF TransitInv
<1>4. CASE ~whole
    <2>1. UNCHANGED <<cache, got, whole>>
        BY <1>4 DEF read_cb, readVars
    <2>2. GotFirst'
        BY <1>1, <2>1 DEF StreamInv, TransitInv, GotFirst
    <2>3. WireInv'
        BY <1>4, <2>1 DEF WireInv
    <2> QED BY <1>2, <2>2, <2>3 DEF TransitInv
<1> QED BY <1>3, <1>4

\* Steps that close an end.
LEMMA TransitCloses ==
    ASSUME StreamInv, uv_close \/ stream_destroy \/ PeerCloses \/ UNCHANGED vars
    PROVE  TransitInv'
<1>1. Numbered(sent) /\ QueuedWaited /\ GotFirst /\ WireInv
    BY DEF StreamInv, TransitInv
<1>2. UNCHANGED <<sent, got, waited, cache, whole>>
    BY DEF uv_close, stream_destroy, PeerCloses, vars, sendVars, readVars
<1>3. Numbered(sent)' /\ GotFirst'
    BY <1>1, <1>2 DEF Numbered, GotFirst
<1>4. CASE uv_close \/ stream_destroy
    <2>1. handle' # "open" /\ UNCHANGED <<reset, wire>>
        BY <1>4 DEF uv_close, stream_destroy
    <2>2. queue' = queue \/ queue' = <<>>
        BY <1>4 DEF uv_close, stream_destroy
    <2>3. QueuedWaited'
        BY <1>1, <1>2, <2>2 DEF QueuedWaited
    <2>4. InTransit' = InTransit
        BY <1>2, <2>1 DEF InTransit
    <2>5. WireInv'
        BY <1>1, <1>2, <2>1, <2>4 DEF WireInv
    <2> QED BY <1>3, <2>3, <2>5 DEF TransitInv
<1>5. CASE PeerCloses
    <2>1. reset' /\ UNCHANGED queue
        BY <1>5 DEF PeerCloses, sendVars
    <2>2. QueuedWaited'
        BY <1>1, <1>2, <2>1 DEF QueuedWaited
    <2>3. WireInv'
        BY <2>1 DEF WireInv
    <2> QED BY <1>3, <2>2, <2>3 DEF TransitInv
<1>6. CASE UNCHANGED vars
    <2>1. UNCHANGED <<handle, reset, wire, queue>>
        BY <1>6 DEF vars, sendVars
    <2>2. InTransit' = InTransit
        BY <1>2, <2>1 DEF InTransit
    <2>3. QueuedWaited' /\ WireInv'
        BY <1>1, <1>2, <2>1, <2>2 DEF QueuedWaited, WireInv
    <2> QED BY <1>3, <2>3 DEF TransitInv
<1> QED BY <1>4, <1>5, <1>6

LEMMA StreamInvHolds == Spec => []StreamInv
<1>1. Init => TransitInv
    <2> SUFFICES ASSUME Init PROVE TransitInv
        OBVIOUS
    <2>1. /\ sent = <<>> /\ queue = <<>> /\ got = <<>> /\ wire = <<>> /\ cache = <<>>
          /\ Len(<<>>) = 0
        BY DEF Init
    <2>2. InTransit = <<>> /\ SubSeq(<<>>, 1, 0) = <<>>
        <3>1. SubSeq(<<>>, 1, 0) = <<>>
            BY SubSeqEmpty
        <3> QED BY <2>1, <3>1 DEF InTransit
    <2>3. Numbered(sent) /\ QueuedWaited /\ GotFirst
        BY <2>1, <2>2 DEF Numbered, QueuedWaited, GotFirst
    <2>4. Run(sent, InTransit, Len(got)) /\ AllGood(InTransit)
        BY <2>1, <2>2 DEF Run, AllGood
    <2>5. Ends(InTransit, Len(got), NextNum(sent, queue), NextAt(queue))
        BY <2>1, <2>2 DEF Ends, NextNum, NextAt
    <2> QED BY <2>3, <2>4, <2>5 DEF TransitInv, WireInv
<1>2. QueueInv /\ ByteTypes /\ TransitInv /\ [Next]_vars => TransitInv'
    BY TransitWrite, TransitIo, TransitRead, TransitCloses DEF Next, StreamInv
<1>3. QueueInv /\ ByteTypes /\ TransitInv => StreamInv
    BY DEF StreamInv
<1> QED BY <1>1, <1>2, <1>3, QueueInvHolds, ByteTypesHold, PTL DEF Spec
-----------------------------------------------------------------------------
\* Whatever the kernel takes at a time and however it cuts the bytes into chunks, the loop
\* over proto_parse_package delivers the packages that _do_write handed over whole, once and
\* in order; and it meets damage only after some package had to wait for the kernel, as
\* _do_write had then released it.
THEOREM StreamIsChannel == Spec => ImplementsChannel
<1>1. Init => Chan!Init
    BY DEF Init, Chan!Init
<1>2. StreamInv /\ [Next]_vars => [Chan!Next]_(Chan!chanVars)
    <2> SUFFICES ASSUME StreamInv, [Next]_vars PROVE Chan!Next \/ UNCHANGED <<sent, got, waited, whole>>
        BY DEF Chan!chanVars
    <2>1. ASSUME NEW p \in Packages, do_write(p) PROVE Chan!Next
        <3>1. sent' = Append(sent, p) /\ UNCHANGED <<got, whole>>
            BY <2>1 DEF do_write, readVars
        <3>2. waited' = waited \/ waited' = TRUE
            <4>1. waited' = TRUE \/ \E b \in BOOLEAN : waited' = (waited \/ b)
                BY <2>1 DEF do_write, Enqueue, WriteAtOnce
            <4>2. waited \in BOOLEAN
                BY DEF StreamInv, ByteTypes, Flags
            <4> QED BY <4>1, <4>2
        <3>3. waited' \in {waited, TRUE}
            BY <3>2, Zenon
        <3>4. Chan!Send(p)
            BY <3>1, <3>3 DEF Chan!Send
        <3> QED BY <3>4 DEF Chan!Next
    <2>2. ASSUME NEW n, read_cb(n) PROVE Chan!Next \/ UNCHANGED <<sent, got, waited, whole>>
        <3>1. UNCHANGED <<sent, waited>>
            BY <2>2 DEF read_cb, sendVars
        <3>2. CASE ~whole
            BY <2>2, <3>1, <3>2 DEF read_cb, readVars
        <3>3. CASE whole
            <4>1. PICK m \in Nat : ReadsNext(m)
                BY <2>2, <3>3, ReadStep
            <4>2. /\ m \in Len(got) .. Len(sent) /\ got' = SubSeq(sent, 1, m)
                  /\ Len(got) \in Nat /\ Len(sent) \in Nat /\ m \in 0 .. Len(sent)
                BY <4>1, StreamFacts DEF ReadsNext
            <4>3. CASE ~whole'
                <5>1. waited
                    BY <4>1, <4>3 DEF ReadsNext
                <5>2. whole' = FALSE
                    <6>1. whole' \in BOOLEAN
                        BY TypesStep DEF StreamInv, ByteTypes, Flags
                    <6> QED BY <4>3, <6>1
                <5>3. Chan!Damage(m)
                    BY <3>1, <3>3, <4>2, <5>1, <5>2 DEF Chan!Damage
                <5> QED BY <4>2, <5>3 DEF Chan!Next
            <4>4. CASE whole' /\ m # Len(got)
                <5>1. UNCHANGED whole
                    BY <3>3, <4>4
                <5>2. m \in Len(got) + 1 .. Len(sent)
                    BY <4>2, <4>4
                <5>3. Chan!Receive(m)
                    BY <3>1, <3>3, <4>2, <5>1, <5>2 DEF Chan!Receive
                <5> QED BY <4>2, <5>3 DEF Chan!Next
            <4>5. CASE whole' /\ m = Len(got)
                <5>1. got' = got
                    BY <4>2, <4>5 DEF StreamInv, TransitInv, GotFirst
                <5>2. UNCHANGED whole
                    BY <3>3, <4>5
                <5> QED BY <3>1, <5>1, <5>2
            <4> QED BY <4>3, <4>4, <4>5
        <3> QED BY <3>2, <3>3
    <2>3. CASE \/ \E good \in BOOLEAN : stream_io(good)
               \/ uv_close \/ stream_destroy \/ PeerCloses \/ UNCHANGED vars
        BY <2>3 DEF stream_io, uv_close, stream_destroy, PeerCloses, vars, sendVars, readVars
    <2> QED BY <2>1, <2>2, <2>3 DEF Next
<1> QED BY <1>1, <1>2, StreamInvHolds, PTL DEF Spec, ImplementsChannel, Chan!Spec
=============================================================================
