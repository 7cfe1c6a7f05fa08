-------------------------- MODULE ConnectionProofs --------------------------
(***************************************************************************)
(* A connection implements the channel.                                    *)
(*                                                                         *)
(* The argument is one about cells.  Those that are under way from an end  *)
(* are in four places: in the other end's _cache, in the hands of the read *)
(* thread that has just read them, on the wire, and in _sendCache without  *)
(* what has been written of it.  One after the other they are the messages *)
(* sent and not yet arrived, in order and without a gap (Carried), except  *)
(* that the end is missing once the connection is lost.  Most steps only   *)
(* move cells from one place to the next.  Two facts are needed for that:  *)
(* one write thread holds the fd's mutex, and _sendCache still begins with *)
(* what that thread copied (OneWriter); and at most one read thread serves *)
(* the fd, because its fd is in the epoll set, or asked for in g_queueRead,*)
(* or served, and never two of these (OneReader).  AddDataToReadBuf then   *)
(* finds a message's first cell at the beginning of the cache, and what it *)
(* cuts off is the next message.                                           *)
(***************************************************************************)
EXTENDS Connection, Integers, TLAPS

\* Most leaves are first-order; those with arithmetic, sequences or records name SMT.
USE Zenon

Cell == Msgs \X Nat

\* The cells s are the messages of q after the first a, one after the other
\* and each from its first cell to its last; the end may be missing, unless
\* s is whole.  off[i] is where message i ends.
Laid(s, q, a, whole) ==
    \E off \in [Nat -> Int] :
        /\ a <= Len(q) /\ off[a] = 0
        /\ \A i \in a .. Len(q), k \in a .. Len(q) : i <= k => off[i] <= off[k]
        /\ Len(s) <= off[Len(q)] /\ (whole => Len(s) = off[Len(q)])
        /\ \A i \in a + 1 .. Len(q) :
             /\ off[i] = off[i - 1] + len[q[i]]
             /\ \A j \in 1 .. len[q[i]] :
                  off[i - 1] + j <= Len(s) => s[off[i - 1] + j] = <<q[i], j>>

-----------------------------------------------------------------------------
(* The facts on sequences that the proofs cite.                            *)

\* An element of a sequence over S is in S.
LEMMA ElementOfSeq ==
    ASSUME NEW S, NEW seq \in Seq(S), NEW n \in 1 .. Len(seq)
    PROVE  seq[n] \in S
BY SMT

\* The empty sequence, and the length of the others.
LEMMA EmptySeq ==
    ASSUME NEW S
    PROVE  /\ <<>> \in Seq(S) /\ Len(<<>>) = 0
           /\ \A seq \in Seq(S) : seq # <<>> => Len(seq) \in Nat \ {0}
BY SMT

\* Two sequences of one length with the same elements are the same.
LEMMA SeqEqual ==
    ASSUME NEW S, NEW s \in Seq(S), NEW t \in Seq(S),
           Len(s) = Len(t), \A i \in 1 .. Len(s) : s[i] = t[i]
    PROVE  s = t
BY SMT

\* The length and the elements of a concatenation.
LEMMA ConcatProperties ==
    ASSUME NEW S, NEW s \in Seq(S), NEW t \in Seq(S)
    PROVE  /\ s \o t \in Seq(S) /\ Len(s \o t) = Len(s) + Len(t)
           /\ \A i \in 1 .. Len(s) + Len(t) :
                (s \o t)[i] = IF i <= Len(s) THEN s[i] ELSE t[i - Len(s)]
BY SMT

\* Concatenation with the empty sequence.
LEMMA ConcatEmptySeq ==
    ASSUME NEW S, NEW s \in Seq(S)
    PROVE  s \o <<>> = s /\ <<>> \o s = s
BY SMT

\* Concatenation is associative.
LEMMA ConcatAssociative ==
    ASSUME NEW S, NEW s \in Seq(S), NEW t \in Seq(S), NEW u \in Seq(S)
    PROVE  (s \o t) \o u = s \o (t \o u)
<1>1. /\ (s \o t) \o u \in Seq(S) /\ s \o (t \o u) \in Seq(S)
      /\ Len((s \o t) \o u) = Len(s \o (t \o u))
    BY SMT
<1>2. \A i \in 1 .. Len((s \o t) \o u) : ((s \o t) \o u)[i] = (s \o (t \o u))[i]
    BY SMT
<1> QED BY <1>1, <1>2, SeqEqual

\* The length and the elements of a part of a sequence.
LEMMA SubSeqProperties ==
    ASSUME NEW S, NEW s, NEW m \in Int, NEW n \in Int, \A i \in m .. n : s[i] \in S
    PROVE  /\ SubSeq(s, m, n) \in Seq(S)
           /\ Len(SubSeq(s, m, n)) = IF m <= n THEN n - m + 1 ELSE 0
           /\ \A i \in 1 .. n - m + 1 : SubSeq(s, m, n)[i] = s[m + i - 1]
BY SMT

\* The first k elements and the others are the sequence.
LEMMA SplitSeq ==
    ASSUME NEW S, NEW s \in Seq(S), NEW k \in 0 .. Len(s)
    PROVE  SubSeq(s, 1, k) \o SubSeq(s, k + 1, Len(s)) = s
<1> DEFINE a == SubSeq(s, 1, k)
           b == SubSeq(s, k + 1, Len(s))
<1>1. a \in Seq(S) /\ Len(a) = k /\ b \in Seq(S) /\ Len(b) = Len(s) - k
    BY SMT
<1>2. /\ \A i \in 1 .. k : a[i] = s[i]
      /\ \A i \in 1 .. Len(s) - k : b[i] = s[k + i]
    BY SMT
<1> HIDE DEF a, b
<1>3. /\ a \o b \in Seq(S) /\ Len(a \o b) = Len(s)
      /\ \A i \in 1 .. Len(s) : (a \o b)[i] = IF i <= k THEN a[i] ELSE b[i - k]
    BY SMT, <1>1, ConcatProperties
<1>4. ASSUME NEW i \in 1 .. Len(a \o b) PROVE (a \o b)[i] = s[i]
    <2>1. i \in 1 .. Len(s) /\ k \in Nat /\ Len(s) \in Nat
        BY SMT, <1>3
    <2>2. CASE i <= k
        BY SMT, <2>1, <2>2, <1>2, <1>3
    <2>3. CASE ~(i <= k)
        <3>1. i - k \in 1 .. Len(s) - k /\ k + (i - k) = i
            BY SMT, <2>1, <2>3
        <3> QED BY SMT, <3>1, <2>1, <2>3, <1>2, <1>3
    <2> QED BY SMT, <2>2, <2>3
<1>5. a \o b = s
    BY <1>3, <1>4, SeqEqual
<1> QED BY <1>5 DEF a, b

\* The first element of a sequence and the others.
LEMMA HeadTailProperties ==
    ASSUME NEW S, NEW s \in Seq(S), s # <<>>
    PROVE  /\ Head(s) \in S /\ Tail(s) \in Seq(S) /\ Len(Tail(s)) = Len(s) - 1
           /\ \A i \in 1 .. Len(Tail(s)) : Tail(s)[i] = s[i + 1]
BY SMT

-----------------------------------------------------------------------------
(* The two ends.                                                           *)

\* Each end has one other end.
LEMMA OtherEnd ==
    ASSUME NEW e \in Ends
    PROVE  /\ Other(e) \in Ends /\ Other(e) # e
           /\ \A f \in Ends : f # e => f = Other(e)
           /\ Other(Other(e)) = e
<1>1. PICK x \in Ends, y \in Ends : x # y /\ Ends = {x, y}
    BY SMT, SizeAssumption
<1>2. \A g \in Ends : Other(g) \in Ends /\ Other(g) # g
    BY <1>1 DEF Other
<1> QED BY <1>1, <1>2

-----------------------------------------------------------------------------
(* Messages laid out in cells.                                             *)

\* Pack::PackagToStr makes cells.
LEMMA CellsType ==
    ASSUME NEW m \in Msgs
    PROVE  /\ len[m] \in Nat \ {0}
           /\ Cells(m) \in Seq(Cell) /\ Len(Cells(m)) = len[m]
           /\ \A j \in 1 .. len[m] : Cells(m)[j] = <<m, j>>
<1>1. len[m] \in Nat \ {0}
    BY SizeAssumption
<1>2. \A j \in 1 .. len[m] : <<m, j>> \in Cell
    BY SMT, <1>1 DEF Cell
<1> QED BY SMT, <1>1, <1>2 DEF Cells

\* Nothing, laid out.
LEMMA LaidNone ==
    ASSUME NEW whole
    PROVE  Laid(<<>>, <<>>, 0, whole)
<1> DEFINE off == [n \in Nat |-> 0]
<1> off \in [Nat -> Int]
    BY SMT
<1> SUFFICES
        /\ 0 <= Len(<<>>) /\ off[0] = 0
        /\ \A i \in 0 .. Len(<<>>), k \in 0 .. Len(<<>>) : i <= k => off[i] <= off[k]
        /\ Len(<<>>) <= off[Len(<<>>)] /\ (whole => Len(<<>>) = off[Len(<<>>)])
        /\ \A i \in 0 + 1 .. Len(<<>>) :
             /\ off[i] = off[i - 1] + len[<<>>[i]]
             /\ \A j \in 1 .. len[<<>>[i]] :
                  off[i - 1] + j <= Len(<<>>) => <<>>[off[i - 1] + j] = <<<<>>[i], j>>
    BY DEF Laid
<1> QED BY SMT

\* The cells of two sequences, one after the other.
LEMMA Joined ==
    ASSUME NEW S, NEW s \in Seq(S), NEW t \in Seq(S)
    PROVE  /\ s \o t \in Seq(S) /\ Len(s \o t) = Len(s) + Len(t)
           /\ \A j \in 1 .. Len(s) : (s \o t)[j] = s[j]
           /\ \A j \in 1 .. Len(t) : (s \o t)[Len(s) + j] = t[j]
BY SMT, ConcatProperties

\* v has the cells of s, and then those of t.
Join(v, s, t) ==
    /\ v \in Seq(Cell) /\ Len(v) = Len(s) + Len(t)
    /\ \A j \in 1 .. Len(s) : v[j] = s[j]
    /\ \A j \in 1 .. Len(t) : v[Len(s) + j] = t[j]

\* What s \o t is.
LEMMA JoinedCells ==
    ASSUME NEW s \in Seq(Cell), NEW t \in Seq(Cell)
    PROVE  Join(s \o t, s, t)
BY SMT, Joined DEF Join

\* A sequence without its first cells.
LEMMA Rest ==
    ASSUME NEW S, NEW s \in Seq(S), NEW n \in 0 .. Len(s)
    PROVE  /\ SubSeq(s, n + 1, Len(s)) \in Seq(S)
           /\ Len(SubSeq(s, n + 1, Len(s))) = Len(s) - n
           /\ \A j \in 1 .. Len(s) - n : SubSeq(s, n + 1, Len(s))[j] = s[n + j]
<1>1. \A i \in n + 1 .. Len(s) : s[i] \in S
    BY SMT, ElementOfSeq
<1> QED BY SMT, <1>1, SubSeqProperties

\* Some cells of a sequence.
LEMMA Part ==
    ASSUME NEW S, NEW s \in Seq(S), NEW n \in Nat, NEW k \in Nat, n + k <= Len(s)
    PROVE  /\ SubSeq(s, n + 1, n + k) \in Seq(S) /\ Len(SubSeq(s, n + 1, n + k)) = k
           /\ \A j \in 1 .. k : SubSeq(s, n + 1, n + k)[j] = s[n + j]
<1>1. \A i \in n + 1 .. n + k : s[i] \in S
    BY SMT, ElementOfSeq
<1> QED BY SMT, <1>1, SubSeqProperties

\* The place and the buffer of a read thread.
Parts(v, a, b) == v.at = a /\ v.buff = b

\* They are those of its record.
LEMMA Fields ==
    ASSUME NEW v, NEW a, NEW b, NEW n, v = [at |-> a, buff |-> b, n |-> n]
    PROVE  Parts(v, a, b)
BY DEF Parts

\* A step before i in an interval.
LEMMA Before ==
    ASSUME NEW a \in Nat, NEW n \in Nat, NEW i \in a + 1 .. n
    PROVE  i - 1 \in a .. n /\ a \in a .. n /\ a <= i - 1
BY SMT

\* A sequence of which a piece can be taken.
LEMMA HasPiece ==
    ASSUME NEW w \in Seq(Cell), NEW n \in 0 .. Len(w), n > 0
    PROVE  w # <<>>
BY SMT

\* A read thread that reads or cuts off is not about to append.
LEMMA NotAdding == ASSUME NEW v, v = "cut" \/ v = "read" PROVE v # "add"
OBVIOUS

\* A message appended to a whole layout makes one.
LEMMA LaidAppend ==
    ASSUME NEW s \in Seq(Cell), NEW q \in Seq(Msgs), NEW a \in Nat, NEW m \in Msgs,
           Laid(s, q, a, TRUE)
    PROVE  Laid(s \o Cells(m), Append(q, m), a, TRUE)
<1> DEFINE n == Len(q)
           t == s \o Cells(m)
           r == Append(q, m)
           l == len[m]
<1>0. n \in Nat /\ Len(s) \in Nat /\ l \in Nat \ {0}
    BY SMT, CellsType
<1>1. PICK off \in [Nat -> Int] :
        /\ a <= n /\ off[a] = 0
        /\ \A i \in a .. n, k \in a .. n : i <= k => off[i] <= off[k]
        /\ Len(s) <= off[n] /\ Len(s) = off[n]
        /\ \A i \in a + 1 .. n :
             /\ off[i] = off[i - 1] + len[q[i]]
             /\ \A j \in 1 .. len[q[i]] :
                  off[i - 1] + j <= Len(s) => s[off[i - 1] + j] = <<q[i], j>>
    BY DEF Laid
<1>3. /\ Len(r) = n + 1 /\ r[n + 1] = m
      /\ \A i \in 1 .. n : r[i] = q[i]
    BY SMT
<1>4. /\ Len(t) = Len(s) + l
      /\ \A j \in 1 .. Len(s) : t[j] = s[j]
      /\ \A j \in 1 .. l : t[Len(s) + j] = <<m, j>>
    <2>1. /\ Cells(m) \in Seq(Cell) /\ Len(Cells(m)) = l
          /\ \A j \in 1 .. l : Cells(m)[j] = <<m, j>>
        BY CellsType
    <2>2. /\ Len(t) = Len(s) + Len(Cells(m))
          /\ \A j \in 1 .. Len(s) : t[j] = s[j]
          /\ \A j \in 1 .. Len(Cells(m)) : t[Len(s) + j] = Cells(m)[j]
        <3>1. Join(t, s, Cells(m))
            BY <2>1, JoinedCells
        <3> QED BY <3>1 DEF Join
    <2> HIDE DEF t, l
    <2>3. Len(t) = Len(s) + l
        BY <2>1, <2>2
    <2>4. ASSUME NEW j \in 1 .. l PROVE t[Len(s) + j] = <<m, j>>
        <3>1. j \in 1 .. Len(Cells(m)) /\ Cells(m)[j] = <<m, j>>
            BY <2>1
        <3> QED BY <3>1, <2>2
    <2> QED BY <2>2, <2>3, <2>4
<1>2. ASSUME NEW i \in 1 .. n PROVE len[q[i]] \in Nat
    <2>1. q[i] \in Msgs
        BY ElementOfSeq
    <2> QED BY <2>1, CellsType
<1> HIDE DEF t, r, n, l
<1> DEFINE off2 == [off EXCEPT ![n + 1] = off[n] + l]
<1>5. /\ off2 \in [Nat -> Int]
      /\ \A i \in a .. n : off2[i] = off[i]
      /\ off2[n + 1] = off[n] + l
    BY SMT, <1>0, <1>1
<1> HIDE DEF off2
<1>6. a <= Len(r) /\ off2[a] = 0
    BY SMT, <1>0, <1>1, <1>3, <1>5
<1>7. \A i \in a .. Len(r), k \in a .. Len(r) : i <= k => off2[i] <= off2[k]
    <2> SUFFICES ASSUME NEW i \in a .. n + 1, NEW k \in a .. n + 1, i <= k
                 PROVE  off2[i] <= off2[k]
        BY <1>3
    <2>1. CASE k \in a .. n
        <3>1. i \in a .. n
            BY SMT, <2>1, <1>0
        <3>2. off2[i] = off[i] /\ off2[k] = off[k] /\ off[i] <= off[k]
            BY <3>1, <2>1, <1>1, <1>5
        <3> QED BY <3>2
    <2>2. CASE k = n + 1 /\ i \in a .. n
        <3>1. off[i] <= off[n] /\ off[i] \in Int /\ off[n] \in Int
            BY SMT, <1>0, <1>1, <2>2
        <3>2. off2[i] = off[i] /\ off2[k] = off[n] + l
            BY <1>5, <2>2
        <3>3. \A x, y \in Int : x <= y => x <= y + l
            BY SMT, <1>0
        <3> QED BY <3>1, <3>2, <3>3
    <2>3. CASE k = n + 1 /\ i = n + 1
        <3>1. off2[k] \in Int
            BY SMT, <1>0, <1>5, <2>3
        <3> QED BY SMT, <3>1, <2>3
    <2> QED BY SMT, <2>1, <2>2, <2>3, <1>0
<1>8. Len(t) = off2[Len(r)]
    BY <1>1, <1>3, <1>4, <1>5
<1>9. ASSUME NEW i \in a + 1 .. n + 1
      PROVE  /\ off2[i] = off2[i - 1] + len[r[i]]
             /\ \A j \in 1 .. len[r[i]] :
                  off2[i - 1] + j <= Len(t) => t[off2[i - 1] + j] = <<r[i], j>>
    <2>1. CASE i \in a + 1 .. n
        <3>1. i - 1 \in a .. n /\ i \in a .. n /\ i \in 1 .. n
            BY SMT, <2>1, <1>0
        <3>2. r[i] = q[i] /\ off2[i] = off[i] /\ off2[i - 1] = off[i - 1]
            BY <3>1, <1>3, <1>5
        <3>3. off[i] = off[i - 1] + len[q[i]]
            BY <2>1, <1>1
        <3>4. ASSUME NEW j \in 1 .. len[q[i]]
              PROVE  t[off[i - 1] + j] = <<q[i], j>>
            <4>2. len[q[i]] \in Nat
                BY <3>1, <1>2
            <4>3. off[a] <= off[i - 1] /\ off[i] <= off[n]
                <5>1. a \in a .. n /\ n \in a .. n /\ a <= i - 1 /\ i <= n
                    <6>1. a <= n
                        BY <1>1
                    <6> QED BY SMT, <2>1, <1>0, <6>1
                <5>2. \A x \in a .. n, y \in a .. n : x <= y => off[x] <= off[y]
                    BY <1>1
                <5> QED BY <3>1, <5>1, <5>2
            <4>4. off[i - 1] \in Int /\ off[i] \in Int /\ off[n] \in Int
                BY SMT, <3>1, <1>0, <1>1
            <4>4a. off[a] = 0 /\ off[n] = Len(s)
                BY <1>1
            <4>5. off[i - 1] + j \in 1 .. Len(s)
                <5>1. \A x, y, z \in Int, w \in Nat : \A k \in 1 .. w :
                        0 <= x /\ y = x + w /\ y <= z => x + k \in 1 .. z
                    BY SMT
                <5>2. 0 <= off[i - 1] /\ off[i] <= Len(s) /\ Len(s) \in Int
                    BY <4>3, <4>4a, <1>0
                <5> QED BY <5>1, <5>2, <4>2, <4>4, <3>3
            <4>6. off[i - 1] + j <= Len(s)
                BY SMT, <4>5, <1>0
            <4>7. s[off[i - 1] + j] = <<q[i], j>>
                BY <4>6, <1>1, <2>1
            <4> QED BY <4>5, <4>7, <1>4
        <3> QED BY <3>2, <3>3, <3>4
    <2>2. CASE i = n + 1
        <3>1. i - 1 = n /\ r[i] = m
            BY SMT, <2>2, <1>0, <1>3
        <3>2. off2[i - 1] = Len(s) /\ off2[i] = Len(s) + l
            BY SMT, <2>2, <3>1, <1>0, <1>1, <1>5
        <3>3. off2[i] = off2[i - 1] + len[r[i]]
            BY <3>1, <3>2 DEF l
        <3>4. ASSUME NEW j \in 1 .. len[r[i]] PROVE t[off2[i - 1] + j] = <<r[i], j>>
            <4>1. j \in 1 .. l
                BY <3>1 DEF l
            <4>2. t[Len(s) + j] = <<m, j>>
                BY <4>1, <1>4
            <4> QED BY <4>2, <3>1, <3>2
        <3> QED BY <3>3, <3>4
    <2>3. i \in a + 1 .. n \/ i = n + 1
        BY SMT, <1>0
    <2> QED BY <2>1, <2>2, <2>3
<1>10. Laid(t, r, a, TRUE)
    <2>1. Len(t) <= off2[Len(r)]
        BY SMT, <1>8, <1>0, <1>4
    <2>2. \A i \in a + 1 .. Len(r) :
            /\ off2[i] = off2[i - 1] + len[r[i]]
            /\ \A j \in 1 .. len[r[i]] :
                 off2[i - 1] + j <= Len(t) => t[off2[i - 1] + j] = <<r[i], j>>
        BY <1>9, <1>3
    <2> QED BY <1>5, <1>6, <1>7, <1>8, <2>1, <2>2 DEF Laid
<1> QED BY <1>10 DEF t, r
\* A layout goes on when another message is sent, although its cells are not
\* there.
LEMMA LaidLonger ==
    ASSUME NEW s \in Seq(Cell), NEW q \in Seq(Msgs), NEW a \in Nat, NEW m \in Msgs,
           NEW whole, Laid(s, q, a, whole)
    PROVE  Laid(s, Append(q, m), a, FALSE)
<1> DEFINE n == Len(q)
           r == Append(q, m)
           l == len[m]
<1>0. n \in Nat /\ Len(s) \in Nat /\ l \in Nat \ {0}
    BY SMT, CellsType
<1>1. PICK off \in [Nat -> Int] :
        /\ a <= n /\ off[a] = 0
        /\ \A i \in a .. n, k \in a .. n : i <= k => off[i] <= off[k]
        /\ Len(s) <= off[n]
        /\ \A i \in a + 1 .. n :
             /\ off[i] = off[i - 1] + len[q[i]]
             /\ \A j \in 1 .. len[q[i]] :
                  off[i - 1] + j <= Len(s) => s[off[i - 1] + j] = <<q[i], j>>
    BY DEF Laid
<1>3. /\ Len(r) = n + 1 /\ r[n + 1] = m
      /\ \A i \in 1 .. n : r[i] = q[i]
    BY SMT
<1> HIDE DEF r, n, l
<1> DEFINE off2 == [off EXCEPT ![n + 1] = off[n] + l]
<1>5. /\ off2 \in [Nat -> Int]
      /\ \A i \in a .. n : off2[i] = off[i]
      /\ off2[n + 1] = off[n] + l
    BY SMT, <1>0, <1>1
<1> HIDE DEF off2
<1>6. a <= Len(r) /\ off2[a] = 0
    BY SMT, <1>0, <1>1, <1>3, <1>5
<1>7. \A i \in a .. Len(r), k \in a .. Len(r) : i <= k => off2[i] <= off2[k]
    <2> SUFFICES ASSUME NEW i \in a .. n + 1, NEW k \in a .. n + 1, i <= k
                 PROVE  off2[i] <= off2[k]
        BY <1>3
    <2>1. CASE k \in a .. n
        <3>1. i \in a .. n
            BY SMT, <2>1, <1>0
        <3>2. off2[i] = off[i] /\ off2[k] = off[k] /\ off[i] <= off[k]
            BY <3>1, <2>1, <1>1, <1>5
        <3> QED BY <3>2
    <2>2. CASE k = n + 1 /\ i \in a .. n
        <3>1. off[i] <= off[n] /\ off[i] \in Int /\ off[n] \in Int
            BY SMT, <1>0, <1>1, <2>2
        <3>2. off2[i] = off[i] /\ off2[k] = off[n] + l
            BY <1>5, <2>2
        <3>3. \A x, y \in Int : x <= y => x <= y + l
            BY SMT, <1>0
        <3> QED BY <3>1, <3>2, <3>3
    <2>3. CASE k = n + 1 /\ i = n + 1
        <3>1. off2[k] \in Int
            BY SMT, <1>0, <1>5, <2>3
        <3> QED BY SMT, <3>1, <2>3
    <2> QED BY SMT, <2>1, <2>2, <2>3, <1>0
<1>8. Len(s) <= off2[Len(r)]
    <2>1. off[n] \in Int /\ Len(s) <= off[n] /\ off2[Len(r)] = off[n] + l
        BY <1>0, <1>1, <1>3, <1>5
    <2> QED BY SMT, <2>1, <1>0
<1>9. ASSUME NEW i \in a + 1 .. n + 1
      PROVE  /\ off2[i] = off2[i - 1] + len[r[i]]
             /\ \A j \in 1 .. len[r[i]] :
                  off2[i - 1] + j <= Len(s) => s[off2[i - 1] + j] = <<r[i], j>>
    <2>1. CASE i \in a + 1 .. n
        <3>1. i - 1 \in a .. n /\ i \in a .. n /\ i \in 1 .. n
            BY SMT, <2>1, <1>0
        <3>2. r[i] = q[i] /\ off2[i] = off[i] /\ off2[i - 1] = off[i - 1]
            BY <3>1, <1>3, <1>5
        <3> QED BY <3>2, <2>1, <1>1
    <2>2. CASE i = n + 1
        <3>1. i - 1 = n /\ r[i] = m
            BY SMT, <2>2, <1>0, <1>3
        <3>2. off2[i - 1] = off[n] /\ off2[i] = off[n] + l
            BY SMT, <2>2, <3>1, <1>0, <1>1, <1>5
        <3>3. off2[i] = off2[i - 1] + len[r[i]]
            BY <3>1, <3>2 DEF l
        <3>4. ASSUME NEW j \in 1 .. l PROVE ~(off2[i - 1] + j <= Len(s))
            <4>1. off[n] \in Int /\ Len(s) <= off[n]
                BY <1>0, <1>1
            <4>2. \A x \in Int, y \in Nat : y <= x => ~(x + j <= y)
                BY SMT, <1>0
            <4> QED BY <4>1, <4>2, <3>2, <1>0
        <3> QED BY <3>1, <3>3, <3>4 DEF l
    <2>3. i \in a + 1 .. n \/ i = n + 1
        BY SMT, <1>0
    <2> QED BY <2>1, <2>2, <2>3
<1>10. Laid(s, r, a, FALSE)
    <2>2. \A i \in a + 1 .. Len(r) :
            /\ off2[i] = off2[i - 1] + len[r[i]]
            /\ \A j \in 1 .. len[r[i]] :
                 off2[i - 1] + j <= Len(s) => s[off2[i - 1] + j] = <<r[i], j>>
        BY <1>9, <1>3
    <2> QED BY <1>5, <1>6, <1>7, <1>8, <2>2 DEF Laid
<1> QED BY <1>10 DEF r

\* A part of a layout from its beginning is one.
LEMMA LaidPrefix ==
    ASSUME NEW s \in Seq(Cell), NEW t \in Seq(Cell), NEW q \in Seq(Msgs), NEW a \in Nat,
           NEW whole, Laid(s \o t, q, a, whole)
    PROVE  Laid(s, q, a, FALSE)
<1> DEFINE u == s \o t
<1>1. Len(u) = Len(s) + Len(t) /\ \A j \in 1 .. Len(s) : u[j] = s[j]
    BY Joined
<1>2. Len(s) \in Nat /\ Len(t) \in Nat /\ Len(q) \in Nat
    BY SMT
<1>3. PICK off \in [Nat -> Int] :
        /\ a <= Len(q) /\ off[a] = 0
        /\ \A i \in a .. Len(q), k \in a .. Len(q) : i <= k => off[i] <= off[k]
        /\ Len(u) <= off[Len(q)]
        /\ \A i \in a + 1 .. Len(q) :
             /\ off[i] = off[i - 1] + len[q[i]]
             /\ \A j \in 1 .. len[q[i]] :
                  off[i - 1] + j <= Len(u) => u[off[i - 1] + j] = <<q[i], j>>
    BY DEF Laid
<1> HIDE DEF u
<1>4. Len(s) <= off[Len(q)]
    BY SMT, <1>1, <1>2, <1>3
<1>5. ASSUME NEW i \in a + 1 .. Len(q), NEW j \in 1 .. len[q[i]], off[i - 1] + j <= Len(s)
      PROVE  s[off[i - 1] + j] = <<q[i], j>>
    <2>1. i - 1 \in a .. Len(q) /\ a \in a .. Len(q) /\ a <= i - 1
        BY <1>2, Before
    <2>2. off[a] <= off[i - 1] /\ off[a] = 0 /\ off[i - 1] \in Int
        <3>1. i - 1 \in Nat
            BY SMT, <2>1
        <3> QED BY <1>3, <2>1, <3>1
    <2>3. q[i] \in Msgs
        BY SMT, <1>2, ElementOfSeq
    <2>4. len[q[i]] \in Nat
        BY <2>3, CellsType
    <2>5. j \in Nat \ {0}
        BY SMT, <2>4
    <2>6. off[i - 1] + j \in 1 .. Len(s) /\ off[i - 1] + j <= Len(u)
        <3> DEFINE x == off[i - 1]
        <3>1. x \in Int /\ 0 <= x /\ x + j <= Len(s)
            BY <2>2, <1>5
        <3> HIDE DEF x
        <3>2. x + j \in 1 .. Len(s) /\ x + j <= Len(u)
            BY SMT, <3>1, <2>5, <1>1, <1>2
        <3> QED BY <3>2 DEF x
    <2> QED BY <2>6, <1>1, <1>3
<1> QED BY <1>3, <1>4, <1>5 DEF Laid
\* A layout begins with the first cells of the next message.
LEMMA LaidHead ==
    ASSUME NEW s \in Seq(Cell), NEW q \in Seq(Msgs), NEW a \in Nat,
           NEW whole, Laid(s, q, a, whole), s # <<>>
    PROVE  /\ a + 1 \in 1 .. Len(q) /\ q[a + 1] \in Msgs
           /\ s[1] = <<q[a + 1], 1>>
           /\ \A j \in 1 .. len[q[a + 1]] : j <= Len(s) => s[j] = <<q[a + 1], j>>
<1>1. Len(q) \in Nat /\ Len(s) \in Nat \ {0}
    BY SMT, EmptySeq
<1>2. PICK off \in [Nat -> Int] :
        /\ a <= Len(q) /\ off[a] = 0
        /\ Len(s) <= off[Len(q)]
        /\ \A i \in a + 1 .. Len(q) :
             /\ off[i] = off[i - 1] + len[q[i]]
             /\ \A j \in 1 .. len[q[i]] :
                  off[i - 1] + j <= Len(s) => s[off[i - 1] + j] = <<q[i], j>>
    BY DEF Laid
<1>3. a # Len(q)
    BY SMT, <1>1, <1>2
<1>4. a + 1 \in 1 .. Len(q) /\ a + 1 \in a + 1 .. Len(q) /\ (a + 1) - 1 = a
    BY SMT, <1>1, <1>2, <1>3
<1>5. q[a + 1] \in Msgs
    BY <1>4, ElementOfSeq
<1>6. len[q[a + 1]] \in Nat \ {0}
    BY <1>5, CellsType
<1>7. ASSUME NEW j \in 1 .. len[q[a + 1]], j <= Len(s)
      PROVE  s[j] = <<q[a + 1], j>>
    <2>1. off[a] + j = j
        BY SMT, <1>2, <1>6
    <2>2. off[(a + 1) - 1] + j = j
        BY <2>1, <1>4
    <2>3. off[(a + 1) - 1] + j <= Len(s) => s[off[(a + 1) - 1] + j] = <<q[a + 1], j>>
        BY <1>2, <1>4
    <2> QED BY <2>2, <2>3, <1>7
<1>8. 1 \in 1 .. len[q[a + 1]] /\ 1 <= Len(s)
    BY SMT, <1>1, <1>6
<1>9. s[1] = <<q[a + 1], 1>>
    BY <1>7, <1>8
<1> QED BY <1>4, <1>5, <1>7, <1>9

\* What is left of a layout when its first message has been cut off is one.
LEMMA LaidCut ==
    ASSUME NEW s \in Seq(Cell), NEW q \in Seq(Msgs), NEW a \in Nat,
           NEW whole, Laid(s, q, a, whole), s # <<>>, len[q[a + 1]] <= Len(s)
    PROVE  Laid(SubSeq(s, len[q[a + 1]] + 1, Len(s)), q, a + 1, whole)
<1> DEFINE l == len[q[a + 1]]
           n == Len(q)
           t == SubSeq(s, l + 1, Len(s))
<1>1. a + 1 \in 1 .. n /\ q[a + 1] \in Msgs
    BY LaidHead
<1>2. l \in Nat \ {0} /\ n \in Nat /\ Len(s) \in Nat /\ l <= Len(s)
    BY SMT, <1>1, CellsType
<1>3. PICK off \in [Nat -> Int] :
        /\ a <= n /\ off[a] = 0
        /\ \A i \in a .. n, k \in a .. n : i <= k => off[i] <= off[k]
        /\ Len(s) <= off[n] /\ (whole => Len(s) = off[n])
        /\ \A i \in a + 1 .. n :
             /\ off[i] = off[i - 1] + len[q[i]]
             /\ \A j \in 1 .. len[q[i]] :
                  off[i - 1] + j <= Len(s) => s[off[i - 1] + j] = <<q[i], j>>
    BY DEF Laid
<1>4. /\ t \in Seq(Cell) /\ Len(t) = Len(s) - l
      /\ \A j \in 1 .. Len(s) - l : t[j] = s[l + j]
    <2> HIDE DEF l
    <2>1. l \in 0 .. Len(s)
        BY SMT, <1>2
    <2> QED BY <2>1, Rest
<1>5. off[a + 1] = l
    <2>1. a + 1 \in a + 1 .. n /\ (a + 1) - 1 = a
        BY SMT, <1>1, <1>2
    <2>2. off[a + 1] = off[a] + l
        BY <2>1, <1>3
    <2> QED BY SMT, <2>2, <1>3, <1>2
<1> DEFINE off2 == [i \in Nat |-> off[i] - l]
<1> HIDE DEF l, n, t
<1>6. off2 \in [Nat -> Int] /\ \A i \in Nat : off2[i] = off[i] - l
    BY SMT, <1>2
<1> HIDE DEF off2
<1>7. a + 1 <= n /\ off2[a + 1] = 0
    BY SMT, <1>1, <1>2, <1>5, <1>6
<1>8. \A i \in a + 1 .. n, k \in a + 1 .. n : i <= k => off2[i] <= off2[k]
    <2> SUFFICES ASSUME NEW i \in a + 1 .. n, NEW k \in a + 1 .. n, i <= k
                 PROVE  off2[i] <= off2[k]
        OBVIOUS
    <2>1. i \in a .. n /\ k \in a .. n /\ i \in Nat /\ k \in Nat
        BY SMT, <1>2
    <2>2. off[i] <= off[k] /\ off[i] \in Int /\ off[k] \in Int
        BY <2>1, <1>3
    <2>3. off2[i] = off[i] - l /\ off2[k] = off[k] - l
        BY <2>1, <1>6
    <2>4. \A x, y \in Int : x <= y => x - l <= y - l
        BY SMT, <1>2
    <2> QED BY <2>2, <2>3, <2>4
<1>9. Len(t) <= off2[n] /\ (whole => Len(t) = off2[n])
    <2>1. off2[n] = off[n] - l /\ off[n] \in Int
        BY <1>2, <1>3, <1>6
    <2>2. Len(t) <= off2[n]
        BY SMT, <2>1, <1>2, <1>3, <1>4
    <2>3. Len(s) = off[n] => Len(t) = off2[n]
        BY <2>1, <1>2, <1>4
    <2> QED BY <2>2, <2>3, <1>3
<1>10. ASSUME NEW i \in a + 2 .. n
       PROVE  /\ off2[i] = off2[i - 1] + len[q[i]]
              /\ \A j \in 1 .. len[q[i]] :
                   off2[i - 1] + j <= Len(t) => t[off2[i - 1] + j] = <<q[i], j>>
    <2>1. /\ i \in a + 1 .. n /\ i - 1 \in a + 1 .. n /\ i - 1 \in Nat /\ i \in Nat
          /\ i \in 1 .. n
        BY SMT, <1>2
    <2>2. len[q[i]] \in Nat
        <3>1. q[i] \in Msgs
            BY <2>1, ElementOfSeq DEF n
        <3> QED BY <3>1, CellsType
    <2>3. /\ off2[i] = off[i] - l /\ off2[i - 1] = off[i - 1] - l
          /\ off[i] \in Int /\ off[i - 1] \in Int
        BY <2>1, <1>3, <1>6
    <2>4. off[i] = off[i - 1] + len[q[i]]
        BY <2>1, <1>3
    <2>5. l <= off[i - 1]
        <3>1. a + 1 \in a .. n /\ i - 1 \in a .. n /\ a + 1 <= i - 1
            BY SMT, <2>1, <1>2
        <3>2. off[a + 1] <= off[i - 1]
            BY <3>1, <1>3
        <3> QED BY <3>2, <1>5
    <2>6. ASSUME NEW j \in 1 .. len[q[i]], off2[i - 1] + j <= Len(t)
          PROVE  t[off2[i - 1] + j] = <<q[i], j>>
        <3> DEFINE x == off[i - 1]
                   y == off2[i - 1]
        <3>1. x \in Int /\ l <= x /\ y = x - l /\ y + j <= Len(t) /\ j \in Nat \ {0}
            BY SMT, <2>2, <2>3, <2>5, <2>6
        <3> HIDE DEF x, y
        <3>2. y + j \in 1 .. Len(s) - l /\ l + (y + j) = x + j /\ x + j <= Len(s)
            <4>1. Len(t) = Len(s) - l
                BY <1>4
            <4>2. y \in Int /\ 0 <= y /\ y + j <= Len(s) - l
                BY SMT, <3>1, <4>1, <1>2
            <4> QED BY SMT, <4>2, <3>1, <1>2
        <3>3. s[x + j] = <<q[i], j>>
            BY <3>2, <2>1, <1>3 DEF x
        <3>4. t[y + j] = s[l + (y + j)]
            BY <3>2, <1>4
        <3> QED BY <3>2, <3>3, <3>4 DEF y
    <2>7. off2[i] = off2[i - 1] + len[q[i]]
        <3>1. \A x, y \in Int, w \in Nat : x = y + w => x - l = (y - l) + w
            BY SMT, <1>2
        <3>2. off[i] - l = (off[i - 1] - l) + len[q[i]]
            BY <2>2, <2>3, <2>4, <3>1
        <3> QED BY <2>3, <3>2
    <2> QED BY <2>6, <2>7
<1>11. Laid(t, q, a + 1, whole)
    <2>1. \A i \in (a + 1) + 1 .. n :
            /\ off2[i] = off2[i - 1] + len[q[i]]
            /\ \A j \in 1 .. len[q[i]] :
                 off2[i - 1] + j <= Len(t) => t[off2[i - 1] + j] = <<q[i], j>>
        <3>1. (a + 1) + 1 = a + 2
            BY SMT
        <3> QED BY <3>1, <1>10
    <2> QED BY <1>6, <1>7, <1>8, <1>9, <2>1 DEF Laid, n
<1> QED BY <1>11 DEF t, l
-----------------------------------------------------------------------------
(* What is under way in one direction.                                     *)

Cat(s, t) == s \o t

\* The cells between one end's g_queueWork and the other end's senders: the
\* cache, the piece a read thread holds, the wire, and what is unsent.  A lost
\* connection has only the first two.
Whole(c, h, w, u) == Cat(c, Cat(h, Cat(w, u)))
Flow(alive, c, h, w, u) == IF alive THEN Whole(c, h, w, u) ELSE Cat(c, h)

\* Concatenation of cells.
LEMMA CatType == \A s, t \in Seq(Cell) : Cat(s, t) \in Seq(Cell)
BY ConcatProperties DEF Cat

\* It is associative.
LEMMA CatAssociative == \A s, t, u \in Seq(Cell) : Cat(Cat(s, t), u) = Cat(s, Cat(t, u))
BY SMT, ConcatAssociative DEF Cat

\* No cells make no difference.
LEMMA CatNone == \A s \in Seq(Cell) : Cat(<<>>, s) = s /\ Cat(s, <<>>) = s
BY ConcatEmptySeq DEF Cat

\* Cells, and where they are does not matter.
LEMMA WholeMoves ==
    ASSUME NEW c \in Seq(Cell), NEW h \in Seq(Cell), NEW w \in Seq(Cell), NEW u \in Seq(Cell)
    PROVE  /\ \A p \in Seq(Cell) :
                /\ Whole(c, h, Cat(w, p), u) = Whole(c, h, w, Cat(p, u))
                /\ Whole(c, h, w, Cat(u, p)) = Cat(Whole(c, h, w, u), p)
           /\ Whole(c, h, w, u) = Whole(c, <<>>, Cat(h, w), u)
           /\ Whole(Cat(c, h), <<>>, w, u) = Whole(c, h, w, u)
           /\ Whole(c, h, w, u) = Cat(Cat(c, h), Cat(w, u))
<1> DEFINE wu == Cat(w, u)
           hwu == Cat(h, wu)
<1>1. /\ wu \in Seq(Cell) /\ hwu \in Seq(Cell) /\ Cat(c, h) \in Seq(Cell)
      /\ Cat(c, hwu) \in Seq(Cell)
    BY CatType
<1>3. ASSUME NEW p \in Seq(Cell) PROVE Cat(Cat(w, p), u) = Cat(w, Cat(p, u))
    <2> HIDE DEF wu, hwu
    <2>1. \A y \in Seq(Cell) : Cat(Cat(w, p), y) = Cat(w, Cat(p, y))
        BY CatAssociative
    <2> QED BY <2>1
<1>4. Cat(<<>>, Cat(Cat(h, w), u)) = hwu
    <2>1. Cat(Cat(h, w), u) = hwu
        BY CatAssociative
    <2>2. Cat(<<>>, hwu) = hwu
        BY <1>1, CatNone
    <2> QED BY <2>1, <2>2
<1>6. Cat(Cat(c, h), Cat(<<>>, wu)) = Cat(c, hwu)
    <2>1. Cat(<<>>, wu) = wu
        BY <1>1, CatNone
    <2>2. Cat(Cat(c, h), wu) = Cat(c, hwu)
        BY SMT, <1>1, CatAssociative
    <2> QED BY <2>1, <2>2
<1>8. ASSUME NEW p \in Seq(Cell)
      PROVE  Cat(c, Cat(h, Cat(w, Cat(u, p)))) = Cat(Cat(c, hwu), p)
    <2>1. Cat(wu, p) = Cat(w, Cat(u, p))
        BY CatAssociative
    <2>2. Cat(hwu, p) = Cat(h, Cat(wu, p))
        BY SMT, <1>1, CatAssociative
    <2>3. Cat(Cat(c, hwu), p) = Cat(c, Cat(hwu, p))
        BY SMT, <1>1, CatAssociative
    <2> QED BY <2>1, <2>2, <2>3
<1>9. Cat(c, hwu) = Cat(Cat(c, h), wu)
    BY SMT, <1>1, CatAssociative
<1>10. Whole(Cat(c, h), <<>>, w, u) = Whole(c, h, w, u)
    BY <1>6 DEF Whole
<1>11. \A p \in Seq(Cell) : Whole(c, h, Cat(w, p), u) = Whole(c, h, w, Cat(p, u))
    BY <1>3 DEF Whole
<1>12. Whole(c, h, w, u) = Whole(c, <<>>, Cat(h, w), u)
    BY <1>4 DEF Whole
<1>13. \A p \in Seq(Cell) : Whole(c, h, w, Cat(u, p)) = Cat(Whole(c, h, w, u), p)
    BY <1>8 DEF Whole
<1>14. Whole(c, h, w, u) = Cat(Cat(c, h), Cat(w, u))
    BY <1>9 DEF Whole
<1> QED BY <1>10, <1>11, <1>12, <1>13, <1>14

\* A write() moves cells from _sendCache to the wire.
LEMMA WholeWrite ==
    \A c, h, w, u, p \in Seq(Cell) : Whole(c, h, Cat(w, p), u) = Whole(c, h, w, Cat(p, u))
BY SMT, WholeMoves

\* A message appended to _sendCache is the last on its way.
LEMMA WholeSend ==
    \A c, h, w, u, p \in Seq(Cell) : Whole(c, h, w, Cat(u, p)) = Cat(Whole(c, h, w, u), p)
BY SMT, WholeMoves

\* A read() moves cells from the wire to the thread.
LEMMA WholeRead ==
    \A c, h, w, u \in Seq(Cell) : Whole(c, h, w, u) = Whole(c, <<>>, Cat(h, w), u)
BY SMT, WholeMoves

\* AddDataToReadBuf moves them to the cache.
LEMMA WholeAdd ==
    \A c, h, w, u \in Seq(Cell) : Whole(Cat(c, h), <<>>, w, u) = Whole(c, h, w, u)
BY SMT, WholeMoves

\* What has been read comes before what has not.
LEMMA WholeParts ==
    \A c, h, w, u \in Seq(Cell) : Whole(c, h, w, u) = Cat(Cat(c, h), Cat(w, u))
BY SMT, WholeMoves

\* Cutting off the beginning of a sequence cuts off that of a longer one.
LEMMA CutConcat ==
    ASSUME NEW s \in Seq(Cell), NEW t \in Seq(Cell), NEW l \in 0 .. Len(s)
    PROVE  Cat(SubSeq(s, l + 1, Len(s)), t) = SubSeq(Cat(s, t), l + 1, Len(Cat(s, t)))
<1> DEFINE x == SubSeq(s, l + 1, Len(s))
           y == s \o t
           z == SubSeq(y, l + 1, Len(y))
<1>1. Len(s) \in Nat /\ Len(t) \in Nat
    BY SMT
<1>2. /\ y \in Seq(Cell) /\ Len(y) = Len(s) + Len(t)
      /\ \A j \in 1 .. Len(s) : y[j] = s[j]
      /\ \A j \in 1 .. Len(t) : y[Len(s) + j] = t[j]
    BY SMT, Joined
<1>3. /\ x \in Seq(Cell) /\ Len(x) = Len(s) - l
      /\ \A j \in 1 .. Len(s) - l : x[j] = s[l + j]
    BY Rest
<1>4. l \in 0 .. Len(y)
    BY SMT, <1>1, <1>2
<1> HIDE DEF y, x
<1>5. /\ z \in Seq(Cell) /\ Len(z) = Len(y) - l
      /\ \A j \in 1 .. Len(y) - l : z[j] = y[l + j]
    BY <1>2, <1>4, Rest
<1> DEFINE v == x \o t
<1>5a. x \in Seq(Cell)
    BY <1>3
<1>6. /\ v \in Seq(Cell) /\ Len(v) = Len(x) + Len(t)
      /\ \A j \in 1 .. Len(x) : v[j] = x[j]
      /\ \A j \in 1 .. Len(t) : v[Len(x) + j] = t[j]
    BY SMT, <1>5a, Joined
<1> HIDE DEF z, v
<1>7. Len(v) = Len(z) /\ Len(v) \in Nat
    BY SMT, <1>1, <1>2, <1>3, <1>5, <1>6
<1>8. ASSUME NEW i \in 1 .. Len(v)
      PROVE  v[i] = z[i]
    <2>0. i \in 1 .. Len(y) - l /\ z[i] = y[l + i]
        BY <1>5, <1>7
    <2>1. CASE i \in 1 .. Len(x)
        <3>1. i \in 1 .. Len(s) - l /\ l + i \in 1 .. Len(s)
            BY SMT, <2>1, <1>1, <1>3
        <3> QED BY <3>1, <2>0, <2>1, <1>2, <1>3, <1>6
    <2>2. CASE i \notin 1 .. Len(x)
        <3> DEFINE k == i - Len(x)
        <3>1. k \in 1 .. Len(t) /\ i = Len(x) + k /\ l + i = Len(s) + k
            BY SMT, <2>2, <1>1, <1>3, <1>6
        <3> HIDE DEF k
        <3>2. v[Len(x) + k] = t[k] /\ y[Len(s) + k] = t[k]
            BY <3>1, <1>2, <1>6
        <3> QED BY <3>1, <3>2, <2>0
    <2> QED BY <2>1, <2>2
<1>9. v = z
    BY <1>5, <1>6, <1>7, <1>8, SeqEqual
<1> QED BY <1>9 DEF v, z, x, y, Cat

\* What comes behind the cache.
Behind(alive, h, w, u) == IF alive THEN Cat(h, Cat(w, u)) ELSE h

\* The cache comes first.
LEMMA FlowBehind ==
    ASSUME NEW alive, NEW c, NEW h, NEW w, NEW u
    PROVE  Flow(alive, c, h, w, u) = Cat(c, Behind(alive, h, w, u))
BY DEF Flow, Whole, Behind

\* A sequence begins as a longer one.
LEMMA CatPrefix ==
    ASSUME NEW c \in Seq(Cell), NEW t \in Seq(Cell)
    PROVE  Len(c) <= Len(Cat(c, t)) /\ \A j \in 1 .. Len(c) : Cat(c, t)[j] = c[j]
<1> DEFINE ct == Cat(c, t)
<1>1. Len(ct) = Len(c) + Len(t) /\ \A j \in 1 .. Len(c) : ct[j] = c[j]
    BY Joined DEF Cat
<1> HIDE DEF ct
<1>2. Len(c) <= Len(ct)
    BY SMT, <1>1
<1> QED BY <1>1, <1>2 DEF ct

-----------------------------------------------------------------------------
(* The invariant.                                                          *)

WriterState == [at : {"rest", "busy", "lock", "send", "pop"}, buff : Seq(Cell), n : Nat]
ReaderState == [at : {"rest", "busy", "read", "add", "cut"}, buff : Seq(Cell), n : Nat]

Writes(t) == t.at \in {"send", "pop"}
Reads(t) == t.at \in {"read", "add", "cut"}

Types ==
    /\ up \in BOOLEAN /\ buffer \subseteq Ends /\ interest \subseteq Ends
    /\ sendCache \in [Ends -> Seq(Cell)] /\ cache \in [Ends -> Seq(Cell)]
    /\ wire \in [Ends -> Seq(Cell)]
    /\ tosend \in [Ends -> SUBSET Msgs] /\ queueWork \in [Ends -> SUBSET Msgs]
    /\ queueRead \in [Ends -> Nat] /\ fdMutex \in [Ends -> SUBSET Writers]
    /\ writer \in [Ends -> [Writers -> WriterState]]
    /\ reader \in [Ends -> [Readers -> ReaderState]]
    /\ pushed \in [Ends -> Seq(Msgs)] /\ arrived \in [Ends -> Seq(Msgs)]

\* The write threads of one end: the fd's mutex has one owner, which has
\* written no more than it has copied; what it has copied is still at the
\* beginning of _sendCache unless the connection was lost.
OneWriter(alive, owners, threads, c) ==
    /\ \A w \in Writers : Writes(threads[w]) =>
         owners = {w} /\ threads[w].n <= Len(threads[w].buff)
    /\ \A w \in owners : Writes(threads[w])
    /\ alive => \A w \in Writers : Writes(threads[w]) =>
         /\ Len(threads[w].buff) <= Len(c)
         /\ \A j \in 1 .. Len(threads[w].buff) : threads[w].buff[j] = c[j]

\* The fd of one end is in the epoll set, or a request for it is in
\* g_queueRead, or one read thread serves it.
OneReader(in, requests, threads) ==
    /\ \A r, q \in Readers : Reads(threads[r]) /\ Reads(threads[q]) => r = q
    /\ in => requests = 0 /\ \A r \in Readers : ~Reads(threads[r])
    /\ requests # 0 => requests = 1 /\ \A r \in Readers : ~Reads(threads[r])

\* A buffer is erased only after the connection was lost, with all on the wire.
Lost ==
    /\ \A e \in Ends : e \notin buffer => ~up /\ cache[e] = <<>>
    /\ ~up => \A e \in Ends : wire[e] = <<>>

\* The piece that is not in the cache yet.
Held(threads) ==
    LET R == {r \in Readers : threads[r].at = "add"}
    IN  IF R = {} THEN <<>> ELSE threads[CHOOSE r \in R : TRUE].buff

\* What is in _sendCache without what has been written.
Unsent(owners, threads, c) ==
    IF owners = {} THEN c
    ELSE SubSeq(c, threads[CHOOSE w \in owners : TRUE].n + 1, Len(c))

Way(e) ==
    Flow(up, cache[Other(e)], Held(reader[Other(e)]), wire[e],
         Unsent(fdMutex[e], writer[e], sendCache[e]))

\* Whatever has been sent and has not arrived is on its way, in order.
Carried(e) ==
    Other(e) \in buffer => Laid(Way(e), pushed[e], Len(arrived[e]), up)

IInv ==
    /\ Types /\ Lost
    /\ \A e \in Ends : OneWriter(up, fdMutex[e], writer[e], sendCache[e])
    /\ \A e \in Ends : OneReader(e \in interest, queueRead[e], reader[e])
    /\ \A e \in Ends : Carried(e)

-----------------------------------------------------------------------------
(* The threads of one end.                                                 *)

\* Without a read thread that holds one there is no piece.
LEMMA HeldNone ==
    ASSUME NEW threads, \A r \in Readers : threads[r].at # "add"
    PROVE  Held(threads) = <<>>
BY DEF Held

\* Otherwise there is one.
LEMMA HeldOne ==
    ASSUME NEW threads, NEW r \in Readers, threads[r].at = "add",
           \A q \in Readers : threads[q].at = "add" => q = r
    PROVE  Held(threads) = threads[r].buff
<1> DEFINE R == {q \in Readers : threads[q].at = "add"}
<1>1. R # {} /\ \A q \in R : q = r
    OBVIOUS
<1>2. (CHOOSE q \in R : TRUE) \in R
    BY <1>1
<1> QED BY <1>1, <1>2 DEF Held

\* It is a sequence of cells.
LEMMA HeldType ==
    ASSUME NEW threads \in [Readers -> ReaderState]
    PROVE  Held(threads) \in Seq(Cell)
<1> DEFINE R == {q \in Readers : threads[q].at = "add"}
<1>1. CASE R = {}
    BY SMT, <1>1 DEF Held
<1>2. CASE R # {}
    <2>1. (CHOOSE q \in R : TRUE) \in Readers
        BY <1>2
    <2>2. \A q \in Readers : threads[q].buff \in Seq(Cell)
        BY DEF ReaderState
    <2> QED BY <1>2, <2>1, <2>2 DEF Held
<1> QED BY <1>1, <1>2

\* While nobody owns the mutex all is unsent.
LEMMA UnsentAll ==
    ASSUME NEW threads, NEW c
    PROVE  Unsent({}, threads, c) = c
BY DEF Unsent

\* What the owner of the mutex has written is not.
LEMMA UnsentRest ==
    ASSUME NEW w, NEW threads, NEW c
    PROVE  Unsent({w}, threads, c) = SubSeq(c, threads[w].n + 1, Len(c))
<1>1. (CHOOSE x \in {w} : TRUE) = w
    OBVIOUS
<1>2. {w} # {}
    OBVIOUS
<1> QED BY <1>1, <1>2 DEF Unsent

\* It is a sequence of cells.
LEMMA UnsentType ==
    ASSUME NEW owners \in SUBSET Writers, NEW threads \in [Writers -> WriterState],
           NEW c \in Seq(Cell), OneWriter(TRUE, owners, threads, c)
    PROVE  Unsent(owners, threads, c) \in Seq(Cell)
<1>1. CASE owners = {}
    BY <1>1, UnsentAll
<1>2. CASE owners # {}
    <2>1. PICK w \in Writers : w \in owners
        BY <1>2
    <2>2. Writes(threads[w])
        BY <2>1 DEF OneWriter
    <2>3. /\ owners = {w} /\ threads[w].n <= Len(threads[w].buff)
          /\ Len(threads[w].buff) <= Len(c)
        BY <2>2 DEF OneWriter
    <2>4. threads[w].n \in Nat /\ threads[w].buff \in Seq(Cell)
        BY DEF WriterState
    <2>5. threads[w].n \in 0 .. Len(c)
        <3>1. Len(threads[w].buff) \in Nat /\ Len(c) \in Nat
            BY SMT, <2>4
        <3> QED BY SMT, <3>1, <2>3, <2>4
    <2>6. SubSeq(c, threads[w].n + 1, Len(c)) \in Seq(Cell)
        BY <2>5, Rest
    <2> QED BY <2>3, <2>6, UnsentRest
<1> QED BY <1>1, <1>2
-----------------------------------------------------------------------------
(* Types.                                                                  *)

\* One thread of one end changes.
LEMMA RowSet ==
    ASSUME NEW E, NEW T, NEW S, NEW f \in [E -> [T -> S]], NEW e \in E, NEW x \in T,
           NEW v \in S, NEW g, g = [f EXCEPT ![e][x] = v]
    PROVE  /\ g \in [E -> [T -> S]] /\ g[e][x] = v
           /\ \A y \in T : y # x => g[e][y] = f[e][y]
           /\ \A d \in E : d # e => g[d] = f[d]
OBVIOUS

\* What a write thread holds.
LEMMA WriterParts == \A t \in WriterState : t.n \in Nat /\ t.buff \in Seq(Cell) /\ Len(t.buff) \in Nat
<1>1. \A t \in WriterState : t.n \in Nat /\ t.buff \in Seq(Cell)
    BY DEF WriterState
<1>2. \A c \in Seq(Cell) : Len(c) \in Nat
    BY SMT
<1> QED BY <1>1, <1>2

\* Nothing is less than 0.
LEMMA ZeroLeast == \A k \in Nat : 0 <= k /\ k <= k
BY SMT

\* A thread that is starting.
LEMMA BusyIs == Busy = [at |-> "busy", buff |-> <<>>, n |-> 0]
BY SMT DEF Busy, Resting

\* A write thread's next state.
LEMMA WriterStates ==
    /\ Resting \in WriterState /\ ~Writes(Resting)
    /\ \A t \in WriterState, a \in {"rest", "lock"} :
         [t EXCEPT !.at = a] \in WriterState /\ ~Writes([t EXCEPT !.at = a])
    /\ \A c \in Seq(Cell), a \in {"send", "pop"}, k \in Nat :
         /\ [at |-> a, buff |-> c, n |-> k] \in WriterState
         /\ Writes([at |-> a, buff |-> c, n |-> k])
<1>1. Resting \in WriterState /\ ~Writes(Resting)
    BY EmptySeq DEF WriterState, Writes, Resting
<1>2. ASSUME NEW t \in WriterState, NEW a \in {"rest", "lock"}
      PROVE  [t EXCEPT !.at = a] \in WriterState /\ ~Writes([t EXCEPT !.at = a])
    BY DEF WriterState, Writes
<1>3. ASSUME NEW c \in Seq(Cell), NEW a \in {"send", "pop"}, NEW k \in Nat
      PROVE  /\ [at |-> a, buff |-> c, n |-> k] \in WriterState
             /\ Writes([at |-> a, buff |-> c, n |-> k])
    BY DEF WriterState, Writes
<1> QED BY <1>1, <1>2, <1>3

\* A read thread's.
LEMMA ReaderStates ==
    /\ Resting \in ReaderState /\ ~Reads(Resting)
    /\ \A t \in ReaderState : LET p == [t EXCEPT !.at = "read"] IN
         p \in ReaderState /\ Reads(p) /\ p.at = "read"
    /\ \A c \in Seq(Cell), a \in {"read", "add", "cut"}, k \in Nat :
         /\ [at |-> a, buff |-> c, n |-> k] \in ReaderState
         /\ Reads([at |-> a, buff |-> c, n |-> k])
<1>1. Resting \in ReaderState /\ ~Reads(Resting)
    BY EmptySeq DEF ReaderState, Reads, Resting
<1>2. ASSUME NEW t \in ReaderState, NEW p, p = [t EXCEPT !.at = "read"]
      PROVE  p \in ReaderState /\ Reads(p) /\ p.at = "read"
    BY <1>2 DEF ReaderState, Reads
<1>3. ASSUME NEW c \in Seq(Cell), NEW a \in {"read", "add", "cut"}, NEW k \in Nat
      PROVE  /\ [at |-> a, buff |-> c, n |-> k] \in ReaderState
             /\ Reads([at |-> a, buff |-> c, n |-> k])
    BY DEF ReaderState, Reads
<1> QED BY <1>1, <1>2, <1>3

\* What the write threads do to their own state.
LEMMA WriterStep ==
    ASSUME Types, NEW e \in Ends, NEW w \in Writers, WriteThread(e, w)
    PROVE  /\ writer[e][w] \in WriterState
           /\ \E t \in WriterState : writer' = [writer EXCEPT ![e][w] = t]
<1>1. writer[e][w] \in WriterState /\ sendCache[e] \in Seq(Cell)
    BY SMT DEF Types
<1>2. CASE WriteTake(e, w)
    <2> DEFINE a == IF e \in buffer THEN "lock" ELSE "rest"
               t == [writer[e][w] EXCEPT !.at = a]
    <2>1. t \in WriterState
        BY <1>1, WriterStates
    <2>2. writer' = [writer EXCEPT ![e][w] = t]
        BY <1>2 DEF WriteTake
    <2> QED BY <1>1, <2>1, <2>2
<1>3. CASE WriteCopy(e, w)
    <2>1. [at |-> "send", buff |-> sendCache[e], n |-> 0] \in WriterState
        BY <1>1, WriterStates
    <2>2. Resting \in WriterState
        BY WriterStates
    <2> QED BY <1>1, <1>3, <2>1, <2>2 DEF WriteCopy
<1>4. CASE Send(e, w)
    <2> DEFINE me == writer[e][w]
    <2>1. me.n \in Nat /\ me.buff \in Seq(Cell)
        BY <1>1 DEF WriterState
    <2>2. CASE ~up
        BY <1>1, <1>4, <2>2, WriterStates DEF Send
    <2>3. CASE up /\ writer' = [writer EXCEPT ![e][w].at = "pop"]
        <3> DEFINE t == [me EXCEPT !.at = "pop"]
        <3>1. t \in WriterState
            BY <1>1 DEF WriterState
        <3>2. writer' = [writer EXCEPT ![e][w] = t]
            BY <2>3
        <3> QED BY <1>1, <3>1, <3>2
    <2>4. CASE up /\ ~(writer' = [writer EXCEPT ![e][w].at = "pop"])
        <3> DEFINE left == Len(me.buff) - me.n
                   room == Room - Len(wire[e])
                   k == IF left < room THEN left ELSE room
                   t == [at |-> IF k = left THEN "pop" ELSE "send",
                         buff |-> me.buff, n |-> me.n + k]
        <3>1. k > 0 /\ writer' = [writer EXCEPT ![e][w] = t]
            BY <1>4, <2>4 DEF Send
        <3>2. left \in Int /\ room \in Int
            <4>1. Len(wire[e]) \in Nat /\ Room \in Nat
                BY SMT, SizeAssumption DEF Types
            <4> QED BY SMT, <2>1, <4>1
        <3>3. k \in Nat
            BY SMT, <3>1, <3>2
        <3> HIDE DEF k
        <3>4. t \in WriterState
            BY SMT, <3>3, <2>1 DEF WriterState
        <3> QED BY <1>1, <3>1, <3>4
    <2>5. up \in BOOLEAN
        BY DEF Types
    <2> QED BY <2>2, <2>3, <2>4, <2>5
<1>5. CASE PopNWriteBufferQueue(e, w)
    BY <1>1, <1>5, WriterStates DEF PopNWriteBufferQueue
<1> QED BY <1>2, <1>3, <1>4, <1>5 DEF WriteThread
\* The number of cells of one read().
Piece(e) == IF Len(wire[Other(e)]) < MaxLine THEN Len(wire[Other(e)]) ELSE MaxLine

\* It is no more than there are.
LEMMA PieceType ==
    ASSUME Types, NEW e \in Ends
    PROVE  /\ Piece(e) \in 0 .. Len(wire[Other(e)])
           /\ wire[Other(e)] \in Seq(Cell)
           /\ SubSeq(wire[Other(e)], 1, Piece(e)) \in Seq(Cell)
           /\ Cat(SubSeq(wire[Other(e)], 1, Piece(e)),
                  SubSeq(wire[Other(e)], Piece(e) + 1, Len(wire[Other(e)]))) = wire[Other(e)]
<1> DEFINE s == wire[Other(e)]
           n == Piece(e)
<1>1. s \in Seq(Cell) /\ Len(s) \in Nat
    BY SMT, OtherEnd DEF Types
<1>2. MaxLine \in Nat
    BY SizeAssumption
<1>3. n \in 0 .. Len(s)
    BY SMT, <1>1, <1>2 DEF Piece
<1> HIDE DEF s, n
<1>4. SubSeq(s, 1, n) \in Seq(Cell)
    <2>1. \A i \in 1 .. n : s[i] \in Cell
        BY SMT, <1>1, <1>3, ElementOfSeq
    <2>2. n \in Int
        BY SMT, <1>1, <1>3
    <2> QED BY SMT, <2>1, <2>2, SubSeqProperties
<1>5. SubSeq(s, 1, n) \o SubSeq(s, n + 1, Len(s)) = s
    BY <1>1, <1>3, SplitSeq
<1>7. Cat(SubSeq(s, 1, n), SubSeq(s, n + 1, Len(s))) = s
    BY <1>5 DEF Cat
<1> QED BY <1>1, <1>3, <1>4, <1>7 DEF s, n

\* What the read threads do to their own state.
LEMMA ReaderStep ==
    ASSUME Types, NEW e \in Ends, NEW r \in Readers, ReadThread(e, r)
    PROVE  /\ reader[e][r] \in ReaderState
           /\ \E t \in ReaderState : reader' = [reader EXCEPT ![e][r] = t]
<1>1. reader[e][r] \in ReaderState
    BY SMT DEF Types
<1>2. reader[e][r].n \in Nat
    BY <1>1 DEF ReaderState
<1>3. CASE ReadTake(e, r)
    <2> DEFINE t == [reader[e][r] EXCEPT !.at = "read"]
    <2>1. t \in ReaderState
        BY <1>1, ReaderStates
    <2>2. reader' = [reader EXCEPT ![e][r] = t]
        BY <1>3 DEF ReadTake
    <2> QED BY <1>1, <2>1, <2>2
<1>4. CASE Read(e, r)
    <2>1. \/ Piece(e) > 0 /\ ReadPiece(e, r, Piece(e))
          \/ reader' = [reader EXCEPT ![e][r] = Resting]
        BY <1>4 DEF Read, Piece, ReadEmpty
    <2>2. CASE ReadPiece(e, r, Piece(e))
        <3> DEFINE c == SubSeq(wire[Other(e)], 1, Piece(e))
        <3>1. c \in Seq(Cell) /\ Piece(e) \in Nat
            <4>1. Piece(e) \in 0 .. Len(wire[Other(e)]) /\ c \in Seq(Cell)
                BY PieceType
            <4> QED BY SMT, <4>1
        <3> HIDE DEF c
        <3>2. [at |-> "add", buff |-> c, n |-> Piece(e)] \in ReaderState
            BY <3>1, ReaderStates
        <3>3. reader' = [reader EXCEPT ![e][r] = [at |-> "add", buff |-> c, n |-> Piece(e)]]
            BY <2>2 DEF ReadPiece, c
        <3> QED BY <1>1, <3>2, <3>3
    <2>3. CASE reader' = [reader EXCEPT ![e][r] = Resting]
        BY <1>1, <2>3, ReaderStates
    <2> QED BY <2>1, <2>2, <2>3
<1>5. CASE AddDataToReadBuf(e, r)
    <2>1. [at |-> "cut", buff |-> <<>>, n |-> reader[e][r].n] \in ReaderState
        BY <1>2, ReaderStates, EmptySeq
    <2> QED BY <1>1, <1>5, <2>1 DEF AddDataToReadBuf
<1>6. CASE SendPkToMessQueue(e, r)
    <2>1. reader' = [reader EXCEPT ![e][r] = reader[e][r]]
        BY <1>6 DEF SendPkToMessQueue, Types
    <2> QED BY <1>1, <2>1
<1>7. CASE ReadAgain(e, r)
    <2>1. [at |-> "read", buff |-> <<>>, n |-> 0] \in ReaderState
        BY ReaderStates, EmptySeq
    <2>2. Resting \in ReaderState
        BY ReaderStates
    <2> QED BY <1>1, <1>7, <2>1, <2>2 DEF ReadAgain
<1> QED BY <1>3, <1>4, <1>5, <1>6, <1>7 DEF ReadThread
\* DeleteByFd keeps the types.
LEMMA DeleteTypes ==
    ASSUME Types, NEW e \in Ends, DeleteByFd(e)
    PROVE  /\ up' = up /\ wire' = wire /\ up' \in BOOLEAN
           /\ buffer' \subseteq Ends /\ interest' \subseteq Ends
           /\ sendCache' \in [Ends -> Seq(Cell)] /\ cache' \in [Ends -> Seq(Cell)]
           /\ wire' \in [Ends -> Seq(Cell)]
<1>1. <<>> \in Seq(Cell)
    BY EmptySeq
<1> QED BY <1>1 DEF DeleteByFd, Types

\* What is appended to the wire.
LEMMA SentType ==
    ASSUME Types, NEW e \in Ends, NEW w \in Writers, NEW k \in Nat \ {0},
           k <= Len(writer[e][w].buff) - writer[e][w].n
    PROVE  /\ writer[e][w].n \in Nat /\ writer[e][w].buff \in Seq(Cell)
           /\ SubSeq(writer[e][w].buff, writer[e][w].n + 1, writer[e][w].n + k) \in Seq(Cell)
           /\ Len(SubSeq(writer[e][w].buff, writer[e][w].n + 1, writer[e][w].n + k)) = k
           /\ \A j \in 1 .. k :
                SubSeq(writer[e][w].buff, writer[e][w].n + 1, writer[e][w].n + k)[j]
                    = writer[e][w].buff[writer[e][w].n + j]
<1> DEFINE b == writer[e][w].buff
           n == writer[e][w].n
<1>1. n \in Nat /\ b \in Seq(Cell)
    BY SMT DEF Types, WriterState
<1>0. k <= Len(b) - n
    OBVIOUS
<1> HIDE DEF b, n
<1>2. Len(b) \in Nat /\ n + k <= Len(b)
    BY SMT, <1>0, <1>1
<1>3. \A i \in n + 1 .. n + k : b[i] \in Cell
    BY SMT, <1>1, <1>2, ElementOfSeq
<1>4. /\ SubSeq(b, n + 1, n + k) \in Seq(Cell)
      /\ Len(SubSeq(b, n + 1, n + k)) = k
      /\ \A j \in 1 .. k : SubSeq(b, n + 1, n + k)[j] = b[n + j]
    <2>1. n + 1 \in Int /\ n + k \in Int
        BY SMT, <1>1
    <2> DEFINE z == SubSeq(b, n + 1, n + k)
    <2>2. /\ z \in Seq(Cell)
          /\ Len(z) = IF n + 1 <= n + k THEN (n + k) - (n + 1) + 1 ELSE 0
          /\ \A i \in 1 .. (n + k) - (n + 1) + 1 : z[i] = b[(n + 1) + i - 1]
        BY SMT, <1>3, <2>1, SubSeqProperties
    <2> HIDE DEF z
    <2>3. Len(z) = k /\ (n + k) - (n + 1) + 1 = k
        BY SMT, <2>2, <1>1
    <2>4. \A j \in 1 .. k : (n + 1) + j - 1 = n + j
        BY SMT, <1>1
    <2>5. \A j \in 1 .. k : z[j] = b[n + j]
        BY <2>2, <2>3, <2>4
    <2> QED BY <2>2, <2>3, <2>5 DEF z
<1> QED BY <1>1, <1>4 DEF b, n

\* The case that Send writes.
Written(e, w) ==
    LET left == Len(writer[e][w].buff) - writer[e][w].n
        room == Room - Len(wire[e])
    IN  IF left < room THEN left ELSE room

\* One write() writes no more than was copied.
LEMMA WrittenType ==
    ASSUME Types, NEW e \in Ends, NEW w \in Writers
    PROVE  /\ Written(e, w) \in Int
           /\ Written(e, w) <= Len(writer[e][w].buff) - writer[e][w].n
<1>1. writer[e][w].n \in Nat /\ writer[e][w].buff \in Seq(Cell)
    BY SMT DEF Types, WriterState
<1>2. Len(writer[e][w].buff) \in Nat
    BY SMT, <1>1
<1>3. Len(wire[e]) \in Nat /\ Room \in Nat
    BY SMT, SizeAssumption DEF Types
<1>4. \A x, y \in Int : (IF x < y THEN x ELSE y) \in Int /\ (IF x < y THEN x ELSE y) <= x
    BY SMT
<1>5. Len(writer[e][w].buff) - writer[e][w].n \in Int /\ Room - Len(wire[e]) \in Int
    BY SMT, <1>1, <1>2, <1>3
<1> QED BY <1>4, <1>5 DEF Written

\* Type correctness of a write thread's step.
LEMMA WriteTypes ==
    ASSUME Types, NEW e \in Ends, NEW w \in Writers, WriteThread(e, w)
    PROVE  Types'
<1>1. writer' \in [Ends -> [Writers -> WriterState]]
    <2>1. writer \in [Ends -> [Writers -> WriterState]]
        BY DEF Types
    <2>2. PICK t \in WriterState : writer' = [writer EXCEPT ![e][w] = t]
        BY WriterStep
    <2> QED BY <2>1, <2>2, RowSet
<1>2. CASE WriteTake(e, w)
    BY <1>1, <1>2 DEF WriteTake, Types, link, queues
<1>2a. CASE WriteCopy(e, w)
    <2>0. fdMutex' = fdMutex \/ fdMutex' = [fdMutex EXCEPT ![e] = {w}]
        BY <1>2a DEF WriteCopy
    <2>1. fdMutex' \in [Ends -> SUBSET Writers]
        <3> DEFINE S == SUBSET Writers
        <3>1. fdMutex \in [Ends -> S] /\ {w} \in S
            BY DEF Types
        <3> HIDE DEF S
        <3>2. fdMutex' \in [Ends -> S]
            BY <2>0, <3>1
        <3> QED BY <3>2 DEF S
    <2> QED BY <1>1, <1>2a, <2>1 DEF WriteCopy, Types, link, queues
<1>3. CASE Send(e, w)
    <2> DEFINE me == writer[e][w]
               k == Written(e, w)
    <2>1. CASE up /\ k > 0 /\ wire' = [wire EXCEPT ![e] = @ \o SubSeq(me.buff, me.n + 1, me.n + k)]
               /\ UNCHANGED <<up, interest, buffer, sendCache, cache, fdMutex>>
        <3>1. k \in Nat \ {0} /\ k <= Len(me.buff) - me.n
            BY SMT, <2>1, WrittenType
        <3> DEFINE p == SubSeq(me.buff, me.n + 1, me.n + k)
        <3>2. p \in Seq(Cell)
            BY <3>1, SentType
        <3> HIDE DEF p, k
        <3>3. wire[e] \o p \in Seq(Cell)
            BY <3>2, ConcatProperties DEF Types
        <3>4. wire' = [wire EXCEPT ![e] = wire[e] \o p]
            BY <2>1 DEF p, k
        <3>5. wire' \in [Ends -> Seq(Cell)]
            BY <3>3, <3>4 DEF Types
        <3> QED BY <3>5, <1>1, <1>3, <2>1 DEF Send, Types, queues
    <2>2. CASE up /\ UNCHANGED <<up, wire, interest, buffer, sendCache, cache, fdMutex>>
        BY <1>1, <1>3, <2>2 DEF Send, Types, queues
    <2>3. CASE ~up /\ DeleteByFd(e) /\ fdMutex' = [fdMutex EXCEPT ![e] = {}]
        BY <1>1, <1>3, <2>3, DeleteTypes DEF Send, Types, queues
    <2> QED BY <1>3, <2>1, <2>2, <2>3 DEF Send, Written
<1>4. CASE PopNWriteBufferQueue(e, w)
    <2>1. sendCache[e] \in Seq(Cell) /\ writer[e][w].n \in Nat
        BY SMT DEF Types, WriterState
    <2>2. PopN(sendCache[e], writer[e][w].n) \in Seq(Cell)
        <3>1. CASE Len(sendCache[e]) >= writer[e][w].n
            <4>1. writer[e][w].n \in 0 .. Len(sendCache[e])
                BY SMT, <2>1, <3>1
            <4>2. SubSeq(sendCache[e], writer[e][w].n + 1, Len(sendCache[e])) \in Seq(Cell)
                BY <2>1, <4>1, Rest
            <4> QED BY <3>1, <4>2 DEF PopN
        <3>2. CASE ~(Len(sendCache[e]) >= writer[e][w].n)
            BY <3>2, EmptySeq DEF PopN
        <3> QED BY <3>1, <3>2
    <2>3. sendCache' \in [Ends -> Seq(Cell)]
        BY <1>4, <2>2 DEF PopNWriteBufferQueue, Types
    <2> QED BY <1>1, <1>4, <2>3 DEF PopNWriteBufferQueue, Types, link, queues
<1> QED BY <1>2, <1>2a, <1>3, <1>4 DEF WriteThread
\* Type correctness of a read thread's step.
LEMMA ReadTypes ==
    ASSUME Types, NEW e \in Ends, NEW r \in Readers, ReadThread(e, r)
    PROVE  Types'
<1>1. reader' \in [Ends -> [Readers -> ReaderState]]
    <2>1. reader \in [Ends -> [Readers -> ReaderState]]
        BY DEF Types
    <2>2. PICK t \in ReaderState : reader' = [reader EXCEPT ![e][r] = t]
        BY ReaderStep
    <2> QED BY <2>1, <2>2, RowSet
<1>2. Other(e) \in Ends
    BY OtherEnd
<1>3. CASE ReadTake(e, r)
    <2>1. queueRead' \in [Ends -> Nat]
        <3>1. queueRead[e] \in Nat \ {0}
            BY <1>3 DEF ReadTake, IsEmpty, Types
        <3>2. queueRead[e] - 1 \in Nat
            BY SMT, <3>1
        <3> QED BY <3>2, <1>3 DEF ReadTake, Types
    <2> QED BY <1>1, <1>3, <2>1 DEF ReadTake, Types, link, queues
<1>4. CASE Read(e, r)
    <2>1. CASE ReadPiece(e, r, Piece(e))
        <3> DEFINE s == wire[Other(e)]
                   t == SubSeq(s, Piece(e) + 1, Len(s))
        <3>1. s \in Seq(Cell) /\ Piece(e) \in 0 .. Len(s)
            BY PieceType
        <3> HIDE DEF s
        <3>2. t \in Seq(Cell)
            BY <3>1, Rest
        <3>3. wire' = [wire EXCEPT ![Other(e)] = t]
            BY <2>1 DEF ReadPiece, TakenFrom, s
        <3> HIDE DEF t
        <3>4. wire' \in [Ends -> Seq(Cell)]
            BY <3>2, <3>3, <1>2 DEF Types
        <3> QED BY <1>1, <1>4, <2>1, <3>4 DEF Read, ReadPiece, Types, queues
    <2>2. CASE ReadEmpty(e, r)
        <3>1. interest' \subseteq Ends
            BY <2>2 DEF ReadEmpty, EpollLoopAdd, Types
        <3> QED BY <1>1, <1>4, <2>2, <3>1 DEF Read, ReadEmpty, Types, queues
    <2>3. CASE DeleteByFd(e)
        BY <1>1, <1>4, <2>3, DeleteTypes DEF Read, Types, queues
    <2> QED BY <1>4, <2>1, <2>2, <2>3 DEF Read, Piece
<1>5. CASE AddDataToReadBuf(e, r)
    <2>1. cache[e] \o reader[e][r].buff \in Seq(Cell)
        <3>1. cache[e] \in Seq(Cell) /\ reader[e][r].buff \in Seq(Cell)
            BY SMT DEF Types, ReaderState
        <3> QED BY <3>1, ConcatProperties
    <2>2. cache' = cache \/ cache' = [cache EXCEPT ![e] = cache[e] \o reader[e][r].buff]
        BY <1>5 DEF AddDataToReadBuf
    <2>3. cache' \in [Ends -> Seq(Cell)]
        BY <2>1, <2>2 DEF Types
    <2> QED BY <1>1, <1>5, <2>3 DEF AddDataToReadBuf, Types, link, queues
<1>6. CASE SendPkToMessQueue(e, r)
    <2> DEFINE c == cache[e]
               m == Head(c)[1]
               t == SubSeq(c, len[m] + 1, Len(c))
    <2>1. c \in Seq(Cell) /\ c # <<>> /\ Len(c) >= len[m]
        BY <1>6 DEF SendPkToMessQueue, Complete, Types
    <2>2. Head(c) \in Cell
        BY <2>1, HeadTailProperties
    <2>3. m \in Msgs
        BY <2>2 DEF Cell
    <2>4. len[m] \in 0 .. Len(c)
        BY SMT, <2>1, <2>3, CellsType
    <2>5. t \in Seq(Cell)
        BY <2>1, <2>4, Rest
    <2>6. /\ cache' = [cache EXCEPT ![e] = t]
          /\ \/ queueWork' = queueWork /\ arrived' = arrived
             \/ /\ queueWork' = [queueWork EXCEPT ![e] = @ \cup {m}]
                /\ arrived' = [arrived EXCEPT ![Other(e)] = Append(@, m)]
        BY <1>6 DEF SendPkToMessQueue
    <2> HIDE DEF t, m
    <2>7. cache' \in [Ends -> Seq(Cell)] /\ queueWork' \in [Ends -> SUBSET Msgs]
        <3>1. queueWork[e] \cup {m} \in SUBSET Msgs
            BY <2>3 DEF Types
        <3>2. cache' \in [Ends -> Seq(Cell)]
            BY <2>5, <2>6 DEF Types
        <3>3. queueWork' = queueWork \/ queueWork' = [queueWork EXCEPT ![e] = queueWork[e] \cup {m}]
            BY <2>6
        <3>4. queueWork' \in [Ends -> SUBSET Msgs]
            <4> DEFINE S == SUBSET Msgs
            <4>1. queueWork \in [Ends -> S] /\ queueWork[e] \cup {m} \in S
                BY <3>1 DEF Types
            <4> HIDE DEF S
            <4>2. queueWork' \in [Ends -> S]
                BY <3>3, <4>1
            <4> QED BY <4>2 DEF S
        <3> QED BY <3>2, <3>4
    <2>8. arrived' \in [Ends -> Seq(Msgs)]
        <3>1. Append(arrived[Other(e)], m) \in Seq(Msgs)
            BY SMT, <2>3, <1>2 DEF Types
        <3> QED BY <3>1, <2>6, <1>2 DEF Types
    <2> QED BY <1>1, <1>6, <2>7, <2>8 DEF SendPkToMessQueue, Types, link, queues
<1>7. CASE ReadAgain(e, r)
    <2>1. interest' \subseteq Ends
        BY <1>7 DEF ReadAgain, EpollLoopAdd, Types
    <2> QED BY <1>1, <1>7, <2>1 DEF ReadAgain, Types, queues
<1> QED BY <1>3, <1>4, <1>5, <1>6, <1>7 DEF ReadThread

\* Type correctness of the other steps.
LEMMA NextTypes == Types /\ ConnNext => Types'
<1> SUFFICES ASSUME Types, ConnNext PROVE Types'
    OBVIOUS
<1>1. CASE Break
    BY <1>1, EmptySeq DEF Break, Types, queues
<1>2. ASSUME NEW e \in Ends, DealHeart(e) PROVE Types'
    BY <1>2, DeleteTypes DEF DealHeart, Types, queues
<1>3. ASSUME NEW e \in Ends, PushWrite(e) PROVE Types'
    BY <1>3 DEF PushWrite, Types, link
<1>4. ASSUME NEW e \in Ends, EpollIn(e) PROVE Types'
    <2>1. queueRead' \in [Ends -> Nat]
        BY SMT, <1>4 DEF EpollIn, Types
    <2>2. CASE DeleteByFd(e)
        BY <1>4, <2>1, <2>2, DeleteTypes DEF EpollIn, Types
    <2>3. CASE interest' = interest \ {e} /\ UNCHANGED <<up, wire, buffer, sendCache, cache>>
        BY <1>4, <2>1, <2>3 DEF EpollIn, Types
    <2> QED BY <1>4, <2>2, <2>3 DEF EpollIn, EpollErr
<1>5. ASSUME NEW e \in Ends, EpollEdge(e) PROVE Types'
    BY <1>5 DEF EpollEdge, Types, queues
<1>6. ASSUME NEW e \in Ends, EpollOut(e) PROVE Types'
    BY <1>6 DEF EpollOut, Types, link
<1>7. ASSUME NEW e \in Ends, NEW m \in Msgs, AddWritePack(e, m) PROVE Types'
    <2>1. tosend' \in [Ends -> SUBSET Msgs]
        BY <1>7 DEF AddWritePack, Types
    <2>2. CASE e \in buffer
        <3> DEFINE c == sendCache[e] \o Cells(m)
        <3>1. c \in Seq(Cell)
            BY CellsType, ConcatProperties DEF Types
        <3>2. sendCache' = [sendCache EXCEPT ![e] = c]
            BY <1>7, <2>2 DEF AddWritePack
        <3> HIDE DEF c
        <3>3. sendCache' \in [Ends -> Seq(Cell)]
            BY <3>1, <3>2 DEF Types
        <3>4. pushed' \in [Ends -> Seq(Msgs)]
            <4>1. Append(pushed[e], m) \in Seq(Msgs)
                BY SMT DEF Types
            <4>2. pushed' = [pushed EXCEPT ![e] = Append(pushed[e], m)]
                BY <1>7, <2>2 DEF AddWritePack
            <4> QED BY <4>1, <4>2 DEF Types
        <3> QED BY <1>7, <2>1, <3>3, <3>4 DEF AddWritePack, Types, link, queues
    <2>3. CASE e \notin buffer
        BY <1>7, <2>1, <2>3 DEF AddWritePack, Types, link, queues
    <2> QED BY <2>2, <2>3
<1>8. ASSUME NEW e \in Ends, NEW m \in Msgs, HandleNetworkRead(e, m) PROVE Types'
    <2>1. Reply[m] \in SUBSET Msgs
        BY SizeAssumption
    <2> QED BY <1>8, <2>1 DEF HandleNetworkRead, Types, link
<1> QED BY <1>1, <1>2, <1>3, <1>4, <1>5, <1>6, <1>7, <1>8, WriteTypes, ReadTypes
        DEF ConnNext, Threads, HeartTimer, EpollThread
-----------------------------------------------------------------------------
(* A lost connection, and who serves a connection.                         *)

\* DeleteByFd happens only when the connection is lost.
LEMMA NextLost == Types /\ Lost /\ ConnNext => Lost'
<1> SUFFICES ASSUME Types, Lost, ConnNext PROVE Lost'
    OBVIOUS
<1>0. ASSUME NEW e \in Ends, ~up, DeleteByFd(e) PROVE Lost'
    <2>1. up' = up /\ wire' = wire /\ buffer' = buffer \ {e}
        BY <1>0 DEF DeleteByFd
    <2>2. cache' = [cache EXCEPT ![e] = <<>>] /\ cache \in [Ends -> Seq(Cell)]
        BY <1>0 DEF DeleteByFd, Types
    <2>3. \A d \in Ends : d \notin buffer' => cache'[d] = <<>>
        BY <2>1, <2>2 DEF Lost
    <2> QED BY <1>0, <2>1, <2>3 DEF Lost
<1>a. ASSUME UNCHANGED <<up, buffer, wire, cache>> PROVE Lost'
    BY <1>a DEF Lost
<1>1. CASE Break
    BY <1>1 DEF Break, Lost
<1>2. ASSUME NEW e \in Ends, DealHeart(e) PROVE Lost'
    BY <1>0, <1>2 DEF DealHeart
<1>3. ASSUME NEW e \in Ends, PushWrite(e) PROVE Lost'
    BY <1>a, <1>3 DEF PushWrite, link
<1>4. ASSUME NEW e \in Ends, EpollIn(e) PROVE Lost'
    BY <1>a, <1>0, <1>4 DEF EpollIn, EpollErr
<1>5. ASSUME NEW e \in Ends, EpollEdge(e) PROVE Lost'
    BY <1>a, <1>5 DEF EpollEdge
<1>6. ASSUME NEW e \in Ends, EpollOut(e) PROVE Lost'
    BY <1>a, <1>6 DEF EpollOut, link
<1>7. ASSUME NEW e \in Ends, NEW m \in Msgs, AddWritePack(e, m) PROVE Lost'
    BY <1>a, <1>7 DEF AddWritePack, link
<1>8. ASSUME NEW e \in Ends, NEW m \in Msgs, HandleNetworkRead(e, m) PROVE Lost'
    BY <1>a, <1>8 DEF HandleNetworkRead, link
<1>9. ASSUME NEW e \in Ends, NEW w \in Writers, WriteThread(e, w) PROVE Lost'
    <2>1. CASE Send(e, w)
        <3>1. CASE ~up
            BY <1>0, <2>1, <3>1 DEF Send
        <3>2. CASE up
            <4>1. up' /\ UNCHANGED <<buffer, cache>>
                BY <2>1, <3>2 DEF Send
            <4> QED BY <3>2, <4>1 DEF Lost
        <3> QED BY <3>1, <3>2
    <2> QED BY <1>a, <1>9, <2>1 DEF WriteThread, WriteTake, WriteCopy, PopNWriteBufferQueue, link
<1>10. ASSUME NEW e \in Ends, NEW r \in Readers, ReadThread(e, r) PROVE Lost'
    <2>1. CASE Read(e, r)
        <3>1. CASE ReadPiece(e, r, Piece(e)) /\ Piece(e) > 0
            <4>1. up
                <5>1. Other(e) \in Ends
                    BY OtherEnd
                <5>2. wire[Other(e)] # <<>>
                    BY SMT, <3>1, <5>1, PieceType, EmptySeq
                <5> QED BY <5>1, <5>2 DEF Lost
            <4>2. UNCHANGED <<up, buffer, cache>>
                BY <3>1 DEF ReadPiece
            <4> QED BY <4>1, <4>2 DEF Lost
        <3>2. CASE ReadEmpty(e, r)
            BY <3>2, <1>a DEF ReadEmpty
        <3>3. CASE ~up /\ DeleteByFd(e)
            BY <3>3, <1>0
        <3> QED BY <2>1, <3>1, <3>2, <3>3 DEF Read, Piece
    <2>2. CASE ReadTake(e, r) \/ ReadAgain(e, r)
        BY <1>a, <2>2 DEF ReadTake, ReadAgain, link
    <2>3. CASE AddDataToReadBuf(e, r)
        <3>1. UNCHANGED <<up, buffer, wire>>
            BY <2>3 DEF AddDataToReadBuf, link
        <3>2. \A d \in Ends : d \notin buffer => cache'[d] = cache[d]
            BY <2>3 DEF AddDataToReadBuf, Types
        <3> QED BY <3>1, <3>2 DEF Lost
    <2>4. CASE SendPkToMessQueue(e, r)
        <3>1. UNCHANGED <<up, buffer, wire>>
            BY <2>4 DEF SendPkToMessQueue, link
        <3>2. cache[e] # <<>>
            BY <2>4 DEF SendPkToMessQueue, Complete
        <3>3. \A d \in Ends : d # e => cache'[d] = cache[d]
            BY <2>4 DEF SendPkToMessQueue, Types
        <3> QED BY <3>1, <3>2, <3>3 DEF Lost
    <2> QED BY <1>10, <2>1, <2>2, <2>3, <2>4 DEF ReadThread
<1> QED BY <1>1, <1>2, <1>3, <1>4, <1>5, <1>6, <1>7, <1>8, <1>9, <1>10
        DEF ConnNext, Threads, HeartTimer, EpollThread

Readership(e) == OneReader(e \in interest, queueRead[e], reader[e])

\* The fd of an end that nobody serves is served by one thread at most.
LEMMA NextReader ==
    (Types /\ \A e \in Ends : Readership(e)) /\ ConnNext => \A e \in Ends : Readership(e)'
<1> SUFFICES ASSUME Types, \A e \in Ends : Readership(e), ConnNext, NEW x \in Ends
             PROVE  Readership(x)'
    OBVIOUS
<1>a. ASSUME queueRead'[x] = queueRead[x], reader'[x] = reader[x], x \in interest' => x \in interest
      PROVE  Readership(x)'
    BY <1>a DEF Readership, OneReader
<1>b. ASSUME UNCHANGED <<queueRead, reader>>, interest' \subseteq interest
      PROVE  Readership(x)'
    BY <1>a, <1>b
<1>0. ASSUME NEW e \in Ends, DeleteByFd(e), UNCHANGED <<queueRead, reader>>
      PROVE  Readership(x)'
    BY <1>0, <1>b DEF DeleteByFd
<1>1. CASE Break
    BY <1>1, <1>b DEF Break, queues
<1>2. ASSUME NEW e \in Ends, DealHeart(e) PROVE Readership(x)'
    BY <1>2, <1>0 DEF DealHeart, queues
<1>3. ASSUME NEW e \in Ends, PushWrite(e) PROVE Readership(x)'
    BY <1>b, <1>3 DEF PushWrite, link
<1>4. ASSUME NEW e \in Ends, EpollIn(e) PROVE Readership(x)'
    <2>1. /\ e \in interest /\ interest' = interest \ {e} /\ reader' = reader
          /\ queueRead' = [queueRead EXCEPT ![e] = @ + 1]
        BY <1>4 DEF EpollIn, EpollErr, DeleteByFd
    <2>2. CASE x # e
        <3>1. queueRead'[x] = queueRead[x]
            BY <2>1, <2>2 DEF Types
        <3> QED BY <3>1, <2>1, <1>a
    <2>3. CASE x = e
        <3>1. queueRead[x] = 0 /\ \A r \in Readers : ~Reads(reader[x][r])
            BY <2>1, <2>3 DEF Readership, OneReader
        <3>2. queueRead'[x] = 1 /\ x \notin interest'
            BY SMT, <2>1, <2>3, <3>1 DEF Types
        <3> QED BY <2>1, <3>1, <3>2 DEF Readership, OneReader
    <2> QED BY <2>2, <2>3
<1>5. ASSUME NEW e \in Ends, EpollEdge(e) PROVE Readership(x)'
    BY <1>b, <1>5 DEF EpollEdge, queues
<1>6. ASSUME NEW e \in Ends, EpollOut(e) PROVE Readership(x)'
    BY <1>b, <1>6 DEF EpollOut, link
<1>7. ASSUME NEW e \in Ends, NEW m \in Msgs, AddWritePack(e, m) PROVE Readership(x)'
    BY <1>b, <1>7 DEF AddWritePack, link, queues
<1>8. ASSUME NEW e \in Ends, NEW m \in Msgs, HandleNetworkRead(e, m) PROVE Readership(x)'
    BY <1>b, <1>8 DEF HandleNetworkRead, link
<1>9. ASSUME NEW e \in Ends, NEW w \in Writers, WriteThread(e, w) PROVE Readership(x)'
    <2>1. UNCHANGED <<queueRead, reader>> /\ interest' \subseteq interest
        BY <1>9 DEF WriteThread, WriteTake, WriteCopy, Send, DeleteByFd, PopNWriteBufferQueue,
                    link, queues
    <2> QED BY <2>1, <1>b
<1>10. ASSUME NEW e \in Ends, NEW r \in Readers, ReadThread(e, r) PROVE Readership(x)'
    <2>1. PICK t \in ReaderState : reader' = [reader EXCEPT ![e][r] = t]
        BY <1>10, ReaderStep
    <2>2. /\ reader'[e][r] = t
          /\ \A q \in Readers : q # r => reader'[e][q] = reader[e][q]
          /\ \A d \in Ends : d # e => reader'[d] = reader[d]
        <3>1. reader \in [Ends -> [Readers -> ReaderState]]
            BY DEF Types
        <3> QED BY SMT, <2>1, <3>1, RowSet
    <2>3. Readership(e)
        OBVIOUS
    <2>4. CASE x # e
        <3>1. queueRead'[x] = queueRead[x] /\ (x \in interest' => x \in interest)
            BY <1>10, <2>4 DEF ReadThread, ReadTake, Read, ReadPiece, TakenFrom, ReadEmpty,
                EpollLoopAdd, DeleteByFd, AddDataToReadBuf, SendPkToMessQueue, ReadAgain,
                link, queues, Types
        <3> QED BY <3>1, <2>2, <2>4, <1>a
    <2>5. CASE x = e /\ ReadTake(e, r)
        <3>1. queueRead[e] # 0 /\ queueRead' = [queueRead EXCEPT ![e] = @ - 1] /\ interest' = interest
            BY <2>5 DEF ReadTake, IsEmpty, link
        <3>2. queueRead[e] = 1 /\ e \notin interest /\ \A q \in Readers : ~Reads(reader[e][q])
            BY <3>1, <2>3 DEF Readership, OneReader
        <3>3. queueRead'[e] = 0
            BY SMT, <3>1, <3>2 DEF Types
        <3> QED BY <2>2, <2>5, <3>1, <3>2, <3>3 DEF Readership, OneReader
    <2>6. CASE x = e /\ ~ReadTake(e, r)
        <3>1. Reads(reader[e][r]) /\ UNCHANGED queueRead
            BY <1>10, <2>6 DEF ReadThread, Read, AddDataToReadBuf, SendPkToMessQueue, ReadAgain,
                queues, Reads
        <3>2. /\ e \notin interest /\ queueRead[e] = 0
              /\ \A q \in Readers : q # r => ~Reads(reader[e][q])
            BY <3>1, <2>3 DEF Readership, OneReader
        <3>3. \A q \in Readers : q # r => ~Reads(reader'[e][q])
            BY <2>2, <3>2
        <3>4. CASE e \notin interest'
            BY <2>6, <3>1, <3>2, <3>3, <3>4 DEF Readership, OneReader
        <3>5. CASE e \in interest'
            <4>1. t = Resting
                <5>1. CASE Read(e, r)
                    <6>1. reader' = [reader EXCEPT ![e][r] = Resting]
                        BY <5>1, <3>2, <3>5 DEF Read, ReadPiece, ReadEmpty, DeleteByFd
                    <6> QED BY SMT, <6>1, <2>2, RowSet, ReaderStates DEF Types
                <5>2. CASE ReadAgain(e, r)
                    <6>1. reader' = [reader EXCEPT ![e][r] = Resting]
                        BY <5>2, <3>2, <3>5 DEF ReadAgain
                    <6> QED BY SMT, <6>1, <2>2, RowSet, ReaderStates DEF Types
                <5> QED BY <1>10, <2>6, <3>2, <3>5, <5>1, <5>2
                        DEF ReadThread, AddDataToReadBuf, SendPkToMessQueue, link
            <4>2. \A q \in Readers : ~Reads(reader'[e][q])
                BY <4>1, <2>2, <3>3, ReaderStates
            <4> QED BY <2>6, <3>1, <3>2, <4>2 DEF Readership, OneReader
        <3> QED BY <3>4, <3>5
    <2> QED BY <2>4, <2>5, <2>6
<1> QED BY <1>1, <1>2, <1>3, <1>4, <1>5, <1>6, <1>7, <1>8, <1>9, <1>10
        DEF ConnNext, Threads, HeartTimer, EpollThread

\* One write() while the connection holds.
LEMMA SentState ==
    ASSUME Types, NEW e \in Ends, NEW w \in Writers, up, Send(e, w),
           writer[e][w].n <= Len(writer[e][w].buff)
    PROVE  LET me == writer[e][w]
               now == writer'[e][w]
               k == Written(e, w)
           IN  /\ Writes(now) /\ now.buff = me.buff /\ now.n <= Len(me.buff)
               /\ UNCHANGED <<up, buffer, sendCache, cache, fdMutex>>
               /\ \/ /\ k \in Nat \ {0} /\ now.n = me.n + k
                     /\ wire' = [wire EXCEPT ![e] = Cat(@, SubSeq(me.buff, me.n + 1, me.n + k))]
                  \/ now.n = me.n /\ wire' = wire
<1> DEFINE me == writer[e][w]
           k == Written(e, w)
           a == IF k = Len(me.buff) - me.n THEN "pop" ELSE "send"
           p == [at |-> a, buff |-> me.buff, n |-> me.n + k]
<1>1. me.n \in Nat /\ me.buff \in Seq(Cell) /\ me \in WriterState
    <2>1. me \in WriterState
        <3>1. writer \in [Ends -> [Writers -> WriterState]]
            BY DEF Types
        <3> QED BY <3>1
    <2> QED BY <2>1, WriterParts
<1>2. k \in Int /\ k <= Len(me.buff) - me.n
    BY WrittenType
<1>3. writer \in [Ends -> [Writers -> WriterState]]
    BY DEF Types
<1>4. UNCHANGED <<up, buffer, sendCache, cache, fdMutex>>
    BY DEF Send
<1>5. \/ /\ k > 0 /\ wire' = [wire EXCEPT ![e] = Cat(@, SubSeq(me.buff, me.n + 1, me.n + k))]
         /\ writer' = [writer EXCEPT ![e][w] = p]
      \/ wire' = wire /\ writer' = [writer EXCEPT ![e][w].at = "pop"]
    BY DEF Send, Written, Cat
<1> HIDE DEF k
<1>6. CASE k > 0 /\ wire' = [wire EXCEPT ![e] = Cat(@, SubSeq(me.buff, me.n + 1, me.n + k))]
           /\ writer' = [writer EXCEPT ![e][w] = p]
    <2>1. k \in Nat \ {0} /\ me.n + k \in Nat /\ me.n + k <= Len(me.buff)
        <3>1. Len(me.buff) \in Nat
            BY SMT, <1>1
        <3>2. \A l, n \in Nat, i \in Int : i > 0 /\ i <= l - n =>
                i \in Nat \ {0} /\ n + i \in Nat /\ n + i <= l
            BY SMT
        <3> QED BY <1>1, <1>2, <1>6, <3>1, <3>2
    <2>2. a \in {"send", "pop"}
        OBVIOUS
    <2> HIDE DEF a, me
    <2>3. p \in WriterState /\ Writes(p)
        BY <1>1, <2>1, <2>2, WriterStates
    <2>4. p.buff = me.buff /\ p.n = me.n + k
        OBVIOUS
    <2> HIDE DEF p
    <2>5. writer'[e][w] = p
        BY <1>3, <1>6
    <2> QED BY <1>4, <1>6, <2>1, <2>3, <2>4, <2>5 DEF k, me
<1>7. CASE wire' = wire /\ writer' = [writer EXCEPT ![e][w].at = "pop"]
    <2>1. writer'[e][w] = [me EXCEPT !.at = "pop"]
        BY <1>3, <1>7
    <2>2. Writes(writer'[e][w]) /\ writer'[e][w].buff = me.buff /\ writer'[e][w].n = me.n
        <3> HIDE DEF me
        <3> QED BY <1>1, <2>1 DEF Writes, WriterState
    <2> QED BY <1>4, <1>7, <2>2
<1> QED BY <1>5, <1>6, <1>7

\* Who owns the mutex says no less when the connection is lost, ...
LEMMA OneWriterLost ==
    ASSUME NEW alive, NEW owners, NEW threads, NEW c, OneWriter(alive, owners, threads, c),
           NEW still
    PROVE  /\ (still => alive) => OneWriter(still, owners, threads, c)
           /\ ~still => \A d : OneWriter(still, owners, threads, d)
BY DEF OneWriter

\* ... nor when a thread that does not write takes a step, ...
LEMMA OneWriterSame ==
    ASSUME NEW alive, NEW owners, NEW threads, NEW c, NEW now, OneWriter(alive, owners, threads, c),
           \A v \in Writers : Writes(now[v]) => now[v] = threads[v],
           \A v \in owners : now[v] = threads[v]
    PROVE  OneWriter(alive, owners, now, c)
BY SMT DEF OneWriter

\* ... and no other thread writes.
LEMMA OneOwner ==
    ASSUME NEW alive, NEW owners, NEW threads, NEW c, NEW w \in Writers
    PROVE  /\ /\ OneWriter(alive, owners, threads, c) /\ Writes(threads[w])
              => owners = {w} /\ \A v \in Writers : v # w => ~Writes(threads[v])
           /\ /\ \A v \in Writers : v # w => ~Writes(threads[v])
              /\ Writes(threads[w]) /\ threads[w].n <= Len(threads[w].buff)
              /\ alive => /\ Len(threads[w].buff) <= Len(c)
                          /\ \A j \in 1 .. Len(threads[w].buff) : threads[w].buff[j] = c[j]
              => OneWriter(alive, {w}, threads, c)
<1>1. \A v : {v} = {w} => v = w
    OBVIOUS
<1>2. \A v \in {w} : v = w
    OBVIOUS
<1>3. ASSUME OneWriter(alive, owners, threads, c), Writes(threads[w])
      PROVE  owners = {w} /\ \A v \in Writers : v # w => ~Writes(threads[v])
    <2>1. owners = {w}
        BY <1>3 DEF OneWriter
    <2>2. \A v \in Writers : Writes(threads[v]) => owners = {v}
        BY <1>3 DEF OneWriter
    <2> QED BY <1>1, <2>1, <2>2
<1>4. ASSUME \A v \in Writers : v # w => ~Writes(threads[v]),
             Writes(threads[w]), threads[w].n <= Len(threads[w].buff),
             alive => /\ Len(threads[w].buff) <= Len(c)
                      /\ \A j \in 1 .. Len(threads[w].buff) : threads[w].buff[j] = c[j]
      PROVE  OneWriter(alive, {w}, threads, c)
    BY <1>2, <1>4 DEF OneWriter
<1> QED BY <1>3, <1>4

Ownership(e) == OneWriter(up, fdMutex[e], writer[e], sendCache[e])

\* The mutex of an fd has one owner, and _sendCache begins with what that
\* thread has copied: nobody but the owner cuts anything off.
LEMMA NextWriter ==
    (Types /\ \A e \in Ends : Ownership(e)) /\ ConnNext => \A e \in Ends : Ownership(e)'
<1> SUFFICES ASSUME Types, \A e \in Ends : Ownership(e), ConnNext, NEW x \in Ends
             PROVE  Ownership(x)'
    OBVIOUS
<1>x. Ownership(x)
    OBVIOUS
<1>a. ASSUME up' => up, fdMutex'[x] = fdMutex[x], writer'[x] = writer[x],
             sendCache'[x] = sendCache[x] \/ ~up'
      PROVE  Ownership(x)'
    <2>0. OneWriter(up, fdMutex[x], writer[x], sendCache[x])
        BY <1>x DEF Ownership
    <2>1. CASE ~up'
        <3>1. OneWriter(up', fdMutex[x], writer[x], sendCache'[x])
            BY <2>0, <2>1, OneWriterLost
        <3> QED BY <1>a, <3>1 DEF Ownership
    <2>2. CASE up' /\ sendCache'[x] = sendCache[x]
        <3>1. OneWriter(up', fdMutex[x], writer[x], sendCache[x])
            BY <1>a, <2>0, OneWriterLost
        <3> QED BY <1>a, <2>2, <3>1 DEF Ownership
    <2> QED BY <1>a, <2>1, <2>2
<1>b. ASSUME up' = up, UNCHANGED <<fdMutex, writer, sendCache>>
      PROVE  Ownership(x)'
    BY <1>a, <1>b
<1>0. ASSUME NEW e \in Ends, ~up, DeleteByFd(e), UNCHANGED <<fdMutex, writer>>
      PROVE  Ownership(x)'
    BY <1>0, <1>a DEF DeleteByFd
<1>c. ASSUME fdMutex'[x] = {}, \A w \in Writers : ~Writes(writer'[x][w])
      PROVE  Ownership(x)'
    BY <1>c DEF Ownership, OneWriter
<1>1. CASE Break
    BY <1>1, <1>a DEF Break
<1>2. ASSUME NEW e \in Ends, DealHeart(e) PROVE Ownership(x)'
    BY <1>2, <1>0 DEF DealHeart
<1>3. ASSUME NEW e \in Ends, PushWrite(e) PROVE Ownership(x)'
    BY <1>b, <1>3 DEF PushWrite, link
<1>4. ASSUME NEW e \in Ends, EpollIn(e) PROVE Ownership(x)'
    BY <1>b, <1>0, <1>4 DEF EpollIn, EpollErr
<1>5. ASSUME NEW e \in Ends, EpollEdge(e) PROVE Ownership(x)'
    BY <1>b, <1>5 DEF EpollEdge
<1>6. ASSUME NEW e \in Ends, EpollOut(e) PROVE Ownership(x)'
    BY <1>b, <1>6 DEF EpollOut, link
<1>7. ASSUME NEW e \in Ends, NEW m \in Msgs, AddWritePack(e, m) PROVE Ownership(x)'
    <2>1. UNCHANGED <<up, fdMutex, writer>>
        BY <1>7 DEF AddWritePack, link
    <2>2. CASE sendCache'[x] = sendCache[x]
        BY <2>1, <2>2, <1>a
    <2>3. CASE sendCache'[x] # sendCache[x]
        <3>1. sendCache'[x] = sendCache[x] \o Cells(m)
            <4>1. sendCache' = [sendCache EXCEPT ![e] = sendCache[e] \o Cells(m)]
                BY <1>7, <2>3 DEF AddWritePack
            <4>2. sendCache \in [Ends -> Seq(Cell)]
                BY DEF Types
            <4>3. x = e
                BY <4>1, <4>2, <2>3
            <4> QED BY <4>1, <4>2, <4>3
        <3>2. sendCache[x] \in Seq(Cell) /\ Cells(m) \in Seq(Cell)
            BY CellsType DEF Types
        <3>3. /\ Len(sendCache'[x]) = Len(sendCache[x]) + Len(Cells(m))
              /\ \A j \in 1 .. Len(sendCache[x]) : sendCache'[x][j] = sendCache[x][j]
            BY SMT, <3>1, <3>2, Joined
        <3>4. ASSUME NEW b \in Seq(Cell), Len(b) <= Len(sendCache[x]),
                     \A j \in 1 .. Len(b) : b[j] = sendCache[x][j]
              PROVE  /\ Len(b) <= Len(sendCache'[x])
                     /\ \A j \in 1 .. Len(b) : b[j] = sendCache'[x][j]
            <4>1. Len(sendCache[x]) \in Nat /\ Len(Cells(m)) \in Nat /\ Len(b) \in Nat
                BY SMT, <3>2
            <4>2. Len(b) <= Len(sendCache'[x]) /\ \A j \in 1 .. Len(b) : j \in 1 .. Len(sendCache[x])
                BY SMT, <3>3, <3>4, <4>1
            <4> QED BY <3>3, <3>4, <4>2
        <3>5. \A w \in Writers : writer[x][w].buff \in Seq(Cell)
            BY SMT DEF Types, WriterState
        <3> QED BY <2>1, <3>4, <3>5, <1>x DEF Ownership, OneWriter
    <2> QED BY <2>2, <2>3
<1>8. ASSUME NEW e \in Ends, NEW m \in Msgs, HandleNetworkRead(e, m) PROVE Ownership(x)'
    BY <1>b, <1>8 DEF HandleNetworkRead, link
<1>9. ASSUME NEW e \in Ends, NEW w \in Writers, WriteThread(e, w) PROVE Ownership(x)'
    <2>1. PICK t \in WriterState : writer' = [writer EXCEPT ![e][w] = t]
        BY <1>9, WriterStep
    <2>2. /\ writer'[e][w] = t
          /\ \A v \in Writers : v # w => writer'[e][v] = writer[e][v]
          /\ \A d \in Ends : d # e => writer'[d] = writer[d]
        <3>1. writer \in [Ends -> [Writers -> WriterState]]
            BY DEF Types
        <3> QED BY SMT, <2>1, <3>1, RowSet
    <2>4. CASE x # e
        <3>1. up' = up /\ fdMutex'[x] = fdMutex[x] /\ sendCache'[x] = sendCache[x]
            BY <1>9, <2>4 DEF WriteThread, WriteTake, WriteCopy, Send, PopNWriteBufferQueue,
                DeleteByFd, link, Types
        <3> QED BY <3>1, <2>2, <2>4, <1>a
    <2>w. ASSUME NEW r \in WriterState, writer' = [writer EXCEPT ![e][w] = r]
          PROVE  t = r
        <3>1. writer'[e][w] = r
            BY <2>w DEF Types
        <3> QED BY <3>1, <2>2
    <2>5. CASE x = e /\ WriteTake(e, w)
        <3> DEFINE a == IF e \in buffer THEN "lock" ELSE "rest"
                   r == [writer[e][w] EXCEPT !.at = a]
        <3>1. writer[e][w] \in WriterState
            BY SMT DEF Types
        <3>2. r \in WriterState /\ ~Writes(r)
            BY <3>1, WriterStates
        <3>3. writer' = [writer EXCEPT ![e][w] = r]
            BY <2>5 DEF WriteTake
        <3>4. ~Writes(t)
            BY <2>w, <3>2, <3>3
        <3>5. ~Writes(writer[e][w]) /\ UNCHANGED <<up, fdMutex, sendCache>>
            BY <2>5 DEF WriteTake, Writes, link
        <3>6. \A v \in Writers : Writes(writer'[e][v]) => writer'[e][v] = writer[e][v]
            BY <2>2, <3>4
        <3>7. w \notin fdMutex[e] /\ \A v \in fdMutex[e] : v \in Writers /\ v # w
            <4>1. fdMutex[e] \subseteq Writers
                BY DEF Types
            <4> QED BY <4>1, <3>5, <2>5, <1>x DEF Ownership, OneWriter
        <3>8. \A v \in fdMutex[e] : writer'[e][v] = writer[e][v]
            BY <3>7, <2>2
        <3> QED
            <4>1. OneWriter(up, fdMutex[e], writer[e], sendCache[e])
                BY <2>5, <1>x DEF Ownership
            <4>2. OneWriter(up, fdMutex[e], writer'[e], sendCache[e])
                BY <4>1, <3>6, <3>8, OneWriterSame
            <4> QED BY <4>2, <3>5, <2>5 DEF Ownership
    <2>6. CASE x = e /\ WriteCopy(e, w)
        <3>1. fdMutex[e] = {} /\ UNCHANGED <<up, sendCache>>
            BY <2>6 DEF WriteCopy, link
        <3>2. \A v \in Writers : ~Writes(writer[e][v])
            BY <3>1, <2>6, <1>x DEF Ownership, OneWriter
        <3>3. CASE sendCache[e] = <<>>
            <4>1. writer' = [writer EXCEPT ![e][w] = Resting] /\ fdMutex' = fdMutex
                BY <2>6, <3>3 DEF WriteCopy
            <4>2. ~Writes(t)
                BY <4>1, <2>w, WriterStates
            <4> QED BY <4>1, <4>2, <3>1, <3>2, <2>2, <2>6, <1>c
        <3>4. CASE sendCache[e] # <<>>
            <4> DEFINE r == [at |-> "send", buff |-> sendCache[e], n |-> 0]
            <4>1. writer' = [writer EXCEPT ![e][w] = r] /\ fdMutex' = [fdMutex EXCEPT ![e] = {w}]
                BY <2>6, <3>4 DEF WriteCopy
            <4>2. sendCache[e] \in Seq(Cell) /\ Len(sendCache[e]) \in Nat
                BY SMT DEF Types
            <4>3. r \in WriterState /\ Writes(r)
                BY <4>2, WriterStates
            <4>4. t = r
                BY <4>1, <4>3, <2>w
            <4>5. fdMutex'[e] = {w}
                BY <4>1 DEF Types
            <4>6. t.n = 0 /\ t.buff = sendCache[e]
                BY <4>4
            <4>7. t.n <= Len(t.buff) /\ Len(t.buff) <= Len(sendCache[e])
                BY <4>6, <4>2, ZeroLeast
            <4>8. \A v \in Writers : Writes(writer'[e][v]) => v = w
                BY <3>2, <2>2
            <4>9. Writes(t)
                BY <4>3, <4>4
            <4> QED BY <4>5, <4>6, <4>7, <4>8, <4>9, <3>1, <2>2, <2>6
                    DEF Ownership, OneWriter
        <3> QED BY <3>3, <3>4
    <2>7. ASSUME x = e, Writes(writer[e][w]), writer' = [writer EXCEPT ![e][w] = Resting],
                 fdMutex' = [fdMutex EXCEPT ![e] = {}]
          PROVE  Ownership(x)'
        <3>2. \A v \in Writers : v # w => ~Writes(writer[e][v])
            BY <2>7, <1>x, OneOwner DEF Ownership
        <3>3. ~Writes(t)
            BY <2>7, <2>w, WriterStates
        <3>4. fdMutex'[e] = {}
            BY <2>7 DEF Types
        <3> QED BY <3>2, <3>3, <3>4, <2>2, <2>7, <1>c
    <2>8. CASE x = e /\ PopNWriteBufferQueue(e, w)
        BY <2>7, <2>8 DEF PopNWriteBufferQueue, Writes
    <2>9. CASE x = e /\ Send(e, w)
        <3>0. Writes(writer[e][w])
            BY <2>9 DEF Send, Writes
        <3>1. CASE ~up
            BY <2>7, <2>9, <3>0, <3>1 DEF Send
        <3>2. CASE up
            <4>1. UNCHANGED <<up, fdMutex, sendCache>>
                BY <2>9, <3>2 DEF Send
            <4> DEFINE me == writer[e][w]
            <4>2. /\ fdMutex[e] = {w} /\ me.n <= Len(me.buff)
                  /\ Len(me.buff) <= Len(sendCache[e])
                  /\ \A j \in 1 .. Len(me.buff) : me.buff[j] = sendCache[e][j]
                BY <2>9, <3>0, <3>2, <1>x DEF Ownership, OneWriter
            <4>3. \A v \in Writers : v # w => ~Writes(writer[e][v])
                BY <2>9, <3>0, <1>x, OneOwner DEF Ownership
            <4>4. Writes(t) /\ t.buff = me.buff /\ t.n <= Len(me.buff)
                <5>1. /\ Writes(writer'[e][w]) /\ writer'[e][w].buff = me.buff
                      /\ writer'[e][w].n <= Len(me.buff)
                    BY <2>9, <3>2, <4>2, SentState
                <5> QED BY <5>1, <2>2
            <4>5. \A v \in Writers : v # w => ~Writes(writer'[e][v])
                BY <4>3, <2>2
            <4>6. OneWriter(up, {w}, writer'[e], sendCache[e])
                <5> DEFINE th == writer'[e]
                           c == sendCache[e]
                <5>1. th[w] = t
                    BY <2>2
                <5>2. th[w].buff = me.buff /\ Writes(th[w]) /\ th[w].n <= Len(th[w].buff)
                    BY <5>1, <4>4
                <5>3. /\ Len(th[w].buff) <= Len(c)
                      /\ \A j \in 1 .. Len(th[w].buff) : th[w].buff[j] = c[j]
                    BY <5>2, <4>2
                <5>4. \A v \in Writers : v # w => ~Writes(th[v])
                    BY <4>5
                <5> HIDE DEF th, c
                <5>5. OneWriter(up, {w}, th, c)
                    BY <5>2, <5>3, <5>4, OneOwner
                <5> QED BY <5>5 DEF th, c
            <4> QED BY <4>1, <4>2, <4>6, <2>9 DEF Ownership
        <3> QED BY <3>1, <3>2
    <2> QED BY <1>9, <2>4, <2>5, <2>6, <2>8, <2>9 DEF WriteThread
<1>10. ASSUME NEW e \in Ends, NEW r \in Readers, ReadThread(e, r) PROVE Ownership(x)'
    <2>1. CASE Read(e, r)
        <3>1. UNCHANGED <<up, fdMutex, writer>>
            BY <2>1 DEF Read, ReadPiece, ReadEmpty, DeleteByFd
        <3>2. up => sendCache' = sendCache
            BY <2>1 DEF Read, ReadPiece, ReadEmpty
        <3> QED BY <3>1, <3>2, <1>a
    <2> QED BY <1>b, <1>10, <2>1 DEF ReadThread, ReadTake, AddDataToReadBuf, SendPkToMessQueue,
                ReadAgain, link
<1> QED BY <1>1, <1>2, <1>3, <1>4, <1>5, <1>6, <1>7, <1>8, <1>9, <1>10
        DEF ConnNext, Threads, HeartTimer, EpollThread

-----------------------------------------------------------------------------
(* What is unsent, and what the write threads do to it.                    *)

\* An owner of the mutex has written no more than there is.
LEMMA OwnerBound ==
    ASSUME NEW owners \in SUBSET Writers, NEW threads \in [Writers -> WriterState],
           NEW c \in Seq(Cell), OneWriter(TRUE, owners, threads, c), owners # {}
    PROVE  \E w \in Writers :
             /\ owners = {w} /\ threads[w].n \in 0 .. Len(c)
             /\ Unsent(owners, threads, c) = SubSeq(c, threads[w].n + 1, Len(c))
<1>1. PICK w \in Writers : w \in owners
    OBVIOUS
<1>2. Writes(threads[w])
    BY <1>1 DEF OneWriter
<1>3. /\ owners = {w} /\ threads[w].n <= Len(threads[w].buff)
      /\ Len(threads[w].buff) <= Len(c)
    BY <1>2 DEF OneWriter
<1>4. threads[w].n \in Nat /\ threads[w].buff \in Seq(Cell)
    BY DEF WriterState
<1>5. threads[w].n \in 0 .. Len(c)
    <2>1. Len(threads[w].buff) \in Nat /\ Len(c) \in Nat
        BY SMT, <1>4
    <2> QED BY SMT, <2>1, <1>3, <1>4
<1>6. Unsent(owners, threads, c) = SubSeq(c, threads[w].n + 1, Len(c))
    BY <1>3, UnsentRest
<1> QED BY <1>3, <1>5, <1>6

\* What a sender appends to _sendCache is unsent.
LEMMA UnsentAppend ==
    ASSUME NEW owners \in SUBSET Writers, NEW threads \in [Writers -> WriterState],
           NEW c \in Seq(Cell), OneWriter(TRUE, owners, threads, c), NEW p \in Seq(Cell)
    PROVE  Unsent(owners, threads, Cat(c, p)) = Cat(Unsent(owners, threads, c), p)
<1>1. CASE owners = {}
    BY <1>1, UnsentAll
<1>2. CASE owners # {}
    <2>1. PICK w \in Writers :
             /\ owners = {w} /\ threads[w].n \in 0 .. Len(c)
             /\ Unsent(owners, threads, c) = SubSeq(c, threads[w].n + 1, Len(c))
        BY <1>2, OwnerBound
    <2> DEFINE cp == Cat(c, p)
    <2>2. Cat(SubSeq(c, threads[w].n + 1, Len(c)), p) = SubSeq(cp, threads[w].n + 1, Len(cp))
        BY <2>1, CutConcat
    <2>3. Unsent(owners, threads, cp) = SubSeq(cp, threads[w].n + 1, Len(cp))
        BY <2>1, UnsentRest
    <2> QED BY <2>1, <2>2, <2>3
<1> QED BY <1>1, <1>2

\* Only the owner of the mutex matters.
LEMMA UnsentSame ==
    ASSUME NEW owners, NEW threads, NEW c, NEW now, \A w \in owners : now[w].n = threads[w].n
    PROVE  Unsent(owners, now, c) = Unsent(owners, threads, c)
<1>1. CASE owners = {}
    BY <1>1 DEF Unsent
<1>2. CASE owners # {}
    <2>1. (CHOOSE w \in owners : TRUE) \in owners
        BY <1>2
    <2> QED BY <1>2, <2>1 DEF Unsent
<1> QED BY <1>1, <1>2

\* A sequence without its first 0 cells is the sequence.
LEMMA CutNone == \A c \in Seq(Cell) : SubSeq(c, 0 + 1, Len(c)) = c
<1> TAKE c \in Seq(Cell)
<1> DEFINE z == SubSeq(c, 0 + 1, Len(c))
<1>1. 0 \in 0 .. Len(c) /\ Len(c) \in Nat
    BY SMT
<1>2. /\ z \in Seq(Cell) /\ Len(z) = Len(c) - 0
      /\ \A j \in 1 .. Len(c) - 0 : z[j] = c[0 + j]
    BY <1>1, Rest
<1> HIDE DEF z
<1>3. Len(z) = Len(c) /\ \A j \in 1 .. Len(z) : z[j] = c[j]
    BY SMT, <1>1, <1>2
<1>4. z = c
    BY <1>2, <1>3, SeqEqual
<1> QED BY <1>4 DEF z

\* What one write() takes off what is unsent.
LEMMA UnsentSplit ==
    ASSUME NEW c \in Seq(Cell), NEW b \in Seq(Cell), NEW n \in Nat, NEW k \in Nat \ {0},
           n + k <= Len(b), Len(b) <= Len(c), \A j \in 1 .. Len(b) : b[j] = c[j]
    PROVE  /\ SubSeq(b, n + 1, n + k) \in Seq(Cell)
           /\ SubSeq(c, (n + k) + 1, Len(c)) \in Seq(Cell)
           /\ SubSeq(c, n + 1, Len(c))
                = Cat(SubSeq(b, n + 1, n + k), SubSeq(c, (n + k) + 1, Len(c)))
<1> DEFINE p == SubSeq(b, n + 1, n + k)
           t == SubSeq(c, (n + k) + 1, Len(c))
           z == SubSeq(c, n + 1, Len(c))
           v == p \o t
<1>0. Len(c) \in Nat /\ Len(b) \in Nat
    BY SMT
<1>1. p \in Seq(Cell) /\ Len(p) = k /\ \A j \in 1 .. k : p[j] = b[n + j]
    <2>1. k \in Nat
        OBVIOUS
    <2> QED BY SMT, <2>1, Part
<1>2. n + k \in 0 .. Len(c) /\ n \in 0 .. Len(c)
    BY SMT, <1>0
<1>3. /\ t \in Seq(Cell) /\ Len(t) = Len(c) - (n + k)
      /\ \A j \in 1 .. Len(c) - (n + k) : t[j] = c[(n + k) + j]
    BY <1>2, Rest
<1>4. /\ z \in Seq(Cell) /\ Len(z) = Len(c) - n
      /\ \A j \in 1 .. Len(c) - n : z[j] = c[n + j]
    BY <1>2, Rest
<1> HIDE DEF p, t, z
<1>5. p \in Seq(Cell) /\ t \in Seq(Cell)
    BY <1>1, <1>3
<1>v. Join(v, p, t)
    BY <1>5, JoinedCells
<1> HIDE DEF v
<1>6. /\ v \in Seq(Cell) /\ Len(v) = Len(p) + Len(t)
      /\ \A j \in 1 .. Len(p) : v[j] = p[j]
      /\ \A j \in 1 .. Len(t) : v[Len(p) + j] = t[j]
    BY <1>v DEF Join
<1>7. Len(v) = Len(z) /\ Len(v) = Len(c) - n
    <2>1. /\ Len(p) = k /\ Len(t) = Len(c) - (n + k) /\ Len(z) = Len(c) - n
          /\ Len(v) = Len(p) + Len(t)
        BY <1>1, <1>3, <1>4, <1>6
    <2> QED BY SMT, <1>0, <2>1
<1>8. ASSUME NEW i \in 1 .. Len(z) PROVE v[i] = z[i]
    <2>1. i \in 1 .. Len(c) - n /\ z[i] = c[n + i]
        BY <1>4
    <2>2. CASE i <= k
        <3>1. i \in 1 .. k /\ n + i \in 1 .. Len(b)
            BY SMT, <1>0, <2>1, <2>2
        <3>2. v[i] = p[i] /\ p[i] = b[n + i] /\ b[n + i] = c[n + i]
            BY <3>1, <1>1, <1>6
        <3> QED BY <2>1, <3>2
    <2>3. CASE ~(i <= k)
        <3> DEFINE j == i - k
        <3>1. /\ j \in 1 .. Len(c) - (n + k) /\ i = Len(p) + j /\ n + i = (n + k) + j
              /\ j \in 1 .. Len(t)
            BY SMT, <1>0, <1>1, <1>3, <2>1, <2>3
        <3> HIDE DEF j
        <3>2. v[Len(p) + j] = t[j] /\ t[j] = c[(n + k) + j]
            BY <3>1, <1>3, <1>6
        <3> QED BY <2>1, <3>1, <3>2
    <2> QED BY <2>2, <2>3
<1>9. v = z
    BY <1>4, <1>6, <1>7, <1>8, SeqEqual
<1> QED BY <1>5, <1>9 DEF v, p, t, z, Cat

-----------------------------------------------------------------------------
(* Messages stay on their way.                                             *)

\* The parts of the way.
LEMMA WayParts ==
    ASSUME IInv, NEW x \in Ends
    PROVE  /\ Other(x) \in Ends /\ cache[Other(x)] \in Seq(Cell)
           /\ Held(reader[Other(x)]) \in Seq(Cell) /\ wire[x] \in Seq(Cell)
           /\ up => Unsent(fdMutex[x], writer[x], sendCache[x]) \in Seq(Cell)
           /\ Way(x) \in Seq(Cell)
           /\ pushed[x] \in Seq(Msgs) /\ arrived[x] \in Seq(Msgs) /\ Len(arrived[x]) \in Nat
<1> DEFINE o == Other(x)
           u == Unsent(fdMutex[x], writer[x], sendCache[x])
<1>1. o \in Ends
    BY OtherEnd
<1>2. /\ cache[o] \in Seq(Cell) /\ wire[x] \in Seq(Cell) /\ sendCache[x] \in Seq(Cell)
      /\ pushed[x] \in Seq(Msgs) /\ arrived[x] \in Seq(Msgs)
      /\ reader[o] \in [Readers -> ReaderState] /\ writer[x] \in [Writers -> WriterState]
      /\ fdMutex[x] \in SUBSET Writers
    BY <1>1 DEF IInv, Types
<1>3. Held(reader[o]) \in Seq(Cell)
    BY <1>2, HeldType
<1>4. Len(arrived[x]) \in Nat
    BY SMT, <1>2
<1>5. ASSUME up PROVE u \in Seq(Cell)
    <2>1. OneWriter(up, fdMutex[x], writer[x], sendCache[x])
        BY DEF IInv
    <2>2. OneWriter(TRUE, fdMutex[x], writer[x], sendCache[x])
        BY <1>5, <2>1, OneWriterLost
    <2> QED BY <1>2, <2>2, UnsentType
<1>6. CASE up
    <2>1. Cat(cache[o], Cat(Held(reader[o]), Cat(wire[x], u))) \in Seq(Cell)
        BY <1>2, <1>3, <1>5, <1>6, CatType
    <2>2. Way(x) \in Seq(Cell)
        BY <1>6, <2>1 DEF Way, Flow, Whole
    <2> QED BY <1>1, <1>2, <1>3, <1>4, <1>5, <2>2
<1>7. CASE ~up
    <2>1. Cat(cache[o], Held(reader[o])) \in Seq(Cell)
        BY <1>2, <1>3, CatType
    <2>2. Way(x) \in Seq(Cell)
        BY <1>7, <2>1 DEF Way, Flow
    <2> QED BY <1>1, <1>2, <1>3, <1>4, <1>5, <2>2
<1> QED BY <1>6, <1>7

\* While the connection holds both ends have a buffer.
LEMMA BothBuffers ==
    ASSUME IInv, up
    PROVE  buffer = Ends /\ \A x \in Ends : Laid(Way(x), pushed[x], Len(arrived[x]), TRUE)
<1>1. buffer = Ends
    BY DEF IInv, Types, Lost
<1>2. up = TRUE
    BY DEF IInv, Types
<1>3. ASSUME NEW x \in Ends PROVE Laid(Way(x), pushed[x], Len(arrived[x]), TRUE)
    <2>1. Other(x) \in buffer /\ Carried(x)
        BY <1>1, OtherEnd DEF IInv
    <2>2. Laid(Way(x), pushed[x], Len(arrived[x]), up)
        BY <2>1 DEF Carried
    <2> QED BY <1>2, <2>2
<1> QED BY <1>1, <1>3

\* Nothing happens to what is on its way from x.
LEMMA SameWay ==
    ASSUME IInv, NEW x \in Ends, up' = up, buffer' \subseteq buffer,
           Other(x) \in buffer' =>
               /\ cache'[Other(x)] = cache[Other(x)]
               /\ Held(reader'[Other(x)]) = Held(reader[Other(x)]),
           up => /\ wire'[x] = wire[x]
                 /\ Unsent(fdMutex'[x], writer'[x], sendCache'[x])
                      = Unsent(fdMutex[x], writer[x], sendCache[x]),
           pushed'[x] = pushed[x], arrived'[x] = arrived[x]
    PROVE  Carried(x)'
<1> SUFFICES ASSUME Other(x) \in buffer'
             PROVE  Laid(Way(x)', pushed'[x], Len(arrived'[x]), up')
    BY DEF Carried
<1>1. Other(x) \in buffer
    OBVIOUS
<1>2. Laid(Way(x), pushed[x], Len(arrived[x]), up)
    BY <1>1 DEF Carried, IInv
<1>3. Way(x)' = Way(x)
    <2>1. CASE up
        BY <2>1 DEF Way
    <2>2. CASE ~up
        BY <2>2 DEF Way, Flow
    <2> QED BY <2>1, <2>2
<1> QED BY <1>2, <1>3

\* All that matters is unchanged.
LEMMA SameWays ==
    ASSUME IInv, NEW x \in Ends,
           UNCHANGED <<up, buffer, cache, reader, wire, fdMutex, writer, sendCache, pushed, arrived>>
    PROVE  Carried(x)'
<1>1. /\ up' = up /\ buffer' = buffer /\ cache' = cache /\ reader' = reader /\ wire' = wire
      /\ fdMutex' = fdMutex /\ writer' = writer /\ sendCache' = sendCache
      /\ pushed' = pushed /\ arrived' = arrived
    OBVIOUS
<1>2. buffer' \subseteq buffer
    BY <1>1
<1> QED BY <1>1, <1>2, SameWay

\* The connection is lost: what was on the wire or unsent is missing at the end.
LEMMA BreakCarries ==
    ASSUME IInv, NEW x \in Ends, Break
    PROVE  Carried(x)'
<1> DEFINE o == Other(x)
           c == cache[o]
           h == Held(reader[o])
           w == wire[x]
           u == Unsent(fdMutex[x], writer[x], sendCache[x])
<1>1. /\ up' = FALSE /\ buffer' = buffer /\ cache' = cache /\ reader' = reader
      /\ pushed' = pushed /\ arrived' = arrived
    BY DEF Break
<1>2. c \in Seq(Cell) /\ h \in Seq(Cell) /\ w \in Seq(Cell) /\ (up => u \in Seq(Cell))
      /\ pushed[x] \in Seq(Msgs) /\ Len(arrived[x]) \in Nat
    BY WayParts
<1>3. Way(x)' = Cat(c, h) /\ Cat(c, h) \in Seq(Cell)
    BY <1>1, <1>2, CatType DEF Way, Flow
<1> SUFFICES ASSUME o \in buffer
             PROVE  Laid(Cat(c, h), pushed[x], Len(arrived[x]), FALSE)
    BY <1>1, <1>3 DEF Carried
<1>4. CASE up
    <2>1. Laid(Way(x), pushed[x], Len(arrived[x]), TRUE)
        BY <1>4, BothBuffers
    <2>2. Way(x) = Whole(c, h, w, u)
        BY <1>4 DEF Way, Flow
    <2>3. Cat(w, u) \in Seq(Cell)
        BY <1>2, <1>4, CatType
    <2>4. Cat(Cat(c, h), Cat(w, u)) = Whole(c, h, w, u)
        <3> HIDE DEF c, h, w, u
        <3> QED BY SMT, <1>2, <1>4, WholeParts
    <2>5. Laid(Cat(c, h) \o Cat(w, u), pushed[x], Len(arrived[x]), TRUE)
        <3>1. Cat(Cat(c, h), Cat(w, u)) = Cat(c, h) \o Cat(w, u)
            BY DEF Cat
        <3> HIDE DEF c, h, w, u
        <3> QED BY <2>1, <2>2, <2>4, <3>1
    <2> HIDE DEF c, h, w, u
    <2> QED BY <1>2, <1>3, <2>3, <2>5, LaidPrefix
<1>5. CASE ~up
    <2>1. Laid(Way(x), pushed[x], Len(arrived[x]), up)
        BY DEF Carried, IInv
    <2>2. up = FALSE
        BY <1>5 DEF IInv, Types
    <2>3. Way(x) = Cat(c, h)
        BY <1>5 DEF Way, Flow
    <2> QED BY <2>1, <2>2, <2>3
<1> QED BY <1>4, <1>5

\* A buffer is erased after the connection was lost.
LEMMA DeleteCarries ==
    ASSUME IInv, NEW x \in Ends, NEW e \in Ends, ~up, DeleteByFd(e),
           \A d \in Ends : d # e => reader'[d] = reader[d], UNCHANGED <<pushed, arrived>>
    PROVE  Carried(x)'
<1>1. /\ up' = up /\ buffer' = buffer \ {e} /\ pushed' = pushed /\ arrived' = arrived
    BY DEF DeleteByFd
<1>2. \A d \in Ends : d # e => cache'[d] = cache[d]
    BY DEF DeleteByFd, IInv, Types
<1>3. buffer' \subseteq buffer /\ e \notin buffer'
    BY <1>1
<1>4. Other(x) \in Ends
    BY OtherEnd
<1>5. Other(x) \in buffer' => Other(x) # e
    BY <1>3
<1> QED BY <1>1, <1>2, <1>3, <1>4, <1>5, SameWay

\* AddWritePack: the message is the last on its way; over a lost connection it
\* is among the missing.
LEMMA AddWritePackCarries ==
    ASSUME IInv, NEW x \in Ends, NEW e \in Ends, NEW m \in Msgs, AddWritePack(e, m)
    PROVE  Carried(x)'
<1> DEFINE o == Other(x)
           c == cache[o]
           h == Held(reader[o])
           w == wire[x]
           u == Unsent(fdMutex[x], writer[x], sendCache[x])
           p == Cells(m)
<1>1. /\ up' = up /\ buffer' = buffer /\ cache' = cache /\ reader' = reader /\ wire' = wire
      /\ fdMutex' = fdMutex /\ writer' = writer /\ arrived' = arrived
    BY DEF AddWritePack, link
<1>2. buffer' \subseteq buffer
    BY <1>1
<1>3. sendCache \in [Ends -> Seq(Cell)] /\ pushed \in [Ends -> Seq(Msgs)]
    BY DEF IInv, Types
<1>4. CASE x # e \/ e \notin buffer
    <2>1. sendCache'[x] = sendCache[x] /\ pushed'[x] = pushed[x]
        BY <1>3, <1>4 DEF AddWritePack
    <2> QED BY <1>1, <1>2, <2>1, SameWay
<1>5. CASE x = e /\ e \in buffer
    <2>1. sendCache'[x] = Cat(sendCache[x], p) /\ pushed'[x] = Append(pushed[x], m)
        BY <1>3, <1>5 DEF AddWritePack, Cat
    <2>2. c \in Seq(Cell) /\ h \in Seq(Cell) /\ w \in Seq(Cell) /\ (up => u \in Seq(Cell))
          /\ pushed[x] \in Seq(Msgs) /\ Len(arrived[x]) \in Nat /\ Way(x) \in Seq(Cell)
        BY WayParts
    <2>3. p \in Seq(Cell)
        BY CellsType
    <2>4. CASE up
        <3>1. Laid(Way(x), pushed[x], Len(arrived[x]), TRUE) /\ up = TRUE
            BY <2>4, BothBuffers DEF IInv, Types
        <3>2. Unsent(fdMutex[x], writer[x], Cat(sendCache[x], p)) = Cat(u, p)
            <4>1. OneWriter(up, fdMutex[x], writer[x], sendCache[x])
                BY DEF IInv
            <4>2. OneWriter(TRUE, fdMutex[x], writer[x], sendCache[x])
                BY <2>4, <4>1, OneWriterLost
            <4>3. /\ fdMutex[x] \in SUBSET Writers /\ writer[x] \in [Writers -> WriterState]
                  /\ sendCache[x] \in Seq(Cell)
                BY DEF IInv, Types
            <4> QED BY <2>3, <4>2, <4>3, UnsentAppend
        <3>3. Way(x)' = Whole(c, h, w, Cat(u, p))
            BY <1>1, <2>1, <2>4, <3>2 DEF Way, Flow
        <3>4. Way(x) = Whole(c, h, w, u)
            BY <2>4 DEF Way, Flow
        <3>5. Way(x)' = Way(x) \o p
            <4>1. Whole(c, h, w, Cat(u, p)) = Cat(Whole(c, h, w, u), p)
                <5>1. u \in Seq(Cell)
                    BY <2>2, <2>4
                <5> HIDE DEF c, h, w, u, p
                <5> QED BY SMT, <2>2, <2>3, <5>1, WholeSend
            <4>2. Way(x)' = Cat(Way(x), p)
                BY <3>3, <3>4, <4>1
            <4> QED BY <4>2 DEF Cat
        <3>6. Laid(Way(x) \o p, Append(pushed[x], m), Len(arrived[x]), TRUE)
            <4> DEFINE way == Way(x)
            <4> HIDE DEF way
            <4> QED BY <2>2, <3>1, LaidAppend DEF way
        <3>7. Laid(Way(x)', pushed'[x], Len(arrived'[x]), up')
            BY <1>1, <2>1, <3>1, <3>5, <3>6
        <3> QED BY <3>7 DEF Carried
    <2>5. CASE ~up
        <3>1. Way(x)' = Way(x)
            BY <1>1, <2>5 DEF Way, Flow
        <3>2. up' = FALSE
            BY <1>1, <2>5 DEF IInv, Types
        <3>3. ASSUME o \in buffer
              PROVE  Laid(Way(x), Append(pushed[x], m), Len(arrived[x]), FALSE)
            <4>1. Laid(Way(x), pushed[x], Len(arrived[x]), up)
                BY <3>3 DEF Carried, IInv
            <4> DEFINE way == Way(x)
            <4> HIDE DEF way
            <4> QED BY <2>2, <4>1, LaidLonger DEF way
        <3> QED BY <1>1, <2>1, <3>1, <3>2, <3>3 DEF Carried
    <2> QED BY <2>4, <2>5
<1> QED BY <1>4, <1>5

\* The write threads move cells from _sendCache to the wire.
LEMMA WriteCarries ==
    ASSUME IInv, NEW x \in Ends, NEW e \in Ends, NEW v \in Writers, WriteThread(e, v)
    PROVE  Carried(x)'
<1> DEFINE u == Unsent(fdMutex[x], writer[x], sendCache[x])
           uu == Unsent(fdMutex'[x], writer'[x], sendCache'[x])
<1>0. Types /\ writer \in [Ends -> [Writers -> WriterState]] /\ fdMutex \in [Ends -> SUBSET Writers]
      /\ sendCache \in [Ends -> Seq(Cell)] /\ wire \in [Ends -> Seq(Cell)]
    BY DEF IInv, Types
<1>1. reader' = reader /\ pushed' = pushed /\ arrived' = arrived
    BY DEF WriteThread, WriteTake, WriteCopy, Send, PopNWriteBufferQueue, link
<1>2. CASE ~up /\ Send(e, v)
    <2>1. DeleteByFd(e)
        BY <1>2 DEF Send
    <2> QED BY <1>1, <1>2, <2>1, DeleteCarries
<1>3. CASE ~up /\ ~Send(e, v)
    <2>1. up' = up /\ buffer' = buffer /\ cache' = cache
        BY <1>3 DEF WriteThread, WriteTake, WriteCopy, PopNWriteBufferQueue, link
    <2>2. buffer' \subseteq buffer
        BY <2>1
    <2> QED BY <1>1, <1>3, <2>1, <2>2, SameWay
<1>4. CASE up
    <2>0. up' = up /\ buffer' = buffer /\ cache' = cache
        BY <1>4 DEF WriteThread, WriteTake, WriteCopy, Send, PopNWriteBufferQueue, link
    <2>1. buffer' \subseteq buffer
        BY <2>0
    <2>2. ASSUME uu = u, wire'[x] = wire[x] PROVE Carried(x)'
        BY <1>1, <2>0, <2>1, <2>2, SameWay
    <2>3. PICK t \in WriterState : writer' = [writer EXCEPT ![e][v] = t]
        BY <1>0, WriterStep
    <2>4. /\ writer'[e][v] = t
          /\ \A z \in Writers : z # v => writer'[e][z] = writer[e][z]
          /\ \A d \in Ends : d # e => writer'[d] = writer[d]
        BY SMT, <1>0, <2>3, RowSet
    <2>5. CASE x # e
        <3>1. fdMutex'[x] = fdMutex[x] /\ sendCache'[x] = sendCache[x] /\ wire'[x] = wire[x]
            BY <1>0, <1>4, <2>5 DEF WriteThread, WriteTake, WriteCopy, Send,
                PopNWriteBufferQueue, link
        <3> QED BY <2>2, <2>4, <2>5, <3>1
    <2>6. CASE x = e
        <3>0. OneWriter(up, fdMutex[x], writer[x], sendCache[x])
            BY DEF IInv
        <3>1. CASE WriteTake(e, v)
            <4>1. ~Writes(writer[x][v]) /\ UNCHANGED <<fdMutex, sendCache, wire>>
                BY <2>6, <3>1 DEF WriteTake, Writes, link
            <4>2. \A z \in fdMutex[x] : z \in Writers /\ z # v
                BY <1>0, <3>0, <4>1 DEF OneWriter
            <4>3. \A z \in fdMutex[x] : writer'[x][z].n = writer[x][z].n
                BY <2>4, <2>6, <4>2
            <4>4. Unsent(fdMutex[x], writer'[x], sendCache[x]) = u
                BY <4>3, UnsentSame
            <4> QED BY <2>2, <4>1, <4>4
        <3>2. CASE WriteCopy(e, v)
            <4>1. fdMutex[x] = {} /\ UNCHANGED <<sendCache, wire>>
                BY <2>6, <3>2 DEF WriteCopy, link
            <4>2. u = sendCache[x]
                BY <4>1, UnsentAll
            <4>3. CASE fdMutex' = fdMutex
                BY <2>2, <4>1, <4>2, <4>3, UnsentAll
            <4>4. CASE fdMutex' # fdMutex
                <5> DEFINE r == [at |-> "send", buff |-> sendCache[e], n |-> 0]
                <5>1. fdMutex' = [fdMutex EXCEPT ![e] = {v}] /\ writer' = [writer EXCEPT ![e][v] = r]
                    BY <3>2, <4>4 DEF WriteCopy
                <5>2. fdMutex'[x] = {v} /\ writer'[x][v].n = 0
                    BY <1>0, <2>6, <5>1
                <5>3. uu = SubSeq(sendCache[x], 0 + 1, Len(sendCache[x]))
                    <6>1. Unsent({v}, writer'[x], sendCache[x])
                            = SubSeq(sendCache[x], writer'[x][v].n + 1, Len(sendCache[x]))
                        BY UnsentRest
                    <6> QED BY <4>1, <5>2, <6>1
                <5>4. uu = u
                    BY <1>0, <4>2, <5>3, CutNone
                <5> QED BY <2>2, <4>1, <5>4
            <4> QED BY <4>3, <4>4
        <3>3. CASE Send(e, v)
            <4> DEFINE me == writer[x][v]
                       k == Written(x, v)
                       sc == sendCache[x]
            <4>1. Writes(me)
                BY <2>6, <3>3 DEF Send, Writes
            <4>2. /\ fdMutex[x] = {v} /\ me.n <= Len(me.buff) /\ Len(me.buff) <= Len(sc)
                  /\ \A j \in 1 .. Len(me.buff) : me.buff[j] = sc[j]
                BY <1>4, <3>0, <4>1 DEF OneWriter
            <4>3. /\ fdMutex' = fdMutex /\ sendCache' = sendCache
                  /\ \/ /\ k \in Nat \ {0} /\ writer'[x][v].n = me.n + k
                        /\ writer'[x][v].n <= Len(me.buff)
                        /\ wire' = [wire EXCEPT ![x] = Cat(@, SubSeq(me.buff, me.n + 1, me.n + k))]
                     \/ writer'[x][v].n = me.n /\ wire' = wire
                BY <1>0, <1>4, <2>6, <3>3, <4>2, SentState
            <4>4. u = SubSeq(sc, me.n + 1, Len(sc))
                <5>1. Unsent({v}, writer[x], sc) = SubSeq(sc, me.n + 1, Len(sc))
                    BY UnsentRest
                <5> QED BY <4>2, <5>1
            <4>5. uu = SubSeq(sc, writer'[x][v].n + 1, Len(sc))
                <5>1. Unsent({v}, writer'[x], sc) = SubSeq(sc, writer'[x][v].n + 1, Len(sc))
                    BY UnsentRest
                <5> QED BY <4>2, <4>3, <5>1
            <4>6. CASE writer'[x][v].n = me.n /\ wire' = wire
                BY <2>2, <4>4, <4>5, <4>6
            <4>7. CASE /\ k \in Nat \ {0} /\ writer'[x][v].n = me.n + k
                       /\ writer'[x][v].n <= Len(me.buff)
                       /\ wire' = [wire EXCEPT ![x] = Cat(@, SubSeq(me.buff, me.n + 1, me.n + k))]
                <5> DEFINE p == SubSeq(me.buff, me.n + 1, me.n + k)
                           w == wire[x]
                           c == cache[Other(x)]
                           h == Held(reader[Other(x)])
                <5>1. me.n \in Nat /\ me.buff \in Seq(Cell) /\ sc \in Seq(Cell)
                    BY <1>0, WriterParts
                <5>2. p \in Seq(Cell) /\ uu \in Seq(Cell) /\ u = Cat(p, uu)
                    <6>1. me.n + k <= Len(me.buff)
                        BY <4>7
                    <6> DEFINE b == me.buff
                               n == me.n
                    <6> HIDE DEF k, sc, b, n
                    <6>2. /\ SubSeq(b, n + 1, n + k) \in Seq(Cell)
                          /\ SubSeq(sc, (n + k) + 1, Len(sc)) \in Seq(Cell)
                          /\ SubSeq(sc, n + 1, Len(sc))
                               = Cat(SubSeq(b, n + 1, n + k), SubSeq(sc, (n + k) + 1, Len(sc)))
                        <7>1. /\ n \in Nat /\ b \in Seq(Cell) /\ sc \in Seq(Cell)
                              /\ k \in Nat \ {0} /\ n + k <= Len(b) /\ Len(b) <= Len(sc)
                              /\ \A j \in 1 .. Len(b) : b[j] = sc[j]
                            BY <4>2, <4>7, <5>1, <6>1 DEF b, n
                        <7> QED BY <7>1, UnsentSplit
                    <6> QED BY <4>4, <4>5, <4>7, <6>2 DEF b, n
                <5>3. wire'[x] = Cat(w, p)
                    BY <1>0, <4>7
                <5>4. c \in Seq(Cell) /\ h \in Seq(Cell) /\ w \in Seq(Cell)
                    BY WayParts
                <5> HIDE DEF p, u, uu, c, h, w
                <5>5. Whole(c, h, Cat(w, p), uu) = Whole(c, h, w, Cat(p, uu))
                    BY SMT, <5>2, <5>4, WholeWrite
                <5>6. Flow(up, c, h, Cat(w, p), uu) = Flow(up, c, h, w, u)
                    BY <1>4, <5>2, <5>5 DEF Flow
                <5>7. Way(x)' = Way(x)
                    BY <1>1, <2>0, <5>3, <5>6 DEF Way, u, uu, c, h, w
                <5>8. Carried(x)
                    BY DEF IInv
                <5> QED BY <1>1, <2>0, <5>7, <5>8 DEF Carried
            <4> QED BY <4>3, <4>6, <4>7
        <3>4. CASE PopNWriteBufferQueue(e, v)
            <4> DEFINE n == writer[x][v].n
                       sc == sendCache[x]
            <4>1. /\ Writes(writer[x][v]) /\ wire' = wire
                  /\ sendCache' = [sendCache EXCEPT ![e] = PopN(@, writer[e][v].n)]
                  /\ fdMutex' = [fdMutex EXCEPT ![e] = {}]
                BY <2>6, <3>4 DEF PopNWriteBufferQueue, Writes, link
            <4>2. fdMutex'[x] = {} /\ sendCache'[x] = PopN(sc, n)
                BY <1>0, <2>6, <4>1
            <4>3. /\ fdMutex[x] = {v} /\ n <= Len(writer[x][v].buff)
                  /\ Len(writer[x][v].buff) <= Len(sc)
                BY <1>4, <3>0, <4>1 DEF OneWriter
            <4>4. n <= Len(sc)
                <5>1. n \in Nat /\ writer[x][v].buff \in Seq(Cell) /\ sc \in Seq(Cell)
                    BY <1>0, WriterParts
                <5>2. Len(writer[x][v].buff) \in Nat /\ Len(sc) \in Nat
                    BY <5>1, SMTT(30)
                <5>3. \A i, j, l \in Nat : i <= j /\ j <= l => i <= l
                    BY SMT
                <5> QED BY <4>3, <5>1, <5>2, <5>3
            <4>5. PopN(sc, n) = SubSeq(sc, n + 1, Len(sc))
                BY <4>4 DEF PopN
            <4>6. u = SubSeq(sc, n + 1, Len(sc))
                BY <4>3, UnsentRest
            <4>7. uu = PopN(sc, n)
                BY <4>2, UnsentAll
            <4> QED BY <2>2, <4>1, <4>5, <4>6, <4>7
        <3> QED BY <3>1, <3>2, <3>3, <3>4 DEF WriteThread
    <2> QED BY <2>5, <2>6
<1> QED BY <1>2, <1>3, <1>4

\* The piece is the one of the read thread that serves the fd.
LEMMA HeldStep ==
    ASSUME Types, NEW e \in Ends, Readership(e), NEW r \in Readers, ReadThread(e, r)
    PROVE  /\ reader[e][r].at # "add" => Held(reader[e]) = <<>>
           /\ reader[e][r].at = "add" => Held(reader[e]) = reader[e][r].buff
           /\ reader'[e][r].at # "add" => Held(reader'[e]) = <<>>
           /\ reader'[e][r].at = "add" => Held(reader'[e]) = reader'[e][r].buff
           /\ \A d \in Ends : d # e => reader'[d] = reader[d]
<1>1. PICK t \in ReaderState : reader' = [reader EXCEPT ![e][r] = t]
    BY ReaderStep
<1>2. /\ \A q \in Readers : q # r => reader'[e][q] = reader[e][q]
      /\ \A d \in Ends : d # e => reader'[d] = reader[d]
    <2>1. reader \in [Ends -> [Readers -> ReaderState]]
        BY DEF Types
    <2> QED BY SMT, <1>1, <2>1, RowSet
<1>3. \A q \in Readers : q # r => ~Reads(reader[e][q])
    <2>1. CASE ReadTake(e, r)
        <3>1. queueRead[e] # 0
            BY <2>1 DEF ReadTake, IsEmpty
        <3> QED BY <3>1 DEF Readership, OneReader
    <2>2. CASE ~ReadTake(e, r)
        <3>1. Reads(reader[e][r])
            BY <2>2 DEF ReadThread, Read, AddDataToReadBuf, SendPkToMessQueue, ReadAgain, Reads
        <3> QED BY <3>1 DEF Readership, OneReader
    <2> QED BY <2>1, <2>2
<1>4. \A q \in Readers : q # r => reader[e][q].at # "add"
    BY <1>3 DEF Reads
<1>5. \A q \in Readers : q # r => reader'[e][q].at # "add"
    BY <1>2, <1>4
<1>6. ASSUME NEW th, \A q \in Readers : q # r => th[q].at # "add"
      PROVE  /\ th[r].at # "add" => Held(th) = <<>>
             /\ th[r].at = "add" => Held(th) = th[r].buff
    <2>1. ASSUME th[r].at # "add" PROVE Held(th) = <<>>
        <3>1. \A q \in Readers : th[q].at # "add"
            BY <1>6, <2>1
        <3> QED BY <3>1, HeldNone
    <2>2. ASSUME th[r].at = "add" PROVE Held(th) = th[r].buff
        <3>1. \A q \in Readers : th[q].at = "add" => q = r
            BY <1>6
        <3> QED BY <2>2, <3>1, HeldOne
    <2> QED BY <2>1, <2>2
<1> QED BY <1>2, <1>4, <1>5, <1>6

\* SendPkToMessQueue: the cache begins with the next message, and it is cut
\* off whole.
LEMMA CutMessage ==
    ASSUME IInv, NEW e \in Ends, NEW r \in Readers, SendPkToMessQueue(e, r)
    PROVE  LET x == Other(e)
               a == Len(arrived[x])
               m == pushed[x][a + 1]
           IN  /\ a + 1 \in 1 .. Len(pushed[x]) /\ m \in Msgs
               /\ arrived' = [arrived EXCEPT ![x] = Append(@, m)]
               /\ len[m] \in 0 .. Len(cache[e])
               /\ cache' = [cache EXCEPT ![e] = SubSeq(@, len[m] + 1, Len(@))]
               /\ cache[e] # <<>> /\ e \in buffer
               /\ Laid(Way(x), pushed[x], a, up)
               /\ Len(cache[e]) <= Len(Way(x)) /\ Way(x) # <<>>
<1> DEFINE x == Other(e)
           a == Len(arrived[x])
           m == pushed[x][a + 1]
           c == cache[e]
           h == Held(reader[e])
           w == wire[x]
           u == Unsent(fdMutex[x], writer[x], sendCache[x])
           way == Way(x)
           q == pushed[x]
<1>1. x \in Ends /\ Other(x) = e
    BY OtherEnd
<1>2. /\ c \in Seq(Cell) /\ h \in Seq(Cell) /\ w \in Seq(Cell) /\ way \in Seq(Cell)
      /\ (up => u \in Seq(Cell)) /\ q \in Seq(Msgs) /\ a \in Nat
    BY <1>1, WayParts
<1>3. c # <<>> /\ Len(c) >= len[Head(c)[1]]
    BY DEF SendPkToMessQueue, Complete
<1>4. e \in buffer
    BY <1>3 DEF IInv, Lost
<1>5. Laid(way, q, a, up)
    BY <1>1, <1>4 DEF IInv, Carried
<1>6. Len(c) <= Len(way) /\ \A j \in 1 .. Len(c) : way[j] = c[j]
    <2> DEFINE t == Behind(up, h, w, u)
    <2>1. way = Cat(c, t)
        BY <1>1, FlowBehind DEF Way
    <2>2. t \in Seq(Cell)
        BY <1>2, CatType DEF Behind
    <2> HIDE DEF c, t, way
    <2> QED BY <1>2, <2>1, <2>2, CatPrefix
<1> HIDE DEF c, h, w, u, way, q, a
<1>7. Len(c) \in Nat \ {0} /\ Len(way) \in Nat
    BY SMT, <1>2, <1>3, EmptySeq
<1>8. way # <<>>
    BY SMT, <1>6, <1>7
<1>9. /\ a + 1 \in 1 .. Len(q) /\ m \in Msgs /\ way[1] = <<m, 1>>
      /\ \A j \in 1 .. len[m] : j <= Len(way) => way[j] = <<m, j>>
    BY <1>2, <1>5, <1>8, LaidHead DEF q, a
<1> HIDE DEF m
<1>10. Head(c)[1] = m
    <2>1. 1 \in 1 .. Len(c)
        BY SMT, <1>7
    <2>2. Head(c) = c[1]
        BY SMT, <1>2, <1>3
    <2>3. Head(c) = <<m, 1>>
        BY <1>6, <1>9, <2>1, <2>2
    <2> QED BY SMT, <2>3
<1>11. len[m] \in Nat \ {0} /\ len[m] <= Len(c)
    BY <1>3, <1>7, <1>9, <1>10, CellsType
<1>12. SubSeq(c, 1, len[m]) = Cells(m)
    <2> DEFINE l == len[m]
               s == SubSeq(c, 1, l)
               t == Cells(m)
    <2>1. t \in Seq(Cell) /\ Len(t) = l /\ \A j \in 1 .. l : t[j] = <<m, j>>
        BY <1>9, CellsType
    <2>2. s \in Seq(Cell) /\ Len(s) = l /\ \A j \in 1 .. l : s[j] = c[j]
        <3>1. \A i \in 1 .. l : c[i] \in Cell
            BY SMT, <1>2, <1>11, ElementOfSeq
        <3>2. l \in Int /\ 1 \in Int
            BY <1>11, SMTT(30)
        <3> HIDE DEF l
        <3>3. /\ s \in Seq(Cell) /\ Len(s) = IF 1 <= l THEN l - 1 + 1 ELSE 0
              /\ \A i \in 1 .. l - 1 + 1 : s[i] = c[1 + i - 1]
            BY <1>2, <3>1, <3>2, SubSeqProperties, SMTT(30)
        <3> HIDE DEF s
        <3>4. Len(s) = l /\ l - 1 + 1 = l /\ \A i \in 1 .. l : 1 + i - 1 = i
            BY SMT, <3>2, <3>3, <1>11 DEF l
        <3> QED BY <3>3, <3>4
    <2> HIDE DEF s, t
    <2>3. \A j \in 1 .. l : j \in 1 .. Len(c) /\ j <= Len(way)
        BY SMT, <1>6, <1>7, <1>11
    <2>4. \A j \in 1 .. l : s[j] = t[j]
        BY <1>6, <1>9, <2>1, <2>2, <2>3
    <2>5. s = t
        BY <2>1, <2>2, <2>4, SeqEqual
    <2> QED BY <2>5 DEF s, t
<1>13. /\ cache' = [cache EXCEPT ![e] = SubSeq(@, len[m] + 1, Len(@))]
       /\ arrived' = [arrived EXCEPT ![x] = Append(@, m)]
    <2>1. Head(cache[e])[1] = m /\ SubSeq(cache[e], 1, len[m]) = Cells(m)
        BY <1>10, <1>12 DEF c
    <2> QED BY <2>1 DEF SendPkToMessQueue
<1>14. len[m] \in 0 .. Len(c)
    BY SMT, <1>7, <1>11
<1> QED BY <1>3, <1>4, <1>5, <1>6, <1>8, <1>9, <1>13, <1>14 DEF c, way, q, a, m

\* What there is on the way to the end whose read thread takes a step.
Passing(x, e, r) == LET u == Unsent(fdMutex[x], writer[x], sendCache[x]) IN
    /\ e = Other(x) /\ x = Other(e)
    /\ cache[e] \in Seq(Cell) /\ Held(reader[e]) \in Seq(Cell) /\ wire[x] \in Seq(Cell)
    /\ (up => u \in Seq(Cell)) /\ Way(x) \in Seq(Cell)
    /\ pushed[x] \in Seq(Msgs) /\ Len(arrived[x]) \in Nat
    /\ Way(x) = Flow(up, cache[e], Held(reader[e]), wire[x], u)
    /\ Way(x)' = Flow(up, cache'[e], Held(reader'[e]), wire'[x], u)
    /\ reader[e][r].at # "add" => Held(reader[e]) = <<>>
    /\ reader[e][r].at = "add" => Held(reader[e]) = reader[e][r].buff
    /\ reader'[e][r].at # "add" => Held(reader'[e]) = <<>>
    /\ reader'[e][r].at = "add" => Held(reader'[e]) = reader'[e][r].buff
    /\ (arrived' = arrived /\ Way(x)' = Way(x) => Carried(x)')

\* The variables a read thread leaves alone, and the types of the others.
LEMMA ReadFrame ==
    ASSUME IInv, NEW e \in Ends, NEW r \in Readers, ReadThread(e, r)
    PROVE  /\ fdMutex' = fdMutex /\ writer' = writer /\ pushed' = pushed
           /\ ~(Read(e, r) /\ ~up /\ DeleteByFd(e)) => up' = up /\ buffer' = buffer /\ sendCache' = sendCache
           /\ reader \in [Ends -> [Readers -> ReaderState]]
           /\ cache \in [Ends -> Seq(Cell)] /\ wire \in [Ends -> Seq(Cell)]
           /\ arrived \in [Ends -> Seq(Msgs)]
<1>1. fdMutex' = fdMutex /\ writer' = writer /\ pushed' = pushed
    BY DEF ReadThread, ReadTake, Read, AddDataToReadBuf, SendPkToMessQueue, ReadAgain
<1>2. ASSUME ~(Read(e, r) /\ ~up /\ DeleteByFd(e))
      PROVE  up' = up /\ buffer' = buffer /\ sendCache' = sendCache
    BY <1>2 DEF ReadThread, ReadTake, Read, ReadPiece, ReadEmpty, AddDataToReadBuf,
        SendPkToMessQueue, ReadAgain, link
<1>3. /\ reader \in [Ends -> [Readers -> ReaderState]]
      /\ cache \in [Ends -> Seq(Cell)] /\ wire \in [Ends -> Seq(Cell)]
      /\ arrived \in [Ends -> Seq(Msgs)]
    BY DEF IInv, Types
<1> QED BY <1>1, <1>2, <1>3

\* A read thread does nothing to what its own end has sent.
LEMMA ReadOwn ==
    ASSUME IInv, NEW e \in Ends, NEW r \in Readers, ReadThread(e, r),
           ~(Read(e, r) /\ ~up /\ DeleteByFd(e))
    PROVE  Carried(e)'
<1>1. \A d \in Ends : d # e => reader'[d] = reader[d]
    <2>1. Types /\ Readership(e)
        BY DEF IInv, Readership
    <2> QED BY <2>1, HeldStep
<1>2. /\ fdMutex' = fdMutex /\ writer' = writer /\ pushed' = pushed
      /\ up' = up /\ buffer' = buffer /\ sendCache' = sendCache
      /\ cache \in [Ends -> Seq(Cell)] /\ wire \in [Ends -> Seq(Cell)] /\ arrived \in [Ends -> Seq(Msgs)]
    BY ReadFrame
<1>3. Other(e) \in Ends /\ Other(e) # e
    BY OtherEnd
<1>4. cache'[Other(e)] = cache[Other(e)] /\ wire'[e] = wire[e] /\ arrived'[e] = arrived[e]
    <2>1. CASE SendPkToMessQueue(e, r)
        <3>1. wire' = wire
            BY <2>1 DEF SendPkToMessQueue, link
        <3> QED BY <1>2, <1>3, <2>1, <3>1 DEF SendPkToMessQueue
    <2>2. CASE Read(e, r)
        BY <1>2, <1>3, <2>2 DEF Read, ReadPiece, TakenFrom, ReadEmpty
    <2>3. CASE ReadTake(e, r) \/ ReadAgain(e, r)
        BY <2>3 DEF ReadTake, ReadAgain, link
    <2>4. CASE AddDataToReadBuf(e, r)
        BY <1>2, <1>3, <2>4 DEF AddDataToReadBuf, link
    <2> QED BY <2>1, <2>2, <2>3, <2>4 DEF ReadThread
<1>5. buffer' \subseteq buffer
    BY <1>2
<1> QED BY <1>1, <1>2, <1>3, <1>4, <1>5, SameWay

\* What it serves is what the other end has sent.
LEMMA ReadPassing ==
    ASSUME IInv, NEW x \in Ends, NEW e \in Ends, x # e, NEW r \in Readers, ReadThread(e, r),
           ~(Read(e, r) /\ ~up /\ DeleteByFd(e))
    PROVE  Passing(x, e, r)
<1> DEFINE u == Unsent(fdMutex[x], writer[x], sendCache[x])
<1>0. Types /\ Readership(e)
    BY DEF IInv, Readership
<1>1. /\ reader[e][r].at # "add" => Held(reader[e]) = <<>>
      /\ reader[e][r].at = "add" => Held(reader[e]) = reader[e][r].buff
      /\ reader'[e][r].at # "add" => Held(reader'[e]) = <<>>
      /\ reader'[e][r].at = "add" => Held(reader'[e]) = reader'[e][r].buff
    BY <1>0, HeldStep
<1>2. e = Other(x) /\ x = Other(e)
    BY OtherEnd
<1>3. /\ cache[e] \in Seq(Cell) /\ Held(reader[e]) \in Seq(Cell) /\ wire[x] \in Seq(Cell)
      /\ (up => u \in Seq(Cell)) /\ Way(x) \in Seq(Cell)
      /\ pushed[x] \in Seq(Msgs) /\ Len(arrived[x]) \in Nat
    BY <1>2, WayParts
<1>4. Way(x) = Flow(up, cache[e], Held(reader[e]), wire[x], u)
    BY <1>2 DEF Way
<1>5. /\ fdMutex' = fdMutex /\ writer' = writer /\ pushed' = pushed
      /\ up' = up /\ buffer' = buffer /\ sendCache' = sendCache
    BY ReadFrame
<1>6. Way(x)' = Flow(up, cache'[e], Held(reader'[e]), wire'[x], u)
    BY <1>2, <1>5 DEF Way
<1>7. ASSUME arrived' = arrived, Way(x)' = Way(x)
      PROVE  Carried(x)'
    BY <1>5, <1>7 DEF Carried, IInv
<1> QED BY <1>1, <1>2, <1>3, <1>4, <1>6, <1>7 DEF Passing

\* Nothing was read, or a read begins.
LEMMA ReadIdle ==
    ASSUME IInv, NEW x \in Ends, NEW e \in Ends, NEW r \in Readers, Passing(x, e, r),
           ReadTake(e, r) \/ ReadAgain(e, r) \/ (Read(e, r) /\ ReadEmpty(e, r))
    PROVE  Carried(x)'
<1>0. reader \in [Ends -> [Readers -> ReaderState]]
    BY DEF IInv, Types
<1>1. reader[e][r].at # "add" /\ cache' = cache /\ wire' = wire /\ arrived' = arrived
    <2>1. CASE ReadTake(e, r)
        <3>1. reader[e][r].at = "rest" /\ cache' = cache /\ wire' = wire /\ arrived' = arrived
            BY <2>1 DEF ReadTake, link
        <3> QED BY <3>1
    <2>2. CASE ReadAgain(e, r)
        <3>1. reader[e][r].at = "cut" /\ cache' = cache /\ wire' = wire /\ arrived' = arrived
            BY <2>2 DEF ReadAgain
        <3> QED BY <3>1
    <2>3. CASE Read(e, r) /\ ReadEmpty(e, r)
        <3>1. reader[e][r].at = "read" /\ arrived' = arrived
            BY <2>3 DEF Read
        <3>2. cache' = cache /\ wire' = wire
            BY <2>3 DEF ReadEmpty
        <3> QED BY <3>1, <3>2
    <2> QED BY <2>1, <2>2, <2>3
<1>2. reader'[e][r].at # "add"
    <2>1. CASE ReadTake(e, r)
        <3>1. reader'[e][r] = [reader[e][r] EXCEPT !.at = "read"] /\ reader[e][r] \in ReaderState
            BY <1>0, <2>1 DEF ReadTake
        <3>2. reader'[e][r].at = "read"
            BY <3>1, ReaderStates
        <3> QED BY <3>2
    <2>2. CASE ReadAgain(e, r)
        BY SMT, <1>0, <2>2 DEF ReadAgain, Resting
    <2>3. CASE Read(e, r) /\ ReadEmpty(e, r)
        BY <1>0, <2>3 DEF ReadEmpty, Resting
    <2> QED BY <2>1, <2>2, <2>3
<1>3. Held(reader[e]) = <<>> /\ Held(reader'[e]) = <<>>
    BY <1>1, <1>2 DEF Passing
<1>4. Way(x)' = Way(x)
    BY <1>1, <1>3 DEF Passing
<1> QED BY <1>1, <1>4 DEF Passing

\* Cells are read from the wire.
LEMMA ReadPieceCarries ==
    ASSUME IInv, NEW x \in Ends, NEW e \in Ends, NEW r \in Readers, Passing(x, e, r),
           Read(e, r), ~ReadEmpty(e, r), ~(~up /\ DeleteByFd(e))
    PROVE  Carried(x)'
<1> DEFINE c == cache[e]
           h == Held(reader[e])
           hh == Held(reader'[e])
           w == wire[x]
           u == Unsent(fdMutex[x], writer[x], sendCache[x])
           n == Piece(e)
           p == SubSeq(w, 1, n)
           z == SubSeq(w, n + 1, Len(w))
<1>0. /\ Types /\ reader \in [Ends -> [Readers -> ReaderState]] /\ wire \in [Ends -> Seq(Cell)]
    BY DEF IInv, Types
<1>1. /\ c \in Seq(Cell) /\ w \in Seq(Cell) /\ (up => u \in Seq(Cell)) /\ x = Other(e)
    BY DEF Passing
<1>2. n > 0 /\ ReadPiece(e, r, n) /\ arrived' = arrived /\ reader[e][r].at = "read"
    BY DEF Read, Piece
<1>3. n \in 0 .. Len(w) /\ p \in Seq(Cell) /\ Cat(p, z) = w
    BY <1>0, <1>1, PieceType
<1>4. z \in Seq(Cell)
    BY <1>1, <1>3, Rest
<1>5. up
    <2> HIDE DEF n, w
    <2>1. w # <<>>
        BY <1>1, <1>2, <1>3, HasPiece
    <2> QED BY <2>1 DEF IInv, Lost, w
<1> HIDE DEF n
<1>6. cache' = cache /\ wire'[x] = z
    BY <1>0, <1>1, <1>2 DEF ReadPiece, TakenFrom
<1>7. h = <<>> /\ hh = p
    <2>1. reader'[e][r] = [at |-> "add", buff |-> p, n |-> n]
        BY <1>0, <1>1, <1>2 DEF ReadPiece
    <2>2. reader'[e][r].at = "add" /\ reader'[e][r].buff = p
        <3> HIDE DEF p, z, w, u, c, h, hh
        <3>1. Parts(reader'[e][r], "add", p)
            BY <2>1, Fields
        <3> QED BY <3>1 DEF Parts
    <2>3. reader[e][r].at # "add"
        BY <1>2, NotAdding
    <2> QED BY <2>2, <2>3 DEF Passing
<1> HIDE DEF p, z, w, u, c, h, hh
<1>8. Whole(c, p, z, u) = Whole(c, <<>>, Cat(p, z), u)
    BY SMT, <1>1, <1>3, <1>4, <1>5, WholeRead
<1>9. Way(x)' = Whole(c, p, z, u)
    BY <1>5, <1>6, <1>7 DEF Passing, Flow, c, u, hh
<1>10. Way(x) = Whole(c, <<>>, w, u)
    BY <1>5, <1>7 DEF Passing, Flow, c, u, h, w
<1>11. Way(x)' = Way(x)
    BY <1>3, <1>8, <1>9, <1>10
<1> QED BY <1>2, <1>11 DEF Passing

\* What was read goes into the cache.
LEMMA AddDataCarries ==
    ASSUME IInv, NEW x \in Ends, NEW e \in Ends, NEW r \in Readers, Passing(x, e, r),
           AddDataToReadBuf(e, r), buffer' = buffer
    PROVE  Carried(x)'
<1> DEFINE c == cache[e]
           h == Held(reader[e])
           hh == Held(reader'[e])
           w == wire[x]
           u == Unsent(fdMutex[x], writer[x], sendCache[x])
<1>0. /\ reader \in [Ends -> [Readers -> ReaderState]] /\ cache \in [Ends -> Seq(Cell)]
      /\ c \in Seq(Cell) /\ h \in Seq(Cell) /\ w \in Seq(Cell) /\ (up => u \in Seq(Cell)) /\ e = Other(x)
    BY DEF IInv, Types, Passing
<1>1. reader[e][r].at = "add" /\ wire' = wire /\ arrived' = arrived
    BY DEF AddDataToReadBuf, link
<1>2. reader'[e][r].at = "cut"
    <2>1. reader'[e][r] = [at |-> "cut", buff |-> <<>>, n |-> reader[e][r].n]
        BY <1>0 DEF AddDataToReadBuf
    <2> HIDE DEF c, h, hh, w, u
    <2>2. Parts(reader'[e][r], "cut", <<>>)
        BY <2>1, Fields
    <2> QED BY <2>2 DEF Parts
<1>3. h = reader[e][r].buff /\ hh = <<>>
    <2>1. reader'[e][r].at # "add"
        BY <1>2, NotAdding
    <2> QED BY <1>1, <2>1 DEF Passing
<1>4. CASE e \notin buffer
    BY <1>0, <1>4 DEF Carried
<1>5. CASE e \in buffer
    <2>1. cache'[e] = Cat(c, h)
        BY <1>0, <1>3, <1>5 DEF AddDataToReadBuf, Cat
    <2> HIDE DEF w, u, c, h, hh
    <2>2. CASE up
        <3>1. Whole(Cat(c, h), <<>>, w, u) = Whole(c, h, w, u)
            BY SMT, <1>0, <2>2, WholeAdd
        <3>2. Way(x)' = Whole(Cat(c, h), <<>>, w, u)
            BY <1>1, <1>3, <2>1, <2>2 DEF Passing, Flow, w, u, hh
        <3>3. Way(x) = Whole(c, h, w, u)
            BY <2>2 DEF Passing, Flow, w, u, c, h
        <3> QED BY <1>1, <3>1, <3>2, <3>3 DEF Passing
    <2>3. CASE ~up
        <3>1. Cat(Cat(c, h), <<>>) = Cat(c, h)
            <4>1. Cat(c, h) \in Seq(Cell)
                BY <1>0, CatType
            <4> QED BY <4>1, CatNone
        <3>2. Way(x)' = Cat(Cat(c, h), <<>>)
            BY <1>3, <2>1, <2>3 DEF Passing, Flow, hh
        <3>3. Way(x) = Cat(c, h)
            BY <2>3 DEF Passing, Flow, c, h
        <3> QED BY <1>1, <3>1, <3>2, <3>3 DEF Passing
    <2> QED BY <2>2, <2>3
<1> QED BY <1>4, <1>5

\* A message is cut off the cache.
LEMMA CutCarries ==
    ASSUME IInv, NEW x \in Ends, NEW e \in Ends, NEW r \in Readers, Passing(x, e, r),
           SendPkToMessQueue(e, r), pushed' = pushed, up' = up
    PROVE  Carried(x)'
<1> DEFINE c == cache[e]
           a == Len(arrived[x])
           q == pushed[x]
           m == q[a + 1]
           t == Behind(up, Held(reader[e]), wire[x], Unsent(fdMutex[x], writer[x], sendCache[x]))
           way == Way(x)
<1>0. x = Other(e) /\ way \in Seq(Cell) /\ q \in Seq(Msgs) /\ a \in Nat /\ c \in Seq(Cell)
    BY DEF Passing
<1>1. /\ a + 1 \in 1 .. Len(q) /\ m \in Msgs
      /\ arrived' = [arrived EXCEPT ![x] = Append(@, m)]
      /\ len[m] \in 0 .. Len(c)
      /\ cache' = [cache EXCEPT ![e] = SubSeq(@, len[m] + 1, Len(@))]
      /\ Laid(way, q, a, up) /\ Len(c) <= Len(way) /\ way # <<>>
    BY <1>0, CutMessage
<1>2. wire' = wire /\ reader' = reader
    BY DEF SendPkToMessQueue, link
<1>3. cache'[e] = SubSeq(c, len[m] + 1, Len(c)) /\ Len(arrived'[x]) = a + 1
    <2> HIDE DEF m
    <2>0. cache \in [Ends -> Seq(Cell)] /\ arrived \in [Ends -> Seq(Msgs)]
        BY DEF IInv, Types
    <2>1. cache'[e] = SubSeq(c, len[m] + 1, Len(c))
        BY <2>0, <1>1
    <2>2. arrived'[x] = Append(arrived[x], m) /\ arrived[x] \in Seq(Msgs)
        BY <2>0, <1>1
    <2>3. Len(arrived'[x]) = a + 1
        BY SMT, <1>1, <2>2
    <2> QED BY <2>1, <2>3
<1>4. way = Cat(c, t)
    BY FlowBehind DEF Passing
<1>5. Way(x)' = Cat(SubSeq(c, len[m] + 1, Len(c)), t)
    BY <1>2, <1>3, FlowBehind DEF Passing
<1>6. t \in Seq(Cell)
    BY CatType DEF Passing, Behind
<1> HIDE DEF c, t, m, way, q, a
<1>7. Cat(SubSeq(c, len[m] + 1, Len(c)), t) = SubSeq(way, len[m] + 1, Len(way))
    BY <1>0, <1>1, <1>4, <1>6, CutConcat
<1>8. len[m] <= Len(way)
    BY SMT, <1>0, <1>1
<1>9. Laid(SubSeq(way, len[m] + 1, Len(way)), q, a + 1, up)
    BY <1>0, <1>1, <1>8, LaidCut DEF m
<1>10. Laid(Way(x)', pushed'[x], Len(arrived'[x]), up')
    BY <1>3, <1>5, <1>7, <1>9 DEF q
<1> QED BY <1>10 DEF Carried

\* The read threads move cells from the wire to the cache, and messages from
\* the cache to g_queueWork.
LEMMA ReadCarries ==
    ASSUME IInv, NEW x \in Ends, NEW e \in Ends, NEW r \in Readers, ReadThread(e, r)
    PROVE  Carried(x)'
<1>1. CASE Read(e, r) /\ ~up /\ DeleteByFd(e)
    <2>1. \A d \in Ends : d # e => reader'[d] = reader[d]
        <3>1. Types /\ Readership(e)
            BY DEF IInv, Readership
        <3> QED BY <3>1, HeldStep
    <2>2. arrived' = arrived /\ pushed' = pushed
        BY <1>1 DEF Read
    <2> QED BY <1>1, <2>1, <2>2, DeleteCarries
<1>2. CASE ~(Read(e, r) /\ ~up /\ DeleteByFd(e))
    <2>1. CASE x = e
        BY <1>2, <2>1, ReadOwn
    <2>2. CASE x # e
        <3>1. Passing(x, e, r)
            BY <1>2, <2>2, ReadPassing
        <3>2. up' = up /\ buffer' = buffer /\ pushed' = pushed
            BY <1>2, ReadFrame
        <3>3. CASE ReadTake(e, r) \/ ReadAgain(e, r) \/ (Read(e, r) /\ ReadEmpty(e, r))
            BY <3>1, <3>3, ReadIdle
        <3>4. CASE Read(e, r) /\ ~ReadEmpty(e, r)
            BY <1>2, <3>1, <3>4, ReadPieceCarries
        <3>5. CASE AddDataToReadBuf(e, r)
            BY <3>1, <3>2, <3>5, AddDataCarries
        <3>6. CASE SendPkToMessQueue(e, r)
            BY <3>1, <3>2, <3>6, CutCarries
        <3> QED BY <3>3, <3>4, <3>5, <3>6 DEF ReadThread
    <2> QED BY <2>1, <2>2
<1> QED BY <1>1, <1>2

-----------------------------------------------------------------------------
(* The connection implements the channel.                                  *)

\* A connection that has just been set up.
LEMMA InitIInv == ConnInit => IInv
<1> SUFFICES ASSUME ConnInit PROVE IInv
    OBVIOUS
<1>1. PICK s \in Scenes :
         /\ tosend = s.tosend
         /\ writer = [e \in Ends |->
                        [w \in Writers |-> IF <<e, w>> \in s.busy THEN Busy ELSE Resting]]
         /\ reader = [e \in Ends |->
                        [r \in Readers |-> IF <<e, r>> \in s.busy THEN Busy ELSE Resting]]
    BY DEF ConnInit
<1>2. /\ Busy \in WriterState /\ ~Writes(Busy) /\ Busy \in ReaderState /\ ~Reads(Busy)
      /\ Resting \in WriterState /\ ~Writes(Resting) /\ Resting \in ReaderState /\ ~Reads(Resting)
    <2>1. <<>> \in Seq(Cell)
        BY EmptySeq
    <2>2. Busy = [at |-> "busy", buff |-> <<>>, n |-> 0]
        BY BusyIs
    <2>3. Busy \in WriterState /\ ~Writes(Busy) /\ Busy \in ReaderState /\ ~Reads(Busy)
        BY <2>1, <2>2 DEF WriterState, ReaderState, Writes, Reads
    <2> QED BY <2>3, WriterStates, ReaderStates
<1> HIDE DEF Busy, Resting
<1>3. \A e \in Ends, w \in Writers : writer[e][w] \in WriterState /\ ~Writes(writer[e][w])
    BY <1>1, <1>2
<1>4. \A e \in Ends, r \in Readers : reader[e][r] \in ReaderState /\ ~Reads(reader[e][r])
    BY <1>1, <1>2
<1>5. Types
    <2>1. <<>> \in Seq(Cell) /\ <<>> \in Seq(Msgs)
        BY EmptySeq
    <2>2. tosend \in [Ends -> SUBSET Msgs]
        BY <1>1, SizeAssumption
    <2>3. /\ up \in BOOLEAN /\ buffer \subseteq Ends /\ interest \subseteq Ends
          /\ sendCache \in [Ends -> Seq(Cell)] /\ cache \in [Ends -> Seq(Cell)]
          /\ wire \in [Ends -> Seq(Cell)]
          /\ queueRead \in [Ends -> Nat]
          /\ pushed \in [Ends -> Seq(Msgs)] /\ arrived \in [Ends -> Seq(Msgs)]
        BY <2>1 DEF ConnInit
    <2>4. queueWork \in [Ends -> SUBSET Msgs] /\ fdMutex \in [Ends -> SUBSET Writers]
        BY DEF ConnInit
    <2>5. writer \in [Ends -> [Writers -> WriterState]]
        BY <1>1, <1>2
    <2>6. reader \in [Ends -> [Readers -> ReaderState]]
        BY <1>1, <1>2
    <2> QED BY <2>2, <2>3, <2>4, <2>5, <2>6 DEF Types
<1>6. Lost
    BY DEF ConnInit, Lost
<1>7. \A e \in Ends : OneWriter(up, fdMutex[e], writer[e], sendCache[e])
    <2>1. \A e \in Ends : fdMutex[e] = {}
        BY DEF ConnInit
    <2> QED BY <1>3, <2>1 DEF OneWriter
<1>8. \A e \in Ends : OneReader(e \in interest, queueRead[e], reader[e])
    <2>1. \A e \in Ends : queueRead[e] = 0
        BY DEF ConnInit
    <2> QED BY <1>4, <2>1 DEF OneReader
<1>9. ASSUME NEW x \in Ends PROVE Carried(x)
    <2> DEFINE o == Other(x)
    <2>1. o \in Ends
        BY OtherEnd
    <2>2. /\ cache[o] = <<>> /\ wire[x] = <<>> /\ sendCache[x] = <<>> /\ fdMutex[x] = {}
          /\ pushed[x] = <<>> /\ arrived[x] = <<>> /\ up = TRUE
        BY <2>1 DEF ConnInit
    <2>3. Held(reader[o]) = <<>>
        <3>1. \A r \in Readers : reader[o][r].at # "add"
            BY <1>4, <2>1 DEF Reads
        <3> QED BY <3>1, HeldNone
    <2>4. Unsent(fdMutex[x], writer[x], sendCache[x]) = <<>>
        BY <2>2, UnsentAll
    <2>5. Cat(<<>>, <<>>) = <<>>
        BY EmptySeq, CatNone
    <2>6. Way(x) = <<>>
        BY <2>2, <2>3, <2>4, <2>5 DEF Way, Flow, Whole
    <2>7. Len(arrived[x]) = 0
        BY SMT, <2>2
    <2>8. Laid(<<>>, <<>>, 0, TRUE)
        BY LaidNone
    <2> QED BY <2>2, <2>6, <2>7, <2>8 DEF Carried
<1> QED BY <1>5, <1>6, <1>7, <1>8, <1>9 DEF IInv

\* What is on its way stays on its way, whoever takes the next step.
LEMMA NextCarried == IInv /\ ConnNext => \A x \in Ends : Carried(x)'
<1> SUFFICES ASSUME IInv, ConnNext, NEW x \in Ends PROVE Carried(x)'
    OBVIOUS
<1>1. CASE Break
    BY <1>1, BreakCarries
<1>2. ASSUME NEW e \in Ends, DealHeart(e) PROVE Carried(x)'
    BY <1>2, DeleteCarries DEF DealHeart
<1>3. ASSUME NEW e \in Ends, PushWrite(e) PROVE Carried(x)'
    BY <1>3, SameWays DEF PushWrite, link
<1>4. ASSUME NEW e \in Ends, EpollIn(e) PROVE Carried(x)'
    BY <1>4, SameWays, DeleteCarries DEF EpollIn, EpollErr
<1>5. ASSUME NEW e \in Ends, EpollEdge(e) PROVE Carried(x)'
    BY <1>5, SameWays DEF EpollEdge
<1>6. ASSUME NEW e \in Ends, EpollOut(e) PROVE Carried(x)'
    BY <1>6, SameWays DEF EpollOut, link
<1>7. ASSUME NEW e \in Ends, NEW m \in Msgs, AddWritePack(e, m) PROVE Carried(x)'
    BY <1>7, AddWritePackCarries
<1>8. ASSUME NEW e \in Ends, NEW m \in Msgs, HandleNetworkRead(e, m) PROVE Carried(x)'
    BY <1>8, SameWays DEF HandleNetworkRead, link
<1>9. ASSUME NEW e \in Ends, NEW w \in Writers, WriteThread(e, w) PROVE Carried(x)'
    BY <1>9, WriteCarries
<1>10. ASSUME NEW e \in Ends, NEW r \in Readers, ReadThread(e, r) PROVE Carried(x)'
    BY <1>10, ReadCarries
<1> QED BY <1>1, <1>2, <1>3, <1>4, <1>5, <1>6, <1>7, <1>8, <1>9, <1>10
        DEF ConnNext, Threads, HeartTimer, EpollThread

\* Every step keeps the invariant.
LEMMA NextIInv == IInv /\ [ConnNext]_connVars => IInv'
<1> SUFFICES ASSUME IInv, [ConnNext]_connVars PROVE IInv'
    OBVIOUS
<1>1. CASE ConnNext
    <2>1. Types /\ Lost /\ (\A e \in Ends : Readership(e)) /\ (\A e \in Ends : Ownership(e))
        BY DEF IInv, Readership, Ownership
    <2>2. Types'
        BY <1>1, <2>1, NextTypes
    <2>3. Lost'
        BY <1>1, <2>1, NextLost
    <2>4. \A e \in Ends : Readership(e)'
        BY <1>1, <2>1, NextReader
    <2>5. \A e \in Ends : Ownership(e)'
        BY <1>1, <2>1, NextWriter
    <2>6. \A e \in Ends : Carried(e)'
        BY <1>1, NextCarried
    <2> QED BY <2>2, <2>3, <2>4, <2>5, <2>6 DEF IInv, Readership, Ownership
<1>2. CASE UNCHANGED connVars
    <2>1. /\ UNCHANGED <<up, wire, interest, buffer, sendCache, cache, tosend, fdMutex>>
          /\ UNCHANGED <<queueRead, queueWork, writer, reader, pushed, arrived>>
        BY <1>2 DEF connVars, link, queues
    <2>2. Types' /\ Lost'
        BY <2>1 DEF IInv, Types, Lost
    <2>3. \A e \in Ends : /\ OneWriter(up', fdMutex'[e], writer'[e], sendCache'[e])
                          /\ OneReader(e \in interest', queueRead'[e], reader'[e])
        BY <2>1 DEF IInv
    <2>4. \A e \in Ends : Carried(e)'
        BY <2>1, SameWays
    <2> QED BY <2>2, <2>3, <2>4 DEF IInv
<1> QED BY <1>1, <1>2

\* AddWritePack sends, SendPkToMessQueue delivers the next message, and no
\* other step is seen from outside.
LEMMA NextSimulates == IInv /\ [ConnNext]_connVars => [Fifo!Next]_(Fifo!vars)
<1> SUFFICES ASSUME IInv, [ConnNext]_connVars
             PROVE  Fifo!Next \/ UNCHANGED <<pushed, arrived>>
    BY DEF Fifo!vars
<1>1. CASE UNCHANGED connVars
    BY <1>1 DEF connVars
<1>2. ASSUME NEW e \in Ends, NEW m \in Msgs, AddWritePack(e, m)
      PROVE  Fifo!Next \/ UNCHANGED <<pushed, arrived>>
    BY <1>2 DEF AddWritePack, Fifo!Next, Fifo!Send
<1>3. ASSUME NEW e \in Ends, NEW r \in Readers, SendPkToMessQueue(e, r)
      PROVE  Fifo!Next \/ UNCHANGED <<pushed, arrived>>
    <2> DEFINE x == Other(e)
    <2>1. x \in Ends
        BY OtherEnd
    <2>2. /\ Len(arrived[x]) + 1 \in 1 .. Len(pushed[x])
          /\ arrived' = [arrived EXCEPT ![x] = Append(@, pushed[x][Len(arrived[x]) + 1])]
        BY <1>3, CutMessage
    <2>3. Len(arrived[x]) < Len(pushed[x])
        <3>1. Len(arrived[x]) \in Nat /\ Len(pushed[x]) \in Nat
            BY SMT, <2>1 DEF IInv, Types
        <3>2. \A k, l \in Nat : k + 1 \in 1 .. l => k < l
            BY SMT
        <3> QED BY <2>2, <3>1, <3>2
    <2>4. pushed' = pushed
        BY <1>3 DEF SendPkToMessQueue
    <2>5. Fifo!Deliver(x)
        BY <2>2, <2>3, <2>4 DEF Fifo!Deliver
    <2> QED BY <2>1, <2>5 DEF Fifo!Next
<1>4. ASSUME NEW e \in Ends, NEW r \in Readers, ReadThread(e, r), ~SendPkToMessQueue(e, r)
      PROVE  UNCHANGED <<pushed, arrived>>
    BY <1>4 DEF ReadThread, ReadTake, Read, AddDataToReadBuf, ReadAgain
<1>5. ASSUME NEW e \in Ends, NEW w \in Writers, WriteThread(e, w)
      PROVE  UNCHANGED <<pushed, arrived>>
    BY <1>5 DEF WriteThread, WriteTake, WriteCopy, Send, PopNWriteBufferQueue
<1>6. ASSUME NEW e \in Ends,
             \/ DealHeart(e) \/ PushWrite(e) \/ EpollIn(e) \/ EpollEdge(e) \/ EpollOut(e)
             \/ \E m \in Msgs : HandleNetworkRead(e, m)
      PROVE  UNCHANGED <<pushed, arrived>>
    BY <1>6 DEF DealHeart, PushWrite, EpollIn, EpollEdge, EpollOut, HandleNetworkRead
<1>7. CASE Break
    BY <1>7 DEF Break
<1> QED BY <1>1, <1>2, <1>3, <1>4, <1>5, <1>6, <1>7
        DEF ConnNext, Threads, HeartTimer, EpollThread

\* net/epoll_mode.cpp, net/work_thread.cpp, net/socket_buf.cpp: for any number of
\* write and read threads, any sizes of messages, pieces and kernel buffers, and
\* whether or not the connection is lost, what one end sends gets into
\* g_queueWork of the other end whole, once and in the order of sending.
THEOREM Implements == ConnSpec => FifoChannel
<1>1. ConnInit => Fifo!Init
    BY DEF ConnInit, Fifo!Init
<1>2. IInv /\ [ConnNext]_connVars => [Fifo!Next]_(Fifo!vars)
    BY NextSimulates
<1> QED BY <1>1, <1>2, InitIInv, NextIInv, PTL DEF ConnSpec, FifoChannel, Fifo!Spec
=============================================================================
