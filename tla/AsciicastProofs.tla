--------------------------- MODULE AsciicastProofs ---------------------------
(***************************************************************************)
(* Theorems about Asciicast: its type invariant, that a recording has every *)
(* byte of the output and no line that ends inside a rune, that it plays    *)
(* back in time, and that it marks each change of a status and nothing      *)
(* else; for any bytes, segments, statuses and timestamps.                  *)
(***************************************************************************)
EXTENDS Asciicast, SequenceTheorems, TLAPS

\* The types of the text, with those of the history.
Texts ==
  /\ carry \in Seq(Bytes) /\ Len(carry) <= 3
  /\ seen \in Seq(Bytes) /\ out \in Seq(Bytes)

\* The types of the rest.
Scalars ==
  /\ pc \in {"header", "loop", "segments", "done"} /\ stopped \in BOOLEAN
  /\ marked \in [Ids -> Keys \union {NoKey}]
  /\ event \in 0 .. MaxTime /\ read \in 0 .. event
  /\ lastEventTime \in {Unset} \union 0 .. event
  /\ first \in {Unset} \union 0 .. event /\ latest \in {Unset} \union 0 .. event

\* The cursor is where the last line left it, and the intervals add up to it.
Cursors ==
  /\ first = Unset => lastEventTime = Unset /\ latest = Unset /\ elapsed = 0
  /\ first # Unset => first <= latest /\ latest # Unset /\ elapsed = latest - first
  /\ pc \in {"loop", "segments"} => lastEventTime = latest
  /\ pc = "header" => first = Unset
  /\ pc = "segments" => first # Unset

\* A rune that starts at or before the cut in the text t ends there too, or is
\* broken by another that starts right after the cut or before it.
Clean(cut, t) ==
  \A i \in 1 .. cut :
    t[i] > 0 => \/ i + t[i] - 1 <= cut
                \/ \E k \in i + 1 .. cut + 1 : k <= Len(t) /\ t[k] > 0

\* Until the end, what was written and what is held back are what was seen; what
\* is held back begins with the start of a rune, and the lines end between runes.
Whole ==
  IF pc = "done" THEN TextExact
  ELSE /\ ~stopped
       /\ seen = out \o carry
       /\ carry # <<>> => carry[1] > 0
       /\ \A cut \in cuts \union {Len(out)} :
            cut \in 0 .. Len(out) /\ Clean(cut, out \o carry)

\* What is marked for an id is the latest status about it.
Marking ==
  /\ reports \in Seq(Ids \X Keys) /\ markers \in Seq(Nat)
  /\ MarkersTell
  /\ \A id \in Ids :
       \/ marked[id] = NoKey /\ \A i \in 1 .. Len(reports) : reports[i][1] # id
       \/ \E i \in 1 .. Len(reports) :
            /\ reports[i] = <<id, marked[id]>>
            /\ \A k \in i + 1 .. Len(reports) : reports[k][1] # id

\* The inductive invariant.
IInv == Texts /\ Scalars /\ Cursors /\ Whole /\ Marking

-----------------------------------------------------------------------------
(* Sequences of bytes.                                                      *)

\* What comes after another sequence of bytes.
LEMMA Joined ==
  ASSUME NEW S, NEW s \in Seq(S), NEW t \in Seq(S)
  PROVE  /\ s \o t \in Seq(S) /\ Len(s \o t) = Len(s) + Len(t)
         /\ \A i \in 1 .. Len(s) : (s \o t)[i] = s[i]
         /\ \A i \in 1 .. Len(t) : (s \o t)[Len(s) + i] = t[i]
OBVIOUS

\* It does not matter which of three texts are joined first.
LEMMA Rejoined ==
  \A s, t, u \in Seq(Bytes) : (s \o t) \o u = s \o (t \o u)
<1> TAKE s, t, u \in Seq(Bytes)
<1>. QED
  BY ConcatAssociative

\* A sequence is the part before a place and the part from there on.
LEMMA Parted ==
  ASSUME NEW S, NEW b \in Seq(S), NEW i \in 1 .. Len(b)
  PROVE  /\ SubSeq(b, 1, i - 1) \in Seq(S) /\ Len(SubSeq(b, 1, i - 1)) = i - 1
         /\ SubSeq(b, i, Len(b)) \in Seq(S) /\ Len(SubSeq(b, i, Len(b))) = Len(b) - i + 1
         /\ SubSeq(b, i, Len(b))[1] = b[i]
         /\ b = SubSeq(b, 1, i - 1) \o SubSeq(b, i, Len(b))
<1> DEFINE l == SubSeq(b, 1, i - 1)
           r == SubSeq(b, i, Len(b))
<1>1. /\ l \in Seq(S) /\ Len(l) = i - 1 /\ \A k \in 1 .. i - 1 : l[k] = b[k]
      /\ r \in Seq(S) /\ Len(r) = Len(b) - i + 1
      /\ \A k \in 1 .. Len(b) - i + 1 : r[k] = b[i + k - 1]
  OBVIOUS
<1> HIDE DEF l, r
<1>2. /\ l \o r \in Seq(S) /\ Len(l \o r) = Len(b)
      /\ \A k \in 1 .. Len(l) : (l \o r)[k] = l[k]
      /\ \A k \in 1 .. Len(r) : (l \o r)[Len(l) + k] = r[k]
  BY <1>1, Joined
<1>3. ASSUME NEW k \in 1 .. Len(b)
      PROVE  (l \o r)[k] = b[k]
  <2>1. CASE k <= i - 1
    BY <1>1, <1>2, <2>1
  <2>2. CASE k > i - 1
    <3> DEFINE m == k - (i - 1)
    <3>1. m \in 1 .. Len(r) /\ m \in 1 .. Len(b) - i + 1
          /\ Len(l) + m = k /\ i + m - 1 = k
      BY <1>1, <2>2
    <3> HIDE DEF m
    <3>2. (l \o r)[Len(l) + m] = r[m] /\ r[m] = b[i + m - 1]
      BY <1>1, <1>2, <3>1
    <3>. QED
      BY <3>1, <3>2
  <2>3. k <= i - 1 \/ k > i - 1
    OBVIOUS
  <2>. QED
    BY <2>1, <2>2, <2>3, Zenon
<1>4. b = l \o r
  BY <1>2, <1>3, SeqEqual
<1>. QED
  BY <1>1, <1>4 DEF l, r

\* splitIncompleteUTF8 loses nothing, holds back less than a rune, from its start
\* on, and leaves no rune it could have held back.
LEMMA SplitIsClean ==
  ASSUME NEW b \in Seq(Bytes)
  PROVE  LET split == SplitIncompleteUTF8(b) IN
         /\ split.complete \in Seq(Bytes) /\ split.rest \in Seq(Bytes)
         /\ Len(split.rest) <= 3
         /\ b = split.complete \o split.rest
         /\ split.rest # <<>> => split.rest[1] > 0
         /\ Clean(Len(split.complete), b)
<1> DEFINE starts == {i \in LookBack(b) : b[i] # 0}
           i == CHOOSE k \in starts : \A j \in starts : j <= k
           split == SplitIncompleteUTF8(b)
<1>1. \A k \in 1 .. Len(b) : b[k] \in 0 .. 4
  <2>1. \A k \in 1 .. Len(b) : b[k] \in Bytes
    OBVIOUS
  <2>. QED
    BY <2>1, BytesAssumption
<1>2. \A k \in 1 .. Len(b) : k > Len(b) - 3 /\ b[k] > 0 <=> k \in starts
  BY <1>1 DEF LookBack
<1>3. CASE starts = {}
  <2>1. split = [complete |-> b, rest |-> <<>>]
    BY <1>3 DEF SplitIncompleteUTF8
  <2>2. Clean(Len(b), b)
    BY <1>1, <1>2, <1>3 DEF Clean
  <2>3. b = b \o <<>> /\ <<>> \in Seq(Bytes) /\ Len(<<>>) = 0
    OBVIOUS
  <2>. QED
    BY <2>1, <2>2, <2>3
<1>4. CASE starts # {}
  <2>1. \E k \in starts : \A j \in starts : j <= k
    <3>1. starts \subseteq {Len(b) - 2, Len(b) - 1, Len(b)}
      BY DEF LookBack
    <3>. QED
      BY <1>4, <3>1
  <2>2. i \in starts /\ \A j \in starts : j <= i
    BY <2>1
  <2>3. i \in 1 .. Len(b) /\ i > Len(b) - 3 /\ b[i] > 0
    BY <1>1, <2>2 DEF LookBack
  <2>4. \A j \in 1 .. Len(b) : j > i => b[j] = 0
    BY <1>1, <1>2, <2>2, <2>3
  <2>5. split = IF b[i] > Len(b) - i + 1
                THEN [complete |-> SubSeq(b, 1, i - 1), rest |-> SubSeq(b, i, Len(b))]
                ELSE [complete |-> b, rest |-> <<>>]
    BY <1>4 DEF SplitIncompleteUTF8
  <2> HIDE DEF starts, i, split
  <2>6. CASE b[i] > Len(b) - i + 1
    <3>1. split.complete = SubSeq(b, 1, i - 1) /\ split.rest = SubSeq(b, i, Len(b))
      BY <2>5, <2>6
    <3>2. /\ split.complete \in Seq(Bytes) /\ Len(split.complete) = i - 1
          /\ split.rest \in Seq(Bytes) /\ Len(split.rest) = Len(b) - i + 1
          /\ split.rest[1] = b[i] /\ b = split.complete \o split.rest
      <4>1. i \in 1 .. Len(b)
        BY <2>3
      <4>2. /\ SubSeq(b, 1, i - 1) \in Seq(Bytes)
            /\ Len(SubSeq(b, 1, i - 1)) = i - 1
            /\ SubSeq(b, i, Len(b)) \in Seq(Bytes)
            /\ Len(SubSeq(b, i, Len(b))) = Len(b) - i + 1
            /\ SubSeq(b, i, Len(b))[1] = b[i]
            /\ b = SubSeq(b, 1, i - 1) \o SubSeq(b, i, Len(b))
        BY <4>1, Parted
      <4>. QED
        BY <3>1, <4>2, Zenon
    <3>3. Clean(i - 1, b)
      BY <1>1, <2>3 DEF Clean
    <3>4. Len(split.rest) <= 3
      <4>1. i \in Int /\ Len(b) \in Int /\ i > Len(b) - 3
        BY <2>3
      <4>2. Len(b) - i + 1 <= 3
        BY <4>1
      <4>. QED
        BY <3>2, <4>2
    <3>5. split.rest[1] > 0
      BY <2>3, <3>2
    <3>6. Clean(Len(split.complete), b)
      BY <3>2, <3>3
    <3>. QED
      BY <3>2, <3>4, <3>5, <3>6 DEF split
  <2>7. CASE ~(b[i] > Len(b) - i + 1)
    <3>1. split.complete = b /\ split.rest = <<>>
      BY <2>5, <2>7
    <3>2. Clean(Len(b), b)
      <4> SUFFICES ASSUME NEW j \in 1 .. Len(b), b[j] > 0
                   PROVE  \/ j + b[j] - 1 <= Len(b)
                          \/ \E k \in j + 1 .. Len(b) + 1 : k <= Len(b) /\ b[k] > 0
        BY DEF Clean
      <4>1. CASE j = i
        BY <1>1, <2>3, <2>7, <4>1
      <4>2. CASE j < i
        BY <2>3, <4>2
      <4>3. CASE j > i
        BY <2>4, <4>3
      <4>. QED
        BY <2>3, <4>1, <4>2, <4>3
    <3>3. b = b \o <<>> /\ <<>> \in Seq(Bytes) /\ Len(<<>>) = 0
      OBVIOUS
    <3>. QED
      BY <3>1, <3>2, <3>3 DEF split
  <2>. QED
    BY <2>6, <2>7
<1>. QED
  BY <1>3, <1>4

-----------------------------------------------------------------------------
(* The text.                                                                *)

\* Bytes are numbers.
LEMMA BytesAreNumbers ==
  ASSUME NEW t \in Seq(Bytes)
  PROVE  \A k \in 1 .. Len(t) : t[k] \in Nat
<1>1. \A k \in 1 .. Len(t) : t[k] \in Bytes
  OBVIOUS
<1>2. \A x \in Bytes : x \in Nat
  BY BytesAssumption
<1>. QED
  BY <1>1, <1>2

\* A clean cut stays clean whatever follows.
LEMMA CleanMore ==
  ASSUME NEW t \in Seq(Bytes), NEW u \in Seq(Bytes), NEW cut \in 0 .. Len(t),
         Clean(cut, t)
  PROVE  Clean(cut, t \o u)
<1>1. Len(t \o u) = Len(t) + Len(u) /\ \A k \in 1 .. Len(t) : (t \o u)[k] = t[k]
  BY Joined
<1>2. Len(t) \in Nat /\ Len(u) \in Nat /\ \A k \in 1 .. Len(t) : t[k] \in Nat
  BY BytesAreNumbers
<1> DEFINE tu == t \o u
<1> SUFFICES ASSUME NEW i \in 1 .. cut, tu[i] > 0
             PROVE  \/ i + tu[i] - 1 <= cut
                    \/ \E k \in i + 1 .. cut + 1 : k <= Len(tu) /\ tu[k] > 0
  BY DEF Clean
<1> HIDE DEF tu
<1>3. i \in 1 .. Len(t) /\ tu[i] = t[i]
  BY <1>1, <1>2 DEF tu
<1>4. CASE i + t[i] - 1 <= cut
  BY <1>3, <1>4
<1>5. ASSUME NEW k \in i + 1 .. cut + 1, k <= Len(t), t[k] > 0
      PROVE  k <= Len(tu) /\ tu[k] > 0
  <2>1. k \in 1 .. Len(t)
    BY <1>2, <1>3, <1>5
  <2>. QED
    BY <1>1, <1>2, <1>5, <2>1 DEF tu
<1>6. \/ i + t[i] - 1 <= cut
      \/ \E k \in i + 1 .. cut + 1 : k <= Len(t) /\ t[k] > 0
  BY <1>3 DEF Clean
<1>. QED
  BY <1>4, <1>5, <1>6

\* A cut that is clean in what comes after a clean cut is clean.
LEMMA CleanAfter ==
  ASSUME NEW o \in Seq(Bytes), NEW b \in Seq(Bytes), NEW m \in 0 .. Len(b),
         Clean(Len(o), o \o b), Clean(m, b)
  PROVE  Clean(Len(o) + m, o \o b)
<1> DEFINE t == o \o b
           n == Len(o)
<1>1. /\ n \in Nat /\ Len(b) \in Nat /\ Len(t) = n + Len(b)
      /\ \A k \in 1 .. Len(b) : t[n + k] = b[k]
      /\ \A k \in 1 .. Len(b) : b[k] \in Nat
      /\ \A k \in 1 .. Len(t) : t[k] \in Nat
  <2>1. t \in Seq(Bytes)
    BY Joined
  <2>2. /\ \A k \in 1 .. Len(b) : b[k] \in Nat
        /\ \A k \in 1 .. Len(t) : t[k] \in Nat
    BY <2>1, BytesAreNumbers
  <2>3. /\ n \in Nat /\ Len(b) \in Nat /\ Len(t) = n + Len(b)
        /\ \A k \in 1 .. Len(b) : t[n + k] = b[k]
    BY Joined
  <2>. QED
    BY <2>2, <2>3
<1> SUFFICES ASSUME NEW i \in 1 .. n + m, t[i] > 0
             PROVE  \/ i + t[i] - 1 <= n + m
                    \/ \E k \in i + 1 .. (n + m) + 1 : k <= Len(t) /\ t[k] > 0
  BY DEF Clean
<1>2. Clean(n, t)
  OBVIOUS
<1> HIDE DEF t, n
<1>3. CASE i <= n
  <2>1. \/ i + t[i] - 1 <= n
        \/ \E k \in i + 1 .. n + 1 : k <= Len(t) /\ t[k] > 0
    BY <1>1, <1>2, <1>3 DEF Clean
  <2>2. i \in 1 .. Len(t)
    BY <1>1
  <2>. QED
    BY <1>1, <2>1, <2>2
<1>4. CASE i > n
  <2> DEFINE j == i - n
  <2>1. j \in 1 .. m /\ j \in 1 .. Len(b) /\ n + j = i
    BY <1>1, <1>4
  <2> HIDE DEF j
  <2>2. t[i] = b[j]
    BY <1>1, <2>1
  <2>3. \/ j + b[j] - 1 <= m
        \/ \E k \in j + 1 .. m + 1 : k <= Len(b) /\ b[k] > 0
    BY <2>1, <2>2 DEF Clean
  <2>4. CASE j + b[j] - 1 <= m
    <3>1. b[j] \in Nat /\ j \in Nat
      BY <1>1, <2>1
    <3>2. i + t[i] - 1 <= n + m
      BY <1>1, <2>1, <2>2, <2>4, <3>1
    <3>. QED
      BY <3>2
  <2>5. CASE \E k \in j + 1 .. m + 1 : k <= Len(b) /\ b[k] > 0
    <3>1. PICK k \in j + 1 .. m + 1 : k <= Len(b) /\ b[k] > 0
      BY <2>5
    <3>2. k \in 1 .. Len(b) /\ n + k \in i + 1 .. (n + m) + 1 /\ n + k <= Len(t)
      BY <1>1, <2>1, <3>1
    <3>3. t[n + k] > 0
      BY <1>1, <3>1, <3>2
    <3>. QED
      BY <3>2, <3>3
  <2>. QED
    BY <2>3, <2>4, <2>5
<1>5. n \in Nat /\ i \in Int
  BY <1>1
<1>. QED
  BY <1>3, <1>4, <1>5

\* No rune is on both sides of a clean cut.
LEMMA NoRuneIsCut ==
  ASSUME NEW o \in Seq(Bytes), NEW c \in Seq(Bytes), NEW cut \in 0 .. Len(o),
         Clean(cut, o \o c), NEW i \in DOMAIN o, IsRune(o, i)
  PROVE  ~(i <= cut /\ cut < i + o[i] - 1)
<1> DEFINE t == o \o c
<1>1. /\ Len(o) \in Nat /\ i \in 1 .. Len(o) /\ o[i] \in Nat /\ t[i] = o[i]
      /\ \A k \in 1 .. Len(o) : t[k] = o[k]
  <2>1. Len(o) \in Nat /\ i \in 1 .. Len(o)
    OBVIOUS
  <2>2. o[i] \in Nat
    BY <2>1, BytesAreNumbers
  <2>3. \A k \in 1 .. Len(o) : t[k] = o[k]
    BY Joined
  <2>. QED
    BY <2>1, <2>2, <2>3
<1>2. /\ o[i] > 0 /\ i + o[i] - 1 <= Len(o)
      /\ \A k \in i + 1 .. i + o[i] - 1 : o[k] = 0
  BY DEF IsRune
<1>3. Clean(cut, t)
  OBVIOUS
<1> HIDE DEF t
<1> SUFFICES ASSUME i <= cut, cut < i + o[i] - 1 PROVE FALSE
  OBVIOUS
<1>4. i \in 1 .. cut
  BY <1>1
<1>5. \/ i + t[i] - 1 <= cut
      \/ \E k \in i + 1 .. cut + 1 : k <= Len(t) /\ t[k] > 0
  BY <1>1, <1>2, <1>3, <1>4 DEF Clean
<1>6. PICK k \in i + 1 .. cut + 1 : t[k] > 0
  BY <1>1, <1>5
<1>7. k \in i + 1 .. i + o[i] - 1 /\ k \in 1 .. Len(o)
  BY <1>1, <1>2, <1>6
<1>. QED
  BY <1>1, <1>2, <1>6, <1>7

\* The invariant of the text without the program counter.
Kept ==
  /\ seen = out \o carry
  /\ carry # <<>> => carry[1] > 0
  /\ \A cut \in cuts \union {Len(out)} : cut \in 0 .. Len(out) /\ Clean(cut, out \o carry)

\* It suffices for a recording that was stopped.
LEMMA KeptIsExact == Texts /\ Kept /\ stopped => TextExact
<1> SUFFICES ASSUME Texts, Kept, stopped PROVE TextExact
  OBVIOUS
<1>1. \A cut \in cuts, i \in DOMAIN out :
        IsRune(out, i) => ~(i <= cut /\ cut < i + out[i] - 1)
  BY NoRuneIsCut DEF Texts, Kept
<1>. QED
  BY <1>1 DEF TextExact

\* Bytes that come are written up to the last rune that is not full, and the rest
\* is held back.
LEMMA TakeBytes ==
  ASSUME Texts, Kept, NEW bytes \in Seq(Bytes),
         seen' = seen \o bytes,
         carry' = SplitIncompleteUTF8(carry \o bytes).rest,
         out' = out \o SplitIncompleteUTF8(carry \o bytes).complete,
         cuts' \subseteq cuts \union {Len(out')}
  PROVE  Texts' /\ Kept'
<1> DEFINE b == carry \o bytes
           split == SplitIncompleteUTF8(b)
           done == split.complete
           rest == split.rest
           m == Len(done)
<1>1. b \in Seq(Bytes) /\ Len(b) = Len(carry) + Len(bytes)
  BY Joined DEF Texts
<1>2. /\ done \in Seq(Bytes) /\ rest \in Seq(Bytes) /\ Len(rest) <= 3
      /\ b = done \o rest /\ (rest # <<>> => rest[1] > 0) /\ Clean(m, b)
  BY <1>1, SplitIsClean
<1>3. out' = out \o done /\ carry' = rest /\ seen' = seen \o bytes
  OBVIOUS
<1> HIDE DEF b, split, done, rest, m
<1>4. out \in Seq(Bytes) /\ carry \in Seq(Bytes) /\ seen \in Seq(Bytes)
  BY DEF Texts
<1>5. Texts'
  <2>1. out \o done \in Seq(Bytes) /\ seen \o bytes \in Seq(Bytes)
    BY <1>2, <1>4, Joined
  <2>. QED
    BY <1>2, <1>3, <2>1 DEF Texts
<1>6. seen' = out \o b /\ out' \o carry' = out \o b
  <2>1. (out \o carry) \o bytes = out \o (carry \o bytes)
    BY ONLY <1>4, bytes \in Seq(Bytes), Rejoined, Zenon
  <2>2. (out \o done) \o rest = out \o (done \o rest)
    <3>1. done \in Seq(Bytes) /\ rest \in Seq(Bytes) /\ out \in Seq(Bytes)
      BY <1>2, <1>4
    <3>. QED
      BY ONLY <3>1, Rejoined, Zenon
  <2>. QED
    BY <1>2, <1>3, <2>1, <2>2 DEF Kept, b
<1>7. out \o b = (out \o carry) \o bytes
  BY ONLY <1>4, bytes \in Seq(Bytes), Rejoined, Zenon DEF b
<1>8. \A cut \in cuts \union {Len(out)} : cut \in 0 .. Len(out) /\ Clean(cut, out \o b)
  <2> TAKE cut \in cuts \union {Len(out)}
  <2>1. cut \in 0 .. Len(out) /\ Clean(cut, out \o carry)
    BY DEF Kept
  <2>2. out \o carry \in Seq(Bytes) /\ Len(out \o carry) = Len(out) + Len(carry)
        /\ Len(out) \in Nat /\ Len(carry) \in Nat
    BY <1>4, Joined
  <2>3. cut \in 0 .. Len(out \o carry)
    BY <2>1, <2>2
  <2>4. Clean(cut, (out \o carry) \o bytes)
    BY <2>1, <2>2, <2>3, CleanMore
  <2>. QED
    BY <1>7, <2>1, <2>4
<1>9. /\ m \in 0 .. Len(b) /\ Len(out') = Len(out) + m
      /\ Len(out) \in Nat /\ m \in Nat
  <2>1. Len(b) = Len(done) + Len(rest) /\ Len(out \o done) = Len(out) + Len(done)
    BY <1>2, <1>4, Joined
  <2>2. Len(done) \in Nat /\ Len(rest) \in Nat /\ Len(out) \in Nat
    BY <1>2, <1>4
  <2>. QED
    BY <1>3, <2>1, <2>2 DEF m
<1>10. Clean(Len(out) + m, out \o b)
  BY <1>1, <1>2, <1>4, <1>8, <1>9, CleanAfter
<1>11. ASSUME NEW cut \in cuts' \union {Len(out')}
       PROVE  cut \in 0 .. Len(out') /\ Clean(cut, out' \o carry')
  <2>1. CASE cut \in cuts
    <3>1. cut \in 0 .. Len(out) /\ Clean(cut, out \o b)
      BY <1>8, <2>1
    <3>. QED
      BY <1>6, <1>9, <3>1
  <2>2. CASE cut = Len(out')
    <3>1. cut \in 0 .. Len(out')
      BY <1>9, <2>2
    <3>. QED
      BY <1>6, <1>9, <1>10, <2>2, <3>1
  <2>. QED
    BY <2>1, <2>2
<1>12. carry' # <<>> => carry'[1] > 0
  BY <1>2, <1>3
<1>. QED
  BY <1>5, <1>6, <1>11, <1>12 DEF Kept

\* What is held back at the end is written as it is, and no rune of it is full.
LEMMA FlushRest ==
  ASSUME Texts, Kept, out' = out \o carry, cuts' \subseteq cuts \union {Len(out')},
         UNCHANGED <<carry, seen>>, pc' = "done"
  PROVE  Texts' /\ TextExact'
<1>1. out' \in Seq(Bytes) /\ out' \o <<>> = out' /\ <<>> \in Seq(Bytes)
      /\ Len(out') = Len(out) + Len(carry) /\ Len(out) \in Nat /\ Len(carry) \in Nat
  BY Joined DEF Texts
<1>2. Texts'
  BY <1>1 DEF Texts
<1>3. ASSUME NEW cut \in cuts', NEW i \in DOMAIN out', IsRune(out', i)
      PROVE  ~(i <= cut /\ cut < i + out'[i] - 1)
  <2>1. CASE cut \in cuts
    <3>1. cut \in 0 .. Len(out) /\ Clean(cut, out' \o <<>>)
      BY <1>1, <2>1 DEF Kept
    <3>2. cut \in 0 .. Len(out')
      BY <1>1, <3>1
    <3>. QED
      BY <1>1, <1>3, <3>1, <3>2, NoRuneIsCut
  <2>2. CASE cut = Len(out')
    <3>1. i + out'[i] - 1 <= Len(out') /\ out'[i] \in Nat /\ i \in Nat
      <4>1. out'[i] \in Nat /\ i \in Nat
        BY <1>1, BytesAreNumbers
      <4>2. i + out'[i] - 1 <= Len(out')
        BY <1>3 DEF IsRune
      <4>. QED
        BY <4>1, <4>2
    <3>2. Len(out') \in Nat
      BY <1>1
    <3>. QED
      BY <2>2, <3>1, <3>2
  <2>. QED
    BY <1>3, <2>1, <2>2
<1>4. seen' = out'
  BY DEF Kept
<1>5. TextExact' <=>
        /\ ~stopped' => seen' = IF pc' = "done" THEN out' ELSE out' \o carry'
        /\ \A cut \in cuts', i \in DOMAIN out' :
             IsRune(out', i) => ~(i <= cut /\ cut < i + out'[i] - 1)
  BY DEF TextExact, IsRune
<1>. QED
  BY <1>2, <1>3, <1>4, <1>5

\* While the consumer goes on, Kept is the whole invariant; once it stopped, the
\* text is exact.
LEMMA KeptIsWhole ==
  ASSUME Texts', Kept', stopped' \in BOOLEAN, pc' = "done" <=> stopped'
  PROVE  Whole'
<1>1. (Texts /\ Kept /\ stopped => TextExact)'
  BY KeptIsExact, PTL
<1>. QED
  BY <1>1 DEF Whole, Kept

\* Every step keeps the text.
LEMMA TextStep ==
  ASSUME Texts, Scalars, Whole, [Next]_vars
  PROVE  Texts' /\ Whole'
<1>1. ASSUME pc # "done", stopped' \in BOOLEAN, pc' = "done" <=> stopped',
             UNCHANGED <<carry, seen, out, cuts>>
      PROVE  Texts' /\ Whole'
  <2>1. Texts'
    BY <1>1 DEF Texts
  <2>2. Kept'
    BY <1>1 DEF Whole, Kept, Clean
  <2>. QED
    BY <1>1, <2>1, <2>2, KeptIsWhole
<1>2. ASSUME pc # "done", stopped' \in BOOLEAN, pc' = "done" <=> stopped',
             NEW bytes \in Seq(Bytes),
             seen' = seen \o bytes,
             carry' = SplitIncompleteUTF8(carry \o bytes).rest,
             out' = out \o SplitIncompleteUTF8(carry \o bytes).complete,
             cuts' \subseteq cuts \union {Len(out')}
      PROVE  Texts' /\ Whole'
  <2>1. Kept
    BY <1>2 DEF Whole, Kept
  <2>2. Texts' /\ Kept'
    BY <1>2, <2>1, TakeBytes
  <2>. QED
    BY <1>2, <2>2, KeptIsWhole
<1>3. ASSUME pc # "done", pc' = "done", out' = out \o carry,
             cuts' \subseteq cuts \union {Len(out')}, UNCHANGED <<carry, seen>>
      PROVE  Texts' /\ Whole'
  <2>1. Kept
    BY <1>3 DEF Whole, Kept
  <2>2. Texts' /\ TextExact'
    BY <1>3, <2>1, FlushRest
  <2>. QED
    BY <1>3, <2>2 DEF Whole
<1>4. out \o <<>> = out
  BY DEF Texts
<1>5. pc # "done" => ~stopped /\ stopped = FALSE
  BY DEF Whole, Scalars
<1>6. \A bytes \in Chunks : bytes \in Seq(Bytes)
  <2>1. \A n \in Nat : [1 .. n -> Bytes] \subseteq Seq(Bytes)
    OBVIOUS
  <2>2. Len(seen) \in Nat
    BY DEF Texts
  <2>. QED
    BY <2>1, <2>2, BoundsAssumption DEF Chunks
<1>7. CASE Header
  BY <1>1, <1>7 DEF Header, Answer, recording
<1>8. CASE Skip
  BY <1>1, <1>5, <1>8 DEF Skip, Arrives, NoLine
<1>9. CASE SourceError
  BY <1>1, <1>9 DEF SourceError, Answer, recording
<1>10. CASE OutputPlain
  <2>1. PICK ts \in 0 .. MaxTime, bytes \in Chunks :
          LET split == SplitIncompleteUTF8(carry \o bytes) IN
          /\ Arrives(ts)
          /\ seen' = seen \o bytes
          /\ carry' = split.rest
          /\ IF split.complete = <<>>
             THEN /\ lastEventTime' = Cursor(ts)
                  /\ NoLine /\ UNCHANGED <<pc, stopped>>
             ELSE /\ lastEventTime' = ts
                  /\ Line(ts - Cursor(ts), ts, split.complete) /\ Answer("loop")
    BY <1>10 DEF OutputPlain
  <2>2. CASE SplitIncompleteUTF8(carry \o bytes).complete = <<>>
    BY <1>2, <1>4, <1>5, <1>6, <2>1, <2>2 DEF Arrives, NoLine
  <2>3. CASE SplitIncompleteUTF8(carry \o bytes).complete # <<>>
    BY <1>2, <1>6, <2>1, <2>3 DEF Arrives, Line, Answer
  <2>. QED
    BY <2>2, <2>3
<1>11. CASE OutputBegins
  BY <1>1, <1>5, <1>11 DEF OutputBegins, Arrives, NoLine
<1>12. CASE Segment
  <2>1. PICK at \in read .. event, bytes \in Chunks :
          LET split == SplitIncompleteUTF8(carry \o bytes) IN
          /\ read' = at
          /\ seen' = seen \o bytes
          /\ carry' = split.rest
          /\ IF split.complete = <<>>
             THEN UNCHANGED <<recording, lastEventTime, pc, stopped>>
             ELSE /\ Line(Larger(at - lastEventTime, 0), at, split.complete)
                  /\ lastEventTime' = Larger(at, lastEventTime)
                  /\ Answer("segments")
    BY <1>12 DEF Segment
  <2>2. pc = "segments"
    BY <1>12 DEF Segment
  <2>3. CASE SplitIncompleteUTF8(carry \o bytes).complete = <<>>
    BY <1>2, <1>4, <1>5, <1>6, <2>1, <2>2, <2>3 DEF recording
  <2>4. CASE SplitIncompleteUTF8(carry \o bytes).complete # <<>>
    BY <1>2, <1>6, <2>1, <2>2, <2>4 DEF Line, Answer
  <2>. QED
    BY <2>3, <2>4
<1>13. CASE OutputEnds
  BY <1>1, <1>5, <1>13 DEF OutputEnds, recording
<1>14. CASE Resize
  BY <1>1, <1>4, <1>14 DEF Resize, Arrives, Line, Answer
<1>15. CASE Status
  <2>1. pc = "loop" /\ UNCHANGED <<carry, seen, out, cuts>>
    BY <1>4, <1>15 DEF Status, MarkAt, Line, NoLine
  <2>2. stopped' \in BOOLEAN /\ (pc' = "done" <=> stopped')
    BY <1>5, <1>15 DEF Status, Answer
  <2>. QED
    BY <1>1, <2>1, <2>2
<1>16. CASE End
  BY <1>3, <1>16 DEF End, Arrives, Line
<1>17. CASE SourceEnds
  <2>1. out' = out \o carry /\ cuts' \subseteq cuts \union {Len(out')}
    BY <1>4, <1>17 DEF SourceEnds, Line, recording
  <2>. QED
    BY <1>3, <1>17, <2>1 DEF SourceEnds
<1>18. CASE UNCHANGED vars
  BY <1>18 DEF vars, state, recording, Texts, Whole, TextExact, Clean, IsRune
<1>. QED
  BY <1>7, <1>8, <1>9, <1>10, <1>11, <1>12, <1>13, <1>14, <1>15, <1>16, <1>17, <1>18
     DEF Next

-----------------------------------------------------------------------------
(* The time.                                                                *)

\* Every step keeps the cursor.
LEMMA TimeStep ==
  ASSUME Scalars, Cursors, [Next]_vars
  PROVE  Scalars' /\ Cursors'
<1> USE BoundsAssumption DEF Scalars, Cursors, Unset
<1>1. CASE Header
  BY <1>1 DEF Header, Answer, source, recording
<1>2. CASE Skip
  BY <1>2 DEF Skip, Arrives, Cursor, NoLine
<1>3. CASE SourceError
  BY <1>3 DEF SourceError, Answer, source, recording
<1>4. CASE OutputPlain
  <2>1. PICK ts \in 0 .. MaxTime :
          /\ Arrives(ts) /\ UNCHANGED <<marked, read>>
          /\ \/ lastEventTime' = Cursor(ts) /\ NoLine /\ UNCHANGED <<pc, stopped>>
             \/ /\ lastEventTime' = ts /\ Answer("loop")
                /\ elapsed' = elapsed + (ts - Cursor(ts)) /\ latest' = Larger(latest, ts)
    BY <1>4 DEF OutputPlain, Line
  <2>2. CASE lastEventTime' = Cursor(ts) /\ NoLine /\ UNCHANGED <<pc, stopped>>
    BY <2>1, <2>2 DEF Arrives, Cursor, NoLine
  <2>3. CASE /\ lastEventTime' = ts /\ Answer("loop")
             /\ elapsed' = elapsed + (ts - Cursor(ts)) /\ latest' = Larger(latest, ts)
    <3>1. /\ latest' = ts /\ lastEventTime' = ts /\ event' = ts /\ ts \in event .. MaxTime
          /\ first' = IF first = Unset THEN ts ELSE first
          /\ elapsed' = ts - first'
      BY <2>1, <2>3 DEF Arrives, Cursor, Larger
    <3>2. stopped' \in BOOLEAN /\ pc' \in {"loop", "done"}
      BY <2>3 DEF Answer
    <3>. QED
      BY <2>1, <3>1, <3>2
  <2>. QED
    BY <2>1, <2>2, <2>3
<1>5. CASE OutputBegins
  BY <1>5 DEF OutputBegins, Arrives, Cursor, NoLine
<1>6. CASE Segment
  <2>1. PICK at \in read .. event :
          /\ pc = "segments" /\ UNCHANGED <<marked, event, first>> /\ read' = at
          /\ \/ UNCHANGED <<recording, lastEventTime, pc, stopped>>
             \/ /\ lastEventTime' = Larger(at, lastEventTime) /\ Answer("segments")
                /\ elapsed' = elapsed + Larger(at - lastEventTime, 0)
                /\ latest' = Larger(latest, at)
    BY <1>6 DEF Segment, Line
  <2>2. CASE UNCHANGED <<recording, lastEventTime, pc, stopped>>
    BY <2>1, <2>2 DEF recording
  <2>3. CASE /\ lastEventTime' = Larger(at, lastEventTime) /\ Answer("segments")
             /\ elapsed' = elapsed + Larger(at - lastEventTime, 0)
             /\ latest' = Larger(latest, at)
    <3>1. /\ latest' = lastEventTime' /\ latest' \in 0 .. event /\ first <= latest'
          /\ elapsed' = latest' - first /\ first # Unset
      BY <2>1, <2>3 DEF Larger
    <3>2. stopped' \in BOOLEAN /\ pc' \in {"segments", "done"}
      BY <2>3 DEF Answer
    <3>3. Scalars'
      BY <2>1, <3>1, <3>2
    <3>4. first' # Unset /\ latest' # Unset /\ pc' # "header" /\ UNCHANGED first
      BY <2>1, <3>1, <3>2
    <3>5. Cursors'
      BY <3>1, <3>4
    <3>. QED
      BY <3>3, <3>5
  <2>. QED
    BY <2>1, <2>2, <2>3
<1>7. CASE OutputEnds
  BY <1>7 DEF OutputEnds, source, recording
<1>8. CASE Resize
  <2>1. PICK ts \in 0 .. MaxTime :
          /\ Arrives(ts) /\ lastEventTime' = ts /\ Answer("loop")
          /\ elapsed' = elapsed + (ts - Cursor(ts)) /\ latest' = Larger(latest, ts)
    BY <1>8 DEF Resize, Line
  <2>2. /\ latest' = ts /\ lastEventTime' = ts /\ event' = ts /\ ts \in event .. MaxTime
        /\ first' = IF first = Unset THEN ts ELSE first
        /\ elapsed' = ts - first' /\ pc = "loop"
    BY <2>1 DEF Arrives, Cursor, Larger
  <2>3. stopped' \in BOOLEAN /\ pc' \in {"loop", "done"} /\ UNCHANGED <<marked, read>>
    BY <1>8, <2>1 DEF Answer, Resize
  <2>. QED
    BY <2>2, <2>3
<1>9. CASE Status
  <2>1. PICK yielded \in event .. MaxTime, id \in Ids, key \in Keys, at \in Int :
          /\ at \in read .. yielded
          /\ event' = yielded /\ read' = at
          /\ first' = IF first = Unset THEN at ELSE first
          /\ \/ /\ lastEventTime' = Cursor(at) /\ NoLine
                /\ UNCHANGED <<marked, pc, stopped>>
             \/ /\ marked' = [marked EXCEPT ![id] = key]
                /\ MarkAt(at) /\ Answer("loop")
    <3>1. PICK yielded \in event .. MaxTime, id \in Ids, key \in Keys :
            \E at \in read .. yielded :
              /\ event' = yielded /\ read' = at
              /\ first' = IF first = Unset THEN at ELSE first
              /\ \/ /\ lastEventTime' = Cursor(at) /\ NoLine
                    /\ UNCHANGED <<marked, pc, stopped>>
                 \/ /\ marked' = [marked EXCEPT ![id] = key]
                    /\ MarkAt(at) /\ Answer("loop")
      BY <1>9 DEF Status
    <3>. QED
      BY <3>1
  <2>2. pc = "loop" /\ marked' \in [Ids -> Keys \union {NoKey}]
    BY <1>9, <2>1 DEF Status
  <2>3. CASE lastEventTime' = Cursor(at) /\ NoLine /\ UNCHANGED <<marked, pc, stopped>>
    BY <2>1, <2>2, <2>3 DEF Cursor, NoLine
  <2>4. CASE MarkAt(at) /\ Answer("loop")
    <3>1. /\ latest' = lastEventTime' /\ latest' \in 0 .. yielded /\ first' <= latest'
          /\ elapsed' = latest' - first' /\ first' \in 0 .. yielded
      BY <2>1, <2>2, <2>4 DEF MarkAt, Line, Cursor, Larger
    <3>2. stopped' \in BOOLEAN /\ pc' \in {"loop", "done"}
      BY <2>4 DEF Answer
    <3>3. Scalars'
      BY <2>1, <2>2, <3>1, <3>2
    <3>4. first' # Unset /\ latest' # Unset /\ pc' # "header"
      BY <3>1, <3>2
    <3>5. Cursors'
      BY <3>1, <3>4
    <3>. QED
      BY <3>3, <3>5
  <2>. QED
    BY <2>1, <2>3, <2>4
<1>10. CASE End
  <2>1. PICK ts \in 0 .. MaxTime :
          /\ Arrives(ts) /\ UNCHANGED <<lastEventTime, marked, read>>
          /\ elapsed' = elapsed + (ts - Cursor(ts)) /\ latest' = Larger(latest, ts)
          /\ stopped' \in BOOLEAN /\ pc' = "done"
    BY <1>10 DEF End, Line
  <2>2. /\ latest' = ts /\ event' = ts /\ ts \in event .. MaxTime
        /\ first' = IF first = Unset THEN ts ELSE first
        /\ elapsed' = ts - first'
    BY <2>1 DEF Arrives, Cursor, Larger
  <2>. QED
    BY <2>1, <2>2
<1>11. CASE SourceEnds
  BY <1>11 DEF SourceEnds, Line, Larger, source, recording
<1>12. CASE UNCHANGED vars
  BY <1>12 DEF vars, state, source, recording
<1>. QED
  BY <1>1, <1>2, <1>3, <1>4, <1>5, <1>6, <1>7, <1>8, <1>9, <1>10, <1>11, <1>12
     DEF Next

\* A status is marked when it changes what is known of its id, and what was known
\* is the latest status about it.
LEMMA MarkStep ==
  ASSUME Scalars, Marking, [Next]_vars
  PROVE  Marking'
<1>0. PICK n \in Nat : n = Len(reports) + 1
  BY DEF Marking
<1>1. CASE Status
  <2>1. PICK id \in Ids, key \in Keys :
          /\ reports' = Append(reports, <<id, key>>)
          /\ IF IsMarked(id, key)
             THEN UNCHANGED <<marked, markers>>
             ELSE /\ marked' = [marked EXCEPT ![id] = key]
                  /\ markers' = Append(markers, Len(reports'))
    BY <1>1 DEF Status
  <2>2. /\ reports \in Seq(Ids \X Keys) /\ markers \in Seq(Nat)
        /\ marked \in [Ids -> Keys \union {NoKey}] /\ Len(reports) \in Nat
        /\ Len(markers) \in Nat
    BY DEF Marking, Scalars
  <2>3. /\ reports' \in Seq(Ids \X Keys) /\ Len(reports') = n
        /\ \A i \in 1 .. Len(reports) : reports'[i] = reports[i]
        /\ reports'[n] = <<id, key>>
    BY <1>0, <2>1, <2>2
  <2>4. PICK last \in 0 .. Len(reports) :
          /\ IF last = 0 THEN marked[id] = NoKey ELSE reports[last] = <<id, marked[id]>>
          /\ \A k \in last + 1 .. Len(reports) : reports[k][1] # id
    <3>1. CASE marked[id] = NoKey /\ \A i \in 1 .. Len(reports) : reports[i][1] # id
      BY <2>2, <3>1
    <3>2. CASE \E i \in 1 .. Len(reports) :
                 /\ reports[i] = <<id, marked[id]>>
                 /\ \A k \in i + 1 .. Len(reports) : reports[k][1] # id
      <4>1. PICK i \in 1 .. Len(reports) :
              /\ reports[i] = <<id, marked[id]>>
              /\ \A k \in i + 1 .. Len(reports) : reports[k][1] # id
        BY <3>2
      <4>2. i # 0 /\ i \in 0 .. Len(reports)
        OBVIOUS
      <4>. QED
        BY <4>1, <4>2
    <3>. QED
      BY <3>1, <3>2 DEF Marking
  <2>5. Changes(n)' <=> ~ IsMarked(id, key)
    <3>1. ASSUME IsMarked(id, key)
          PROVE  ~ Changes(n)'
      <4>1. last \in 1 .. Len(reports) /\ reports[last] = <<id, key>>
        BY <2>4, <3>1, KeysAssumption DEF IsMarked
      <4>2. last \in 1 .. n - 1 /\ reports'[last] = reports'[n]
        BY <1>0, <2>2, <2>3, <4>1
      <4>3. \A k \in last + 1 .. n - 1 : reports'[k][1] # reports'[n][1]
        BY <1>0, <2>2, <2>3, <2>4
      <4>. QED
        BY <4>2, <4>3 DEF Changes
    <3>2. ASSUME ~ IsMarked(id, key)
          PROVE  Changes(n)'
      <4>1. ASSUME NEW j \in 1 .. n - 1,
                   \A k \in j + 1 .. n - 1 : reports'[k][1] # reports'[n][1],
                   reports'[j] = reports'[n]
            PROVE  FALSE
        <5>1. j \in 1 .. Len(reports) /\ reports[j] = <<id, key>>
          BY <1>0, <2>2, <2>3, <4>1
        <5>2. reports[j][1] = id
          BY <5>1
        <5>3. j <= last
          BY <2>2, <2>4, <5>1, <5>2
        <5>4. CASE j = last
          <6>1. reports[last] = <<id, marked[id]>>
            BY <2>4, <5>1, <5>4
          <6>. QED
            BY <3>2, <5>1, <5>4, <6>1 DEF IsMarked
        <5>5. CASE j < last
          <6>1. last \in j + 1 .. n - 1 /\ last # 0
            BY <1>0, <2>2, <5>1, <5>5
          <6>2. reports'[last][1] # id
            BY <2>3, <4>1, <6>1
          <6>3. last \in 1 .. Len(reports)
            BY <6>1
          <6>4. reports'[last] = <<id, marked[id]>>
            BY <2>3, <2>4, <6>1, <6>3
          <6>. QED
            BY <6>2, <6>4
        <5>. QED
          BY <2>2, <5>1, <5>3, <5>4, <5>5
      <4>. QED
        BY <4>1 DEF Changes
    <3>. QED
      BY <3>1, <3>2
  <2>6. \A i \in 1 .. Len(reports) : Changes(i)' <=> Changes(i)
    <3>1. ASSUME NEW i \in 1 .. Len(reports)
          PROVE  Changes(i)' <=> Changes(i)
      <4>1. /\ reports'[i] = reports[i]
            /\ \A j \in 1 .. i - 1 : reports'[j] = reports[j]
            /\ \A j \in 1 .. i - 1 : \A k \in j + 1 .. i - 1 : reports'[k] = reports[k]
        <5>1. \A k \in 1 .. i : k \in 1 .. Len(reports)
          BY <2>2
        <5>2. \A k \in 1 .. i : reports'[k] = reports[k]
          BY <2>3, <5>1
        <5>. QED
          BY <5>2
      <4>. QED
        BY <4>1 DEF Changes
    <3>. QED
      BY <3>1
  <2>7. DOMAIN reports' = (DOMAIN reports) \union {n} /\ n \notin DOMAIN reports
    BY <1>0, <2>2, <2>3
  <2>8. \A k \in DOMAIN markers : markers[k] \in DOMAIN reports
    BY DEF Marking, MarkersTell, Range
  <2>9. markers' \in Seq(Nat) /\ MarkersTell'
    <3>1. CASE IsMarked(id, key)
      <4>1. markers' = markers
        BY <2>1, <3>1
      <4>2. {i \in DOMAIN reports' : Changes(i)'} = {i \in DOMAIN reports : Changes(i)}
        <5>1. \A i \in DOMAIN reports : Changes(i)' <=> Changes(i)
          BY <2>2, <2>6
        <5>2. ~ Changes(n)'
          BY <2>5, <3>1
        <5>. QED
          BY <2>7, <5>1, <5>2
      <4>. QED
        BY <2>2, <4>1, <4>2 DEF Marking, MarkersTell
    <3>2. CASE ~ IsMarked(id, key)
      <4>1. markers' = Append(markers, n)
        BY <2>1, <2>3, <3>2
      <4>2. /\ markers' \in Seq(Nat) /\ Len(markers') = Len(markers) + 1
            /\ \A k \in 1 .. Len(markers) : markers'[k] = markers[k]
            /\ markers'[Len(markers) + 1] = n
        BY <2>2, <4>1
      <4>3. DOMAIN markers' = (DOMAIN markers) \union {Len(markers) + 1}
            /\ DOMAIN markers = 1 .. Len(markers)
        <5>1. DOMAIN markers = 1 .. Len(markers)
          BY <2>2
        <5>2. DOMAIN markers' = 1 .. Len(markers) + 1
          BY <4>2
        <5>. QED
          BY <2>2, <5>1, <5>2
      <4>4. Range(markers') = Range(markers) \union {n}
        BY <4>2, <4>3 DEF Range
      <4>5. {i \in DOMAIN reports' : Changes(i)'}
              = {i \in DOMAIN reports : Changes(i)} \union {n}
        <5>1. \A i \in DOMAIN reports : Changes(i)' <=> Changes(i)
          BY <2>2, <2>6
        <5>2. Changes(n)'
          BY <2>5, <3>2
        <5>. QED
          BY <2>7, <5>1, <5>2
      <4>6. ASSUME NEW k \in DOMAIN markers', NEW l \in DOMAIN markers', k < l
            PROVE  markers'[k] < markers'[l]
        <5>1. k \in 1 .. Len(markers)
          BY <2>2, <4>3, <4>6
        <5>2. markers'[k] = markers[k] /\ markers[k] \in 1 .. Len(reports)
          BY <2>2, <2>8, <4>2, <4>3, <5>1
        <5>3. CASE l = Len(markers) + 1
          BY <1>0, <2>2, <4>2, <5>2, <5>3
        <5>4. CASE l \in 1 .. Len(markers)
          BY <4>2, <4>3, <4>6, <5>1, <5>2, <5>4 DEF Marking, MarkersTell
        <5>. QED
          BY <4>3, <5>3, <5>4
      <4>. QED
        BY <4>2, <4>4, <4>5, <4>6 DEF Marking, MarkersTell
    <3>. QED
      BY <3>1, <3>2
  <2>10. ASSUME NEW other \in Ids
         PROVE  \/ marked'[other] = NoKey /\ \A i \in 1 .. Len(reports') : reports'[i][1] # other
                \/ \E i \in 1 .. Len(reports') :
                     /\ reports'[i] = <<other, marked'[other]>>
                     /\ \A k \in i + 1 .. Len(reports') : reports'[k][1] # other
    <3>1. CASE other = id
      <4>1. marked'[id] = key
        BY <2>1, <2>2 DEF IsMarked
      <4>2. n \in 1 .. Len(reports') /\ n + 1 .. Len(reports') = {}
        BY <1>0, <2>2, <2>3
      <4>. QED
        BY <2>3, <3>1, <4>1, <4>2
    <3>2. CASE other # id
      <4>1. marked'[other] = marked[other]
        BY <2>1, <2>2, <3>2
      <4>2. reports'[n][1] # other
        BY <2>3, <3>2
      <4>3. CASE marked[other] = NoKey /\ \A i \in 1 .. Len(reports) : reports[i][1] # other
        <5>1. ASSUME NEW i \in 1 .. Len(reports')
              PROVE  reports'[i][1] # other
          <6>1. i \in 1 .. Len(reports) \/ i = n
            BY <1>0, <2>2, <2>3
          <6>2. i \in 1 .. Len(reports) => reports'[i] = reports[i]
            BY <2>3
          <6>. QED
            BY <4>2, <4>3, <6>1, <6>2
        <5>. QED
          BY <4>1, <4>3, <5>1
      <4>4. CASE \E i \in 1 .. Len(reports) :
                   /\ reports[i] = <<other, marked[other]>>
                   /\ \A k \in i + 1 .. Len(reports) : reports[k][1] # other
        <5>1. PICK i \in 1 .. Len(reports) :
                /\ reports[i] = <<other, marked[other]>>
                /\ \A k \in i + 1 .. Len(reports) : reports[k][1] # other
          BY <4>4
        <5>2. i \in 1 .. Len(reports') /\ reports'[i] = <<other, marked'[other]>>
          BY <1>0, <2>2, <2>3, <4>1, <5>1
        <5>3. ASSUME NEW k \in i + 1 .. Len(reports')
              PROVE  reports'[k][1] # other
          <6>1. k \in i + 1 .. Len(reports) \/ k = n
            BY <1>0, <2>2, <2>3
          <6>2. k \in i + 1 .. Len(reports) => reports'[k] = reports[k]
            BY <2>2, <2>3
          <6>. QED
            BY <4>2, <5>1, <6>1, <6>2
        <5>. QED
          BY <5>2, <5>3
      <4>. QED
        BY <4>3, <4>4 DEF Marking
    <3>. QED
      BY <3>1, <3>2
  <2>. QED
    BY <2>3, <2>9, <2>10 DEF Marking
<1>2. ASSUME UNCHANGED <<reports, markers, marked>>
      PROVE  Marking'
  <2>1. ASSUME NEW i
        PROVE  Changes(i)' <=> Changes(i)
    BY <1>2 DEF Changes
  <2>2. {i \in DOMAIN reports' : Changes(i)'} = {i \in DOMAIN reports : Changes(i)}
    BY <1>2, <2>1
  <2>3. MarkersTell'
    BY <1>2, <2>2 DEF Marking, MarkersTell
  <2>. QED
    BY <1>2, <2>3 DEF Marking
<1>3. CASE Header \/ Skip \/ SourceError \/ OutputPlain \/ OutputBegins
  BY <1>2, <1>3 DEF Header, Skip, SourceError, OutputPlain, OutputBegins
<1>4. CASE Segment \/ OutputEnds \/ Resize \/ End \/ SourceEnds
  BY <1>2, <1>4 DEF Segment, OutputEnds, Resize, End, SourceEnds
<1>5. CASE UNCHANGED vars
  BY <1>2, <1>5 DEF vars, state
<1>. QED
  BY <1>1, <1>3, <1>4, <1>5 DEF Next

\* The invariant holds initially.
LEMMA InitHolds == Init => IInv
<1> SUFFICES ASSUME Init PROVE IInv
  OBVIOUS
<1>1. Texts
  BY DEF Init, Texts
<1>2. 0 \in 0 .. MaxTime /\ 0 \in 0 .. 0
  BY BoundsAssumption
<1>3. Scalars /\ Cursors
  BY <1>2 DEF Init, Scalars, Cursors, Unset
<1>4. Whole
  BY DEF Init, Whole, Clean
<1>5. Marking
  BY DEF Init, Marking, MarkersTell, Range
<1>. QED
  BY <1>1, <1>3, <1>4, <1>5 DEF IInv

-----------------------------------------------------------------------------
(* The theorems.                                                            *)

\* The inductive invariant holds of the specification.
THEOREM InvariantHolds == Spec => []IInv
<1>1. IInv /\ [Next]_vars => IInv'
  BY TextStep, TimeStep, MarkStep DEF IInv
<1>. QED
  BY InitHolds, <1>1, PTL DEF Spec

\* The recorder's fields keep their types; never are more than three bytes held
\* back, and the intervals never exceed the time of the latest event.
THEOREM TypeCorrect == Spec => []TypeOK
<1>1. IInv => TypeOK
  <2> SUFFICES ASSUME IInv PROVE TypeOK
    OBVIOUS
  <2>1. carry \in BoundedSeq(Bytes, 3)
    <3>1. carry \in Seq(Bytes) /\ Len(carry) <= 3
      BY DEF IInv, Texts
    <3>2. carry \in [1 .. Len(carry) -> Bytes] /\ Len(carry) \in Nat
      BY <3>1, LenProperties
    <3>. QED
      BY <3>1, <3>2 DEF BoundedSeq, SeqOf
  <2>2. elapsed \in 0 .. event
    BY BoundsAssumption DEF IInv, Scalars, Cursors, Unset
  <2>3. lastEventTime \in {Unset} \union 0 .. MaxTime
    BY BoundsAssumption DEF IInv, Scalars
  <2>. QED
    BY <2>1, <2>2, <2>3 DEF IInv, Scalars, TypeOK
<1>. QED
  BY InvariantHolds, <1>1, PTL

\* The recording has every byte of output once and in order, and no line of it
\* ends inside a rune, however reads split the bytes.
THEOREM RecordsTextExactly == Spec => []TextExact
<1>1. IInv => TextExact
  <2> SUFFICES ASSUME IInv, pc # "done" PROVE TextExact
    BY DEF IInv, Whole
  <2>1. \A cut \in cuts, i \in DOMAIN out :
          IsRune(out, i) => ~(i <= cut /\ cut < i + out[i] - 1)
    BY NoRuneIsCut DEF IInv, Texts, Whole
  <2>. QED
    BY <2>1 DEF IInv, Whole, TextExact
<1>. QED
  BY InvariantHolds, <1>1, PTL

\* Played back, the recording comes at the times its lines were written for,
\* though segments and statuses are read before what was written last.
THEOREM PlaysInTime == Spec => []RecordingTime
<1>1. IInv => RecordingTime
  BY DEF IInv, Cursors, RecordingTime
<1>. QED
  BY InvariantHolds, <1>1, PTL

\* A marker is written when the state or kind changes for an id, and only then,
\* whatever other ids report in between.
THEOREM MarkersTellChanges == Spec => []MarkersTell
<1>1. IInv => MarkersTell
  BY DEF IInv, Marking
<1>. QED
  BY InvariantHolds, <1>1, PTL

=============================================================================
