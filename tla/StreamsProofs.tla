----------------------------- MODULE StreamsProofs -----------------------------
(***************************************************************************)
(* The theorems of what keeps arriving.  A completion, for every alphabet, *)
(* every pair of tags, every text and every way to cut it: the parser of   *)
(* deltas reads what the parser of the whole text does.  And of the badge, *)
(* for any number of polls: what it is told is recent.                     *)
(***************************************************************************)
EXTENDS MCStreams, Recursion, SequenceTheorems, FiniteSetTheorems, TLAPS

-------------------------------------------------------------------------------
(* Text, and where a tag stands in it.                                     *)

Text == Seq(Char)

LEMMA TagsAreText ==
    ASSUME NEW tag \in {OpenTag, CloseTag}
    PROVE  tag \in Text /\ Len(tag) \in Nat /\ Len(tag) >= 1
<1>1. tag \in Text /\ tag # <<>>
    BY CodecAssumption DEF Text
<1> QED
    BY <1>1, EmptySeq DEF Text

(* A text cut at a place.                                                  *)
LEMMA CutTyped ==
    ASSUME NEW s \in Text, NEW i \in 1..Len(s) + 1
    PROVE  /\ Upto(s, i) \in Text /\ Len(Upto(s, i)) = i - 1
           /\ \A k \in 1..i - 1 : Upto(s, i)[k] = s[k]
           /\ From(s, i) \in Text /\ Len(From(s, i)) = Len(s) - i + 1
           /\ \A k \in 1..Len(s) - i + 1 : From(s, i)[k] = s[i + k - 1]
<1>1. s \in Seq(Char) /\ Len(s) \in Nat
    BY DEF Text
<1>2. \A k \in 1..i - 1 : s[k] \in Char
    BY <1>1, ElementOfSeq
<1>3. \A k \in i..Len(s) : s[k] \in Char
    BY <1>1, ElementOfSeq
<1>4. /\ SubSeq(s, 1, i - 1) \in Seq(Char)
      /\ Len(SubSeq(s, 1, i - 1)) = IF 1 <= i - 1 THEN i - 1 - 1 + 1 ELSE 0
      /\ \A k \in 1..i - 1 - 1 + 1 : SubSeq(s, 1, i - 1)[k] = s[1 + k - 1]
    <2>1. 1 \in Int /\ i - 1 \in Int
        OBVIOUS
    <2> QED
        BY <1>2, <2>1, SubSeqProperties
<1>5. /\ SubSeq(s, i, Len(s)) \in Seq(Char)
      /\ Len(SubSeq(s, i, Len(s))) = IF i <= Len(s) THEN Len(s) - i + 1 ELSE 0
      /\ \A k \in 1..Len(s) - i + 1 : SubSeq(s, i, Len(s))[k] = s[i + k - 1]
    BY <1>1, <1>3, SubSeqProperties
<1>6. Upto(s, i) \in Text /\ From(s, i) \in Text
    BY <1>4, <1>5 DEF Text, Upto, From
<1>7. Len(Upto(s, i)) = i - 1 /\ \A k \in 1..i - 1 : Upto(s, i)[k] = s[k]
    BY <1>1, <1>4 DEF Upto
<1>8. Len(From(s, i)) = Len(s) - i + 1 /\ \A k \in 1..Len(s) - i + 1 : From(s, i)[k] = s[i + k - 1]
    BY <1>1, <1>5 DEF From
<1> QED
    BY <1>6, <1>7, <1>8

LEMMA JoinTyped ==
    ASSUME NEW s \in Text, NEW t \in Text
    PROVE  /\ s \o t \in Text /\ Len(s \o t) = Len(s) + Len(t)
           /\ \A k \in 1..Len(s) : (s \o t)[k] = s[k]
           /\ \A k \in 1..Len(t) : (s \o t)[Len(s) + k] = t[k]
<1>1. s \in Seq(Char) /\ t \in Seq(Char) /\ Len(s) \in Nat /\ Len(t) \in Nat
    BY DEF Text
<1>2. /\ s \o t \in Seq(Char)
      /\ Len(s \o t) = Len(s) + Len(t)
      /\ \A i \in 1..Len(s) + Len(t) : (s \o t)[i] = IF i <= Len(s) THEN s[i] ELSE t[i - Len(s)]
    BY <1>1, ConcatProperties, Zenon
<1> QED
    BY <1>1, <1>2 DEF Text

(* Texts of the same length and characters are the same.                   *)
LEMMA SameText ==
    ASSUME NEW s \in Text, NEW t \in Text, Len(s) = Len(t), \A i \in 1..Len(s) : s[i] = t[i]
    PROVE  s = t
BY SeqEqual DEF Text

LEMMA CutJoins ==
    ASSUME NEW s \in Text, NEW i \in 1..Len(s) + 1
    PROVE  Upto(s, i) \o From(s, i) = s
<1>1. Len(s) \in Nat
    BY DEF Text
<1> DEFINE a == Upto(s, i)
           b == From(s, i)
<1>2. /\ a \in Text /\ Len(a) = i - 1 /\ \A k \in 1..i - 1 : a[k] = s[k]
      /\ b \in Text /\ Len(b) = Len(s) - i + 1 /\ \A k \in 1..Len(s) - i + 1 : b[k] = s[i + k - 1]
    BY CutTyped
<1> HIDE DEF a, b
<1>3. /\ a \o b \in Text /\ Len(a \o b) = Len(a) + Len(b)
      /\ \A k \in 1..Len(a) : (a \o b)[k] = a[k]
      /\ \A k \in 1..Len(b) : (a \o b)[Len(a) + k] = b[k]
    BY <1>2, JoinTyped
<1>4. ASSUME NEW k \in 1..Len(a \o b)
      PROVE  (a \o b)[k] = s[k]
    <2>1. CASE k <= Len(a)
        BY <1>1, <1>2, <1>3, <2>1
    <2>2. CASE k > Len(a)
        <3>1. k - Len(a) \in 1..Len(b) /\ k = Len(a) + (k - Len(a))
            BY <1>1, <1>2, <1>3, <2>2
        <3>2. (a \o b)[k] = b[k - Len(a)]
            BY <1>3, <3>1
        <3>3. b[k - Len(a)] = s[i + (k - Len(a)) - 1]
            BY <1>1, <1>2, <3>1
        <3>4. i + (k - Len(a)) - 1 = k
            BY <1>1, <1>2, <3>1
        <3> QED
            BY <3>2, <3>3, <3>4
    <2> QED
        BY <1>1, <1>2, <1>3, <2>1, <2>2
<1>5. Len(a \o b) = Len(s)
    BY <1>1, <1>2, <1>3
<1> QED
    BY <1>3, <1>4, <1>5, SameText DEF a, b

(* A tag stands where its characters do.                                   *)
LEMMA PlaceIs ==
    ASSUME NEW s \in Text, NEW tag \in Text, Len(tag) >= 1, NEW i \in Int
    PROVE  i \in Places(s, tag) <=>
              /\ 1 <= i /\ i + Len(tag) - 1 <= Len(s)
              /\ \A k \in 1..Len(tag) : s[i + k - 1] = tag[k]
<1>1. Len(s) \in Nat /\ Len(tag) \in Nat
    BY DEF Text
<1>2. ASSUME i \notin 1..Len(s)
      PROVE  i \notin Places(s, tag) /\ ~(1 <= i /\ i + Len(tag) - 1 <= Len(s))
    BY <1>1, <1>2 DEF Places
<1>3. ASSUME i \in 1..Len(s)
      PROVE  i \in Places(s, tag) <=>
                /\ i + Len(tag) - 1 <= Len(s)
                /\ \A k \in 1..Len(tag) : s[i + k - 1] = tag[k]
    <2> DEFINE b == From(s, i)
    <2>1. /\ b \in Text /\ Len(b) = Len(s) - i + 1
          /\ \A k \in 1..Len(s) - i + 1 : b[k] = s[i + k - 1]
        BY <1>1, <1>3, CutTyped
    <2>2. i \in Places(s, tag) <=> IsPrefix(tag, b)
        BY <1>3 DEF Places
    <2> HIDE DEF b
    <2>3. Len(tag) <= Len(b) <=> i + Len(tag) - 1 <= Len(s)
        BY <1>1, <1>3, <2>1
    <2>4. ASSUME Len(tag) <= Len(b)
          PROVE  SubSeq(tag, 1, Len(tag)) = SubSeq(b, 1, Len(tag)) <=>
                    \A k \in 1..Len(tag) : s[i + k - 1] = tag[k]
        <3>1. SubSeq(tag, 1, Len(tag)) = tag
            BY SubSeqFull DEF Text
        <3>2. Len(tag) + 1 \in 1..Len(b) + 1 /\ SubSeq(b, 1, Len(tag)) = Upto(b, Len(tag) + 1)
            BY <1>1, <2>1, <2>4 DEF Upto
        <3> DEFINE c == SubSeq(b, 1, Len(tag))
        <3>3. c \in Text /\ Len(c) = Len(tag) /\ \A k \in 1..Len(tag) : c[k] = b[k]
            <4> DEFINE j == Len(tag) + 1
            <4>1. j \in 1..Len(b) + 1 /\ j - 1 = Len(tag) /\ c = Upto(b, j)
                BY <1>1, <3>2
            <4> HIDE DEF j, c
            <4>2. Upto(b, j) \in Text /\ Len(Upto(b, j)) = j - 1
                  /\ \A k \in 1..j - 1 : Upto(b, j)[k] = b[k]
                BY <2>1, <4>1, CutTyped
            <4> QED
                BY <4>1, <4>2
        <3> HIDE DEF c
        <3>4. \A k \in 1..Len(tag) : b[k] = s[i + k - 1]
            BY <1>1, <2>1, <2>4
        <3>5. tag = c <=> \A k \in 1..Len(tag) : tag[k] = c[k]
            BY <3>3, SameText
        <3>6. SubSeq(tag, 1, Len(tag)) = SubSeq(b, 1, Len(tag)) <=> tag = c
            BY <3>1 DEF c
        <3>7. (\A k \in 1..Len(tag) : tag[k] = c[k]) <=> \A k \in 1..Len(tag) : s[i + k - 1] = tag[k]
            BY <3>3, <3>4
        <3> QED
            BY <3>5, <3>6, <3>7
    <2> QED
        BY <2>2, <2>3, <2>4 DEF IsPrefix
<1> QED
    BY <1>1, <1>2, <1>3

(* The first of the places, if there is one.                               *)
LEMMA FirstPlace ==
    ASSUME NEW s \in Text, NEW tag \in Text, Has(s, tag)
    PROVE  /\ Min(Places(s, tag)) \in Places(s, tag)
           /\ \A i \in Places(s, tag) : Min(Places(s, tag)) <= i
<1>1. Places(s, tag) \in SUBSET Nat /\ Places(s, tag) # {}
    BY DEF Places, Has, Text
<1>2. \E n \in Places(s, tag) : \A i \in Places(s, tag) : n <= i
    BY <1>1, LeastNatural, Zenon
<1> QED
    BY <1>2 DEF Min

LEMMA FirstPlaceIs ==
    ASSUME NEW s \in Text, NEW tag \in Text, NEW i \in Places(s, tag),
           \A j \in Places(s, tag) : i <= j
    PROVE  Has(s, tag) /\ Min(Places(s, tag)) = i
<1>1. Has(s, tag)
    BY DEF Has
<1>2. Min(Places(s, tag)) \in Places(s, tag) /\ Min(Places(s, tag)) <= i
    BY <1>1, FirstPlace
<1>3. i <= Min(Places(s, tag))
    BY <1>2
<1>4. Places(s, tag) \subseteq Int
    BY DEF Places
<1> QED
    BY <1>1, <1>2, <1>3, <1>4

(* What stands before and after it.                                        *)
LEMMA FoundTyped ==
    ASSUME NEW s \in Text, NEW tag \in {OpenTag, CloseTag}, Has(s, tag)
    PROVE  /\ Before(s, tag) \in Text /\ After(s, tag) \in Text
           /\ Len(After(s, tag)) < Len(s)
<1> DEFINE i == Min(Places(s, tag))
<1>1. i \in Places(s, tag)
    BY TagsAreText, FirstPlace
<1>2. i \in Int
    BY <1>1 DEF Places
<1> HIDE DEF i
<1>3. 1 <= i /\ i + Len(tag) - 1 <= Len(s) /\ Len(tag) >= 1 /\ Len(tag) \in Nat /\ Len(s) \in Nat
    BY <1>1, <1>2, PlaceIs, TagsAreText DEF Text
<1>4. i \in 1..Len(s) + 1 /\ i + Len(tag) \in 1..Len(s) + 1
    BY <1>2, <1>3
<1>5. Upto(s, i) \in Text /\ From(s, i + Len(tag)) \in Text
      /\ Len(From(s, i + Len(tag))) = Len(s) - (i + Len(tag)) + 1
    BY <1>4, CutTyped
<1>6. Len(From(s, i + Len(tag))) < Len(s)
    BY <1>2, <1>3, <1>5
<1> QED
    BY <1>5, <1>6 DEF Before, After, i

(* What follows a tag does not change where it is found.                   *)
LEMMA FoundExtended ==
    ASSUME NEW s \in Text, NEW tag \in {OpenTag, CloseTag}, Has(s, tag), NEW d \in Text
    PROVE  /\ Has(s \o d, tag)
           /\ Before(s \o d, tag) = Before(s, tag)
           /\ After(s \o d, tag) = After(s, tag) \o d
<1> DEFINE i == Min(Places(s, tag))
           sd == s \o d
           n == Len(tag)
<1>0. tag \in Text /\ n \in Nat /\ n >= 1 /\ Len(s) \in Nat /\ Len(d) \in Nat
    BY TagsAreText DEF Text
<1>1. i \in Places(s, tag) /\ \A j \in Places(s, tag) : i <= j
    BY <1>0, FirstPlace
<1>2. i \in Int
    BY <1>1 DEF Places
<1>3. /\ sd \in Text /\ Len(sd) = Len(s) + Len(d)
      /\ \A k \in 1..Len(s) : sd[k] = s[k]
      /\ \A k \in 1..Len(d) : sd[Len(s) + k] = d[k]
    BY JoinTyped
<1> HIDE DEF i, sd, n
<1>4. 1 <= i /\ i + n - 1 <= Len(s) /\ \A k \in 1..n : s[i + k - 1] = tag[k]
    BY <1>0, <1>1, <1>2, PlaceIs DEF n
<1>5. ASSUME NEW j \in Int, j + n - 1 <= Len(s)
      PROVE  j \in Places(sd, tag) <=> j \in Places(s, tag)
    <2>1. j \in Places(sd, tag) <=>
            1 <= j /\ j + n - 1 <= Len(sd) /\ \A k \in 1..n : sd[j + k - 1] = tag[k]
        BY <1>0, <1>3, PlaceIs DEF n
    <2>2. j \in Places(s, tag) <=>
            1 <= j /\ j + n - 1 <= Len(s) /\ \A k \in 1..n : s[j + k - 1] = tag[k]
        BY <1>0, PlaceIs DEF n
    <2>3. 1 <= j => \A k \in 1..n : sd[j + k - 1] = s[j + k - 1]
        BY <1>0, <1>3, <1>5
    <2>4. j + n - 1 <= Len(sd)
        BY <1>0, <1>3, <1>5
    <2>5. 1 <= j => ((\A k \in 1..n : sd[j + k - 1] = tag[k]) <=> \A k \in 1..n : s[j + k - 1] = tag[k])
        BY <2>3
    <2> QED
        BY <1>5, <2>1, <2>2, <2>4, <2>5
<1>6. i \in Places(sd, tag)
    BY <1>1, <1>2, <1>4, <1>5
<1>7. ASSUME NEW j \in Places(sd, tag)
      PROVE  i <= j
    <2>1. j \in Int
        BY DEF Places
    <2>2. CASE j + n - 1 <= Len(s)
        BY <1>1, <1>5, <2>1, <2>2
    <2>3. CASE j + n - 1 > Len(s)
        BY <1>0, <1>2, <1>4, <2>1, <2>3
    <2> QED
        BY <1>0, <2>1, <2>2, <2>3
<1>8. Has(sd, tag) /\ Min(Places(sd, tag)) = i
    BY <1>0, <1>3, <1>6, <1>7, FirstPlaceIs
<1>9. Upto(sd, i) = Upto(s, i)
    <2>1. i \in 1..Len(s) + 1 /\ i \in 1..Len(sd) + 1
        BY <1>0, <1>2, <1>3, <1>4
    <2>2. Upto(sd, i) \in Text /\ Len(Upto(sd, i)) = i - 1 /\ \A k \in 1..i - 1 : Upto(sd, i)[k] = sd[k]
        BY <1>3, <2>1, CutTyped
    <2>3. Upto(s, i) \in Text /\ Len(Upto(s, i)) = i - 1 /\ \A k \in 1..i - 1 : Upto(s, i)[k] = s[k]
        BY <2>1, CutTyped
    <2>4. \A k \in 1..i - 1 : sd[k] = s[k]
        BY <1>0, <1>2, <1>3, <1>4
    <2> QED
        BY <2>2, <2>3, <2>4, SameText
<1>10. From(sd, i + n) = From(s, i + n) \o d
    <2> DEFINE m == i + n
               b == From(s, m)
               bd == From(sd, m)
    <2>1. m \in 1..Len(s) + 1 /\ m \in 1..Len(sd) + 1 /\ m \in Int
        BY <1>0, <1>2, <1>3, <1>4
    <2> HIDE DEF m
    <2>2. /\ b \in Text /\ Len(b) = Len(s) - m + 1
          /\ \A k \in 1..Len(s) - m + 1 : b[k] = s[m + k - 1]
        BY <2>1, CutTyped
    <2>3. /\ bd \in Text /\ Len(bd) = Len(sd) - m + 1
          /\ \A k \in 1..Len(sd) - m + 1 : bd[k] = sd[m + k - 1]
        BY <1>3, <2>1, CutTyped
    <2> HIDE DEF b, bd
    <2>4. /\ b \o d \in Text /\ Len(b \o d) = Len(b) + Len(d)
          /\ \A k \in 1..Len(b) : (b \o d)[k] = b[k]
          /\ \A k \in 1..Len(d) : (b \o d)[Len(b) + k] = d[k]
        BY <2>2, JoinTyped
    <2>5. Len(bd) = Len(b \o d)
        BY <1>0, <1>3, <2>1, <2>2, <2>3, <2>4
    <2>6. ASSUME NEW k \in 1..Len(bd)
          PROVE  bd[k] = (b \o d)[k]
        <3>1. CASE k <= Len(b)
            <4>1. m + k - 1 \in 1..Len(s) /\ k \in 1..Len(b)
                BY <1>0, <2>1, <2>2, <3>1
            <4>2. bd[k] = sd[m + k - 1] /\ b[k] = s[m + k - 1]
                BY <2>2, <2>3, <3>1
            <4> QED
                BY <1>3, <2>4, <4>1, <4>2
        <3>2. CASE k > Len(b)
            <4>1. k - Len(b) \in 1..Len(d) /\ m + k - 1 = Len(s) + (k - Len(b))
                  /\ k = Len(b) + (k - Len(b))
                BY <1>0, <1>3, <2>1, <2>2, <2>3, <3>2
            <4>2. bd[k] = sd[m + k - 1]
                BY <2>3
            <4>3. sd[m + k - 1] = d[k - Len(b)]
                BY <1>3, <4>1
            <4>4. (b \o d)[k] = d[k - Len(b)]
                BY <2>4, <4>1
            <4> QED
                BY <4>2, <4>3, <4>4
        <3> QED
            BY <1>0, <2>1, <2>2, <2>3, <1>3, <3>1, <3>2
    <2>7. bd = b \o d
        BY <2>3, <2>4, <2>5, <2>6, SameText
    <2> QED
        BY <2>7 DEF b, bd, m
<1> QED
    BY <1>8, <1>9, <1>10 DEF Before, After, i, n, sd

(* A beginning in which no tag starts can be cut off.                      *)
LEMMA FoundShifted ==
    ASSUME NEW a \in Text, NEW c \in Text, NEW tag \in {OpenTag, CloseTag},
           \A i \in Places(a \o c, tag) : i > Len(a)
    PROVE  /\ Has(a \o c, tag) <=> Has(c, tag)
           /\ Has(c, tag) => /\ Before(a \o c, tag) = a \o Before(c, tag)
                             /\ After(a \o c, tag) = After(c, tag)
<1> DEFINE s == a \o c
           n == Len(tag)
<1>0. tag \in Text /\ n \in Nat /\ n >= 1 /\ Len(a) \in Nat /\ Len(c) \in Nat
    BY TagsAreText DEF Text
<1>1. /\ s \in Text /\ Len(s) = Len(a) + Len(c)
      /\ \A k \in 1..Len(a) : s[k] = a[k]
      /\ \A k \in 1..Len(c) : s[Len(a) + k] = c[k]
    BY JoinTyped
<1>2. \A i \in Places(s, tag) : i > Len(a)
    OBVIOUS
<1> HIDE DEF s, n
<1>9. \A i \in Int : i \in Places(s, tag) <=>
        1 <= i /\ i + n - 1 <= Len(s) /\ \A k \in 1..n : s[i + k - 1] = tag[k]
    BY <1>0, <1>1, PlaceIs DEF n
<1>3. ASSUME NEW j \in Int
      PROVE  j \in Places(c, tag) <=> Len(a) + j \in Places(s, tag)
    <2>1. Len(a) + j \in Int
        BY <1>0
    <2>2. j \in Places(c, tag) <=>
            1 <= j /\ j + n - 1 <= Len(c) /\ \A k \in 1..n : c[j + k - 1] = tag[k]
        BY <1>0, PlaceIs DEF n
    <2>3. Len(a) + j \in Places(s, tag) <=>
            1 <= Len(a) + j /\ (Len(a) + j) + n - 1 <= Len(s)
            /\ \A k \in 1..n : s[(Len(a) + j) + k - 1] = tag[k]
        BY <1>9, <2>1
    <2>4. CASE j < 1
        BY <1>0, <1>2, <2>2, <2>4
    <2>5. CASE j >= 1
        <3>1. (Len(a) + j) + n - 1 <= Len(s) <=> j + n - 1 <= Len(c)
            BY <1>0, <1>1
        <3>2. ASSUME j + n - 1 <= Len(c), NEW k \in 1..n
              PROVE  s[(Len(a) + j) + k - 1] = c[j + k - 1]
            <4>1. j + k - 1 \in 1..Len(c) /\ (Len(a) + j) + k - 1 = Len(a) + (j + k - 1)
                BY <1>0, <2>5, <3>2
            <4> QED
                BY <1>1, <4>1
        <3>3. 1 <= Len(a) + j
            BY <1>0, <2>5
        <3> QED
            BY <2>2, <2>3, <2>5, <3>1, <3>2, <3>3
    <2> QED
        BY <2>4, <2>5
<1>4. ASSUME NEW i \in Places(s, tag)
      PROVE  i - Len(a) \in Places(c, tag)
    <2>1. i \in Int
        BY DEF Places
    <2>2. i - Len(a) \in Int /\ Len(a) + (i - Len(a)) = i
        BY <1>0, <2>1
    <2> QED
        BY <1>3, <2>2
<1>5. Has(s, tag) <=> Has(c, tag)
    <2>1. Has(s, tag) => Has(c, tag)
        BY <1>4 DEF Has
    <2>2. ASSUME NEW j \in Places(c, tag)
          PROVE  Len(a) + j \in Places(s, tag)
        BY <1>3 DEF Places
    <2> QED
        BY <2>1, <2>2 DEF Has
<1>6. ASSUME Has(c, tag)
      PROVE  Before(s, tag) = a \o Before(c, tag) /\ After(s, tag) = After(c, tag)
    <2> DEFINE j == Min(Places(c, tag))
    <2>1. j \in Places(c, tag) /\ \A i \in Places(c, tag) : j <= i
        BY <1>0, <1>6, FirstPlace
    <2>2. j \in Int
        BY <2>1 DEF Places
    <2> HIDE DEF j
    <2>3. 1 <= j /\ j + n - 1 <= Len(c)
        BY <1>0, <2>1, <2>2, PlaceIs DEF n
    <2>4. Len(a) + j \in Places(s, tag)
        BY <1>3, <2>1, <2>2
    <2>5. ASSUME NEW i \in Places(s, tag)
          PROVE  Len(a) + j <= i
        <3>1. j <= i - Len(a) /\ i \in Int
            BY <1>4, <2>1 DEF Places
        <3> QED
            BY <1>0, <2>2, <3>1
    <2>6. Min(Places(s, tag)) = Len(a) + j
        BY <1>0, <1>1, <2>4, <2>5, FirstPlaceIs
    <2>7. Upto(s, Len(a) + j) = a \o Upto(c, j)
        <3> DEFINE u == Upto(c, j)
                   x == Upto(s, Len(a) + j)
        <3>1. j \in 1..Len(c) + 1 /\ Len(a) + j \in 1..Len(s) + 1
            BY <1>0, <1>1, <2>2, <2>3
        <3>2. u \in Text /\ Len(u) = j - 1 /\ \A k \in 1..j - 1 : u[k] = c[k]
            BY <3>1, CutTyped
        <3>3. /\ x \in Text /\ Len(x) = Len(a) + j - 1
              /\ \A k \in 1..Len(a) + j - 1 : x[k] = s[k]
            <4>1. \A m \in 1..Len(s) + 1 :
                    /\ Upto(s, m) \in Text /\ Len(Upto(s, m)) = m - 1
                    /\ \A k \in 1..m - 1 : Upto(s, m)[k] = s[k]
                BY <1>1, CutTyped
            <4> HIDE DEF x
            <4>2. x = Upto(s, Len(a) + j)
                BY DEF x
            <4> QED
                BY <3>1, <4>1, <4>2
        <3> HIDE DEF u, x
        <3>4. /\ a \o u \in Text /\ Len(a \o u) = Len(a) + Len(u)
              /\ \A k \in 1..Len(a) : (a \o u)[k] = a[k]
              /\ \A k \in 1..Len(u) : (a \o u)[Len(a) + k] = u[k]
            BY <3>2, JoinTyped
        <3>5. Len(x) = Len(a \o u)
            BY <1>0, <2>2, <3>2, <3>3, <3>4
        <3>6. ASSUME NEW k \in 1..Len(x)
              PROVE  x[k] = (a \o u)[k]
            <4>1. CASE k <= Len(a)
                BY <1>0, <1>1, <3>3, <3>4, <4>1
            <4>2. CASE k > Len(a)
                <5>1. k - Len(a) \in 1..Len(u) /\ k - Len(a) \in 1..Len(c) /\ k = Len(a) + (k - Len(a))
                    BY <1>0, <2>2, <2>3, <3>2, <3>3, <4>2
                <5>2. x[k] = s[k]
                    BY <3>3
                <5>3. s[k] = c[k - Len(a)]
                    BY <1>1, <5>1
                <5>4. (a \o u)[k] = u[k - Len(a)]
                    BY <3>4, <5>1
                <5>5. u[k - Len(a)] = c[k - Len(a)]
                    BY <3>2, <5>1
                <5> QED
                    BY <5>2, <5>3, <5>4, <5>5
            <4>3. k <= Len(a) \/ k > Len(a)
                BY <1>0
            <4> QED
                BY <4>1, <4>2, <4>3, Zenon
        <3>7. x = a \o u
            BY <3>3, <3>4, <3>5, <3>6, SameText
        <3> QED
            BY <3>7 DEF x, u
    <2>8. From(s, Len(a) + j + n) = From(c, j + n)
        <3> DEFINE m == j + n
                   u == From(c, m)
                   x == From(s, Len(a) + m)
        <3>1. m \in 1..Len(c) + 1 /\ Len(a) + m \in 1..Len(s) + 1 /\ Len(a) + j + n = Len(a) + m
            BY <1>0, <1>1, <2>2, <2>3
        <3> HIDE DEF m
        <3>2. /\ u \in Text /\ Len(u) = Len(c) - m + 1
              /\ \A k \in 1..Len(c) - m + 1 : u[k] = c[m + k - 1]
            BY <3>1, CutTyped
        <3>3. /\ x \in Text /\ Len(x) = Len(s) - (Len(a) + m) + 1
              /\ \A k \in 1..Len(s) - (Len(a) + m) + 1 : x[k] = s[Len(a) + m + k - 1]
            BY <1>1, <3>1, CutTyped
        <3> HIDE DEF u, x
        <3>4. Len(x) = Len(u)
            BY <1>0, <1>1, <3>1, <3>2, <3>3
        <3>5. ASSUME NEW k \in 1..Len(x)
              PROVE  x[k] = u[k]
            <4>1. m + k - 1 \in 1..Len(c) /\ Len(a) + m + k - 1 = Len(a) + (m + k - 1)
                BY <1>0, <3>1, <3>2, <3>4
            <4>2. x[k] = s[Len(a) + m + k - 1]
                BY <3>3
            <4>3. s[Len(a) + m + k - 1] = c[m + k - 1]
                BY <1>1, <4>1
            <4>4. u[k] = c[m + k - 1]
                BY <3>2, <3>4
            <4> QED
                BY <4>2, <4>3, <4>4
        <3>6. x = u
            BY <3>2, <3>3, <3>4, <3>5, SameText
        <3> QED
            BY <3>1, <3>6 DEF x, u, m
    <2> QED
        BY <2>6, <2>7, <2>8 DEF Before, After, j, n
<1> QED
    BY <1>5, <1>6 DEF s

(* What is kept back is the longest end that may begin a tag: no tag will  *)
(* start before it, whatever follows.                                      *)
LEMMA HeldTyped ==
    ASSUME NEW buf \in Text
    PROVE  /\ Held(buf) \in 0..Len(OpenTag) - 1 /\ Held(buf) <= Len(buf)
           /\ \A n \in 0..Len(OpenTag) - 1 :
                 n <= Len(buf) /\ IsPrefix(From(buf, Len(buf) - n + 1), OpenTag) => n <= Held(buf)
<1> DEFINE top == Len(OpenTag) - 1
           H == {n \in 0..top : n <= Len(buf) /\ IsPrefix(From(buf, Len(buf) - n + 1), OpenTag)}
           Co == {top - n : n \in H}
<1>0. OpenTag \in Text /\ top \in Nat /\ Len(buf) \in Nat
    BY TagsAreText DEF Text
<1>1. 0 \in H
    <2> DEFINE e == Len(buf) - 0 + 1
    <2>1. e \in 1..Len(buf) + 1 /\ Len(buf) - e + 1 = 0
        BY <1>0
    <2> HIDE DEF e
    <2>2. From(buf, e) \in Text /\ Len(From(buf, e)) = 0
        BY <2>1, CutTyped
    <2>3. From(buf, Len(buf) - 0 + 1) = <<>>
        BY <2>2, EmptySeq DEF Text, e
    <2>4. IsPrefix(<<>>, OpenTag)
        <3>1. Len(<<>>) = 0 /\ SubSeq(<<>>, 1, 0) = <<>> /\ SubSeq(OpenTag, 1, 0) = <<>>
            BY EmptySeq, SubSeqEmpty
        <3> QED
            BY <1>0, <3>1 DEF IsPrefix, Text
    <2> QED
        BY <1>0, <2>3, <2>4
<1> HIDE DEF top
<1>2. Co \in SUBSET Nat /\ Co # {}
    BY <1>0, <1>1
<1>3. PICK k \in Co : \A j \in Co : k <= j
    BY <1>2, LeastNatural, Zenon
<1>4. PICK h \in H : k = top - h
    BY <1>3
<1>5. \A n \in H : n <= h
    <2> TAKE n \in H
    <2>1. top - n \in Co
        OBVIOUS
    <2>2. top - h <= top - n
        BY <1>3, <1>4, <2>1
    <2> QED
        BY <1>0, <2>2
<1> HIDE DEF H, Co
<1>6. Max(H) \in H /\ \A n \in H : n <= Max(H)
    BY <1>4, <1>5 DEF Max
<1>7. Held(buf) = Max(H)
    BY DEF Held, H, top
<1> QED
    BY <1>6, <1>7 DEF H, top

LEMMA HeldBack ==
    ASSUME NEW buf \in Text, ~Has(buf, OpenTag), NEW d \in Text
    PROVE  \A i \in Places(buf \o d, OpenTag) : i > Len(buf) - Held(buf)
<1> SUFFICES ASSUME NEW i \in Places(buf \o d, OpenTag), ~(i > Len(buf) - Held(buf))
             PROVE  FALSE
    OBVIOUS
<1> DEFINE s == buf \o d
           n == Len(OpenTag)
           rest == Len(buf) - i + 1
<1>0. OpenTag \in Text /\ n \in Nat /\ n >= 1 /\ Len(buf) \in Nat /\ Len(d) \in Nat /\ i \in Int
    BY TagsAreText DEF Text, Places
<1>1. Held(buf) \in 0..n - 1 /\ Held(buf) <= Len(buf)
    BY HeldTyped
<1>2. /\ s \in Text /\ Len(s) = Len(buf) + Len(d)
      /\ \A k \in 1..Len(buf) : s[k] = buf[k]
    BY JoinTyped
<1>3. i \in Places(s, OpenTag)
    OBVIOUS
<1> HIDE DEF s, n
<1>4. 1 <= i /\ i + n - 1 <= Len(s) /\ \A k \in 1..n : s[i + k - 1] = OpenTag[k]
    BY <1>0, <1>2, <1>3, PlaceIs DEF n
<1>5. CASE i + n - 1 <= Len(buf)
    <2>1. \A k \in 1..n : buf[i + k - 1] = OpenTag[k]
        BY <1>0, <1>2, <1>4, <1>5
    <2>2. i \in Places(buf, OpenTag)
        BY <1>0, <1>4, <1>5, <2>1, PlaceIs DEF n
    <2> QED
        BY <2>2 DEF Has
<1>6. CASE i + n - 1 > Len(buf)
    <2>1. rest \in 0..n - 1 /\ rest <= Len(buf) /\ rest > Held(buf) /\ Len(buf) - rest + 1 = i
        BY <1>0, <1>1, <1>4, <1>6
    <2>2. i \in 1..Len(buf) + 1
        BY <1>0, <1>1, <1>4
    <2> DEFINE b == From(buf, i)
    <2>3. b \in Text /\ Len(b) = rest /\ \A k \in 1..rest : b[k] = buf[i + k - 1]
        BY <2>2, CutTyped
    <2> HIDE DEF b, rest
    <2>4. IsPrefix(b, OpenTag)
        <3>1. SubSeq(b, 1, Len(b)) = b
            BY <2>3, SubSeqFull DEF Text
        <3> DEFINE j == rest + 1
        <3>2. j \in 1..Len(OpenTag) + 1 /\ j - 1 = rest /\ SubSeq(OpenTag, 1, rest) = Upto(OpenTag, j)
            BY <1>0, <2>1 DEF Upto, n
        <3> HIDE DEF j
        <3>3. /\ Upto(OpenTag, j) \in Text /\ Len(Upto(OpenTag, j)) = rest
              /\ \A k \in 1..rest : Upto(OpenTag, j)[k] = OpenTag[k]
            BY <1>0, <3>2, CutTyped
        <3>4. ASSUME NEW k \in 1..rest
              PROVE  b[k] = OpenTag[k]
            <4>1. k \in 1..n /\ i + k - 1 \in 1..Len(buf)
                BY <1>0, <1>4, <2>1, <2>2
            <4> QED
                BY <1>2, <1>4, <2>3, <4>1
        <3>5. b = Upto(OpenTag, j)
            BY <2>3, <3>3, <3>4, SameText
        <3> QED
            BY <1>0, <2>1, <2>3, <3>1, <3>2, <3>5 DEF IsPrefix, n
    <2>5. rest <= Held(buf)
        BY <2>1, <2>4, HeldTyped DEF b, n
    <2> QED
        BY <1>1, <2>1, <2>5
<1> QED
    BY <1>0, <1>5, <1>6

-----------------------------------------------------------------------------
(* The readings of texts, and what is left to read in or outside a call.   *)
Readings == [text : Text, payloads : Seq(Text), unclosed : BOOLEAN]

Unread(s) == [text |-> s, payloads |-> <<>>, unclosed |-> FALSE]
CutShort(s) == [text |-> s, payloads |-> <<>>, unclosed |-> TRUE]

Prefixed(s, payloads, r) ==
    [text |-> s \o r.text, payloads |-> payloads \o r.payloads, unclosed |-> r.unclosed]

ToClose(s) == After(s, OpenTag)

WholeBody(f, s) ==
    IF ~Has(s, OpenTag) THEN Unread(s)
    ELSE IF ~Has(ToClose(s), CloseTag) THEN CutShort(Before(s, OpenTag))
    ELSE Prefixed(Before(s, OpenTag), <<Before(ToClose(s), CloseTag)>>, f[After(ToClose(s), CloseTag)])

LEMMA PrefixedTyped ==
    ASSUME NEW s \in Text, NEW payloads \in Seq(Text), NEW r \in Readings
    PROVE  Prefixed(s, payloads, r) \in Readings
<1>1. r.text \in Text /\ r.payloads \in Seq(Text) /\ r.unclosed \in BOOLEAN
    BY DEF Readings
<1>2. s \o r.text \in Text
    BY <1>1, JoinTyped
<1>3. payloads \o r.payloads \in Seq(Text)
    BY <1>1, ConcatProperties
<1> QED
    BY <1>1, <1>2, <1>3 DEF Prefixed, Readings

LEMMA JoinAssociates ==
    ASSUME NEW s \in Text, NEW t \in Text, NEW u \in Text
    PROVE  (s \o t) \o u = s \o (t \o u)
<1>1. s \in Seq(Char) /\ t \in Seq(Char) /\ u \in Seq(Char)
    BY DEF Text
<1> QED
    BY ONLY <1>1, ConcatAssociative, SMTT(30)

LEMMA PrefixedTwice ==
    ASSUME NEW s \in Text, NEW t \in Text, NEW l \in Seq(Text), NEW k \in Seq(Text), NEW r \in Readings
    PROVE  Prefixed(s, l, Prefixed(t, k, r)) = Prefixed(s \o t, l \o k, r)
<1> DEFINE x == r.text
           y == r.payloads
<1>1. x \in Text /\ y \in Seq(Text)
    BY DEF Readings
<1> HIDE DEF x, y
<1>2. s \o (t \o x) = (s \o t) \o x
    BY <1>1, JoinAssociates
<1>3. l \o (k \o y) = (l \o k) \o y
    BY ONLY <1>1, ConcatAssociative, SMTT(30)
<1> QED
    BY <1>2, <1>3 DEF Prefixed, x, y

LEMMA PlainReadings ==
    ASSUME NEW s \in Text
    PROVE  Unread(s) \in Readings /\ CutShort(s) \in Readings
<1>1. <<>> \in Seq(Text)
    BY EmptySeq
<1> QED
    BY <1>1 DEF Unread, CutShort, Readings

LEMMA OpenFound ==
    ASSUME NEW s \in Text, Has(s, OpenTag)
    PROVE  Before(s, OpenTag) \in Text /\ ToClose(s) \in Text /\ Len(ToClose(s)) < Len(s)
BY FoundTyped DEF ToClose

LEMMA CloseFound ==
    ASSUME NEW s \in Text, Has(s, CloseTag)
    PROVE  /\ Before(s, CloseTag) \in Text /\ After(s, CloseTag) \in Text
           /\ Len(After(s, CloseTag)) < Len(s) /\ <<Before(s, CloseTag)>> \in Seq(Text)
<1>1. /\ Before(s, CloseTag) \in Text /\ After(s, CloseTag) \in Text
      /\ Len(After(s, CloseTag)) < Len(s)
    BY FoundTyped
<1>2. <<Before(s, CloseTag)>> \in Seq(Text)
    BY <1>1
<1> QED
    BY <1>1, <1>2

(* The recursion of Whole comes to an end: what follows a call is shorter. *)
LEMMA WholeIs ==
    \A s \in Text : Whole[s] \in Readings /\ Whole[s] = WholeBody(Whole, s)
<1> DEFINE stop == {s \in Text : ~Has(s, OpenTag) \/ ~Has(ToClose(s), CloseTag)}
           m == [s \in Text |-> Len(s)]
           next == [s \in Text |-> IF s \in stop THEN s ELSE After(ToClose(s), CloseTag)]
           out == [s \in Text |-> IF ~Has(s, OpenTag) THEN Unread(s)
                                  ELSE IF s \in stop THEN CutShort(Before(s, OpenTag)) ELSE Unread(s)]
           comb == [s \in Text |-> [r \in Readings |->
                      IF s \in stop THEN r
                      ELSE Prefixed(Before(s, OpenTag), <<Before(ToClose(s), CloseTag)>>, r)]]
<1>1. m \in [Text -> Nat]
    BY DEF Text
<1>2. \A s \in Text \ stop :
        /\ Has(s, OpenTag) /\ Has(ToClose(s), CloseTag)
        /\ Before(s, OpenTag) \in Text /\ ToClose(s) \in Text
        /\ After(ToClose(s), CloseTag) \in Text
        /\ <<Before(ToClose(s), CloseTag)>> \in Seq(Text)
        /\ Len(After(ToClose(s), CloseTag)) < Len(s)
    <2> TAKE s \in Text \ stop
    <2>1. Has(s, OpenTag) /\ Has(ToClose(s), CloseTag)
        OBVIOUS
    <2>2. Before(s, OpenTag) \in Text /\ ToClose(s) \in Text /\ Len(ToClose(s)) < Len(s)
        BY <2>1, OpenFound
    <2>3. /\ After(ToClose(s), CloseTag) \in Text
          /\ Len(After(ToClose(s), CloseTag)) < Len(ToClose(s))
          /\ <<Before(ToClose(s), CloseTag)>> \in Seq(Text)
        BY <2>1, <2>2, CloseFound
    <2>4. Len(s) \in Nat /\ Len(ToClose(s)) \in Nat /\ Len(After(ToClose(s), CloseTag)) \in Nat
        BY <2>2, <2>3 DEF Text
    <2>5. Len(After(ToClose(s), CloseTag)) < Len(s)
        BY <2>2, <2>3, <2>4
    <2> QED
        BY <2>1, <2>2, <2>3, <2>5
<1>3. next \in [Text -> Text]
    BY <1>2
<1>4. out \in [Text -> Readings]
    <2>1. ASSUME NEW s \in Text
          PROVE  (IF ~Has(s, OpenTag) THEN Unread(s)
                  ELSE IF s \in stop THEN CutShort(Before(s, OpenTag)) ELSE Unread(s)) \in Readings
        <3>1. Has(s, OpenTag) => Before(s, OpenTag) \in Text
            BY OpenFound
        <3> QED
            BY <3>1, PlainReadings
    <2> QED
        BY <2>1
<1>5. comb \in [Text -> [Readings -> Readings]]
    <2>1. ASSUME NEW s \in Text, NEW r \in Readings
          PROVE  (IF s \in stop THEN r
                  ELSE Prefixed(Before(s, OpenTag), <<Before(ToClose(s), CloseTag)>>, r)) \in Readings
        <3>1. s \notin stop => Before(s, OpenTag) \in Text /\ <<Before(ToClose(s), CloseTag)>> \in Seq(Text)
            BY <1>2
        <3> QED
            BY <3>1, PrefixedTyped
    <2> QED
        BY <2>1
<1>6. \A s \in Text \ stop : m[next[s]] < m[s]
    BY <1>2
<1>7. Readings # {} /\ stop \in SUBSET Text
    <2>1. <<>> \in Text
        BY EmptySeq DEF Text
    <2> QED
        BY <2>1, PlainReadings
<1> HIDE DEF m, next, out, comb
<1>8. \E f \in [Text -> Readings] : \A s \in Text :
         f[s] = IF s \in stop THEN out[s] ELSE comb[s][f[next[s]]]
    <2>1. IsRecursion(Text, Readings, m, stop, next, out, comb)
        BY <1>1, <1>3, <1>4, <1>5, <1>6, <1>7 DEF IsRecursion
    <2> HIDE DEF stop
    <2> QED
        BY <2>1, RecursionIsDefined
<1>9. PICK f \in [Text -> Readings] : \A s \in Text :
         f[s] = IF s \in stop THEN out[s] ELSE comb[s][f[next[s]]]
    BY <1>8
<1>10. ASSUME NEW s \in Text
       PROVE  f[s] = WholeBody(f, s)
    <2>1. CASE ~Has(s, OpenTag)
        BY <1>9, <2>1 DEF out, WholeBody
    <2>2. CASE Has(s, OpenTag) /\ ~Has(ToClose(s), CloseTag)
        BY <1>9, <2>2 DEF out, WholeBody
    <2>3. CASE s \notin stop
        <3>1. f[s] = comb[s][f[next[s]]] /\ f[next[s]] \in Readings
            BY <1>3, <1>9, <2>3
        <3>2. next[s] = After(ToClose(s), CloseTag)
            BY <2>3 DEF next
        <3> QED
            BY <2>3, <3>1, <3>2 DEF comb, WholeBody
    <2> QED
        BY <2>1, <2>2, <2>3
<1> HIDE DEF stop
<1>11. f = [s \in Seq(Char) |-> WholeBody(f, s)]
    BY <1>9, <1>10 DEF Text
<1>12. Whole = CHOOSE g : g = [s \in Seq(Char) |-> WholeBody(g, s)]
    BY DEF Whole, WholeBody, Unread, CutShort, Prefixed, ToClose
<1>13. Whole = [s \in Seq(Char) |-> WholeBody(Whole, s)]
    BY <1>11, <1>12
<1>14. \A s \in Text : Whole[s] = WholeBody(Whole, s)
    BY <1>13 DEF Text
<1>15. \A s \in Text : Whole[s] \in Readings
    <2> DEFINE S == {s \in Text : Whole[s] \in Readings}
    <2>1. ASSUME NEW s \in Text, \A y \in Text : m[y] < m[s] => y \in S
          PROVE  s \in S
        <3>1. CASE ~Has(s, OpenTag)
            BY <1>14, <3>1, PlainReadings DEF WholeBody
        <3>2. CASE Has(s, OpenTag) /\ ~Has(ToClose(s), CloseTag)
            BY <1>14, <3>2, PlainReadings, OpenFound DEF WholeBody
        <3>3. CASE s \notin stop
            <4>1. After(ToClose(s), CloseTag) \in Text /\ m[After(ToClose(s), CloseTag)] < m[s]
                BY <1>2, <3>3 DEF m
            <4>2. Whole[After(ToClose(s), CloseTag)] \in Readings
                BY <2>1, <4>1
            <4>3. /\ Has(s, OpenTag) /\ Has(ToClose(s), CloseTag) /\ Before(s, OpenTag) \in Text
                  /\ <<Before(ToClose(s), CloseTag)>> \in Seq(Text)
                BY <1>2, <3>3
            <4>4. Whole[s] = Prefixed(Before(s, OpenTag), <<Before(ToClose(s), CloseTag)>>,
                                      Whole[After(ToClose(s), CloseTag)])
                BY <1>14, <4>3 DEF WholeBody
            <4> QED
                BY <4>2, <4>3, <4>4, PrefixedTyped
        <3> QED
            BY <3>1, <3>2, <3>3 DEF stop
    <2> HIDE DEF S
    <2>2. Text \subseteq S
        BY <1>1, <2>1, MeasureInduction
    <2> QED
        BY <2>2 DEF S
<1> QED
    BY <1>14, <1>15

(* What is left to read of a text, in or outside a call.                   *)
Rest(inCall, s) ==
    IF ~inCall THEN Whole[s]
    ELSE IF Has(s, CloseTag)
    THEN Prefixed(<<>>, <<Before(s, CloseTag)>>, Whole[After(s, CloseTag)])
    ELSE CutShort(<<>>)

LEMMA NoText == <<>> \in Text /\ Len(<<>>) = 0 /\ <<>> \in Seq(Text)
BY EmptySeq DEF Text

LEMMA RestTyped ==
    ASSUME NEW inCall \in BOOLEAN, NEW s \in Text
    PROVE  Rest(inCall, s) \in Readings
<1>1. CASE ~inCall
    BY <1>1, WholeIs DEF Rest
<1>2. CASE inCall /\ Has(s, CloseTag)
    <2>1. After(s, CloseTag) \in Text /\ <<Before(s, CloseTag)>> \in Seq(Text)
        BY <1>2, CloseFound
    <2>2. Whole[After(s, CloseTag)] \in Readings
        BY <2>1, WholeIs
    <2> QED
        BY <1>2, <2>1, <2>2, NoText, PrefixedTyped DEF Rest
<1>3. CASE inCall /\ ~Has(s, CloseTag)
    BY <1>3, NoText, PlainReadings DEF Rest
<1> QED
    BY <1>1, <1>2, <1>3

(* A text is read up to its first call, or to the end.                     *)
LEMMA WholeOpens ==
    ASSUME NEW s \in Text, Has(s, OpenTag)
    PROVE  Whole[s] = Prefixed(Before(s, OpenTag), <<>>, Rest(TRUE, ToClose(s)))
<1>1. Before(s, OpenTag) \in Text /\ ToClose(s) \in Text
    BY OpenFound
<1>2. Whole[s] = WholeBody(Whole, s)
    BY WholeIs
<1>3. CASE ~Has(ToClose(s), CloseTag)
    <2>1. Before(s, OpenTag) \o <<>> = Before(s, OpenTag) /\ <<>> \o <<>> = <<>>
        BY <1>1, NoText, ConcatEmptySeq DEF Text
    <2> QED
        BY <1>2, <1>3, <2>1 DEF WholeBody, Rest, Prefixed, CutShort
<1>4. CASE Has(ToClose(s), CloseTag)
    <2> DEFINE r == Whole[After(ToClose(s), CloseTag)]
               payload == <<Before(ToClose(s), CloseTag)>>
    <2>1. After(ToClose(s), CloseTag) \in Text /\ payload \in Seq(Text)
        BY <1>1, <1>4, CloseFound
    <2>2. r \in Readings
        BY <2>1, WholeIs
    <2>3. Whole[s] = Prefixed(Before(s, OpenTag), payload, r)
        BY <1>2, <1>4 DEF WholeBody
    <2>4. Rest(TRUE, ToClose(s)) = Prefixed(<<>>, payload, r)
        BY <1>4 DEF Rest
    <2> HIDE DEF r, payload
    <2>5. Prefixed(Before(s, OpenTag), <<>>, Rest(TRUE, ToClose(s)))
            = Prefixed(Before(s, OpenTag) \o <<>>, <<>> \o payload, r)
        <3> DEFINE b == Before(s, OpenTag)
        <3>1. b \in Text /\ <<>> \in Text /\ <<>> \in Seq(Text) /\ payload \in Seq(Text) /\ r \in Readings
            BY <1>1, <2>1, <2>2, NoText
        <3> HIDE DEF b
        <3>2. Prefixed(b, <<>>, Prefixed(<<>>, payload, r)) = Prefixed(b \o <<>>, <<>> \o payload, r)
            BY ONLY <3>1, PrefixedTwice
        <3> QED
            BY <2>4, <3>2 DEF b
    <2>6. Before(s, OpenTag) \o <<>> = Before(s, OpenTag) /\ <<>> \o payload = payload
        BY <1>1, <2>1, NoText, ConcatEmptySeq DEF Text
    <2> QED
        BY <2>3, <2>5, <2>6
<1> QED
    BY <1>3, <1>4

LEMMA WholeUnread ==
    ASSUME NEW s \in Text, ~Has(s, OpenTag)
    PROVE  Whole[s] = Unread(s)
BY WholeIs DEF WholeBody

(* Text in which no call begins can be read first.                         *)
LEMMA WholeShifts ==
    ASSUME NEW a \in Text, NEW c \in Text, \A i \in Places(a \o c, OpenTag) : i > Len(a)
    PROVE  Whole[a \o c] = Prefixed(a, <<>>, Whole[c])
<1>1. /\ Has(a \o c, OpenTag) <=> Has(c, OpenTag)
      /\ Has(c, OpenTag) => /\ Before(a \o c, OpenTag) = a \o Before(c, OpenTag)
                            /\ After(a \o c, OpenTag) = After(c, OpenTag)
    BY FoundShifted
<1>2. a \o c \in Text
    BY JoinTyped
<1>3. CASE ~Has(c, OpenTag)
    <2>1. <<>> \o <<>> = <<>>
        BY NoText, ConcatEmptySeq DEF Text
    <2>2. Whole[a \o c] = Unread(a \o c) /\ Whole[c] = Unread(c)
        BY <1>1, <1>2, <1>3, WholeUnread
    <2> QED
        BY <2>1, <2>2 DEF Prefixed, Unread
<1>4. CASE Has(c, OpenTag)
    <2> DEFINE r == Rest(TRUE, ToClose(c))
               b == Before(c, OpenTag)
    <2>1. b \in Text /\ ToClose(c) \in Text
        BY <1>4, OpenFound
    <2>2. r \in Readings
        BY <2>1, RestTyped
    <2>3. Whole[c] = Prefixed(b, <<>>, r)
        BY <1>4, WholeOpens
    <2>4. ToClose(a \o c) = ToClose(c)
        BY <1>1, <1>4 DEF ToClose
    <2>5. Whole[a \o c] = Prefixed(a \o b, <<>>, r)
        BY <1>1, <1>2, <1>4, <2>4, WholeOpens
    <2> HIDE DEF r, b
    <2>6. Prefixed(a, <<>>, Whole[c]) = Prefixed(a \o b, <<>> \o <<>>, r)
        <3>1. a \in Text /\ b \in Text /\ <<>> \in Seq(Text) /\ r \in Readings
            BY <2>1, <2>2, NoText
        <3>2. Prefixed(a, <<>>, Prefixed(b, <<>>, r)) = Prefixed(a \o b, <<>> \o <<>>, r)
            BY ONLY <3>1, PrefixedTwice
        <3> QED
            BY <2>3, <3>2
    <2>7. <<>> \o <<>> = <<>>
        BY NoText, ConcatEmptySeq DEF Text
    <2> QED
        BY <2>5, <2>6, <2>7
<1> QED
    BY <1>3, <1>4

-----------------------------------------------------------------------------
(* The loop of parse_tool_calls, one payload at a time.                    *)
AcceptedBody(f, payloads) ==
    IF payloads = <<>> THEN <<>>
    ELSE IF Last(payloads) \in Decodable /\ Len(f[Front(payloads)]) < MaxCalls
         THEN Append(f[Front(payloads)], Last(payloads)) ELSE f[Front(payloads)]

LEMMA FrontTyped ==
    ASSUME NEW payloads \in Seq(Text), payloads # <<>>
    PROVE  /\ Front(payloads) \in Seq(Text) /\ Len(Front(payloads)) < Len(payloads)
           /\ Last(payloads) \in Text
<1>1. Len(payloads) \in Nat /\ Len(payloads) # 0
    BY EmptySeq
<1>2. \A i \in 1..Len(payloads) - 1 : payloads[i] \in Text
    BY <1>1, ElementOfSeq
<1>3. 1 \in Int /\ Len(payloads) - 1 \in Int
    BY <1>1
<1>4. /\ SubSeq(payloads, 1, Len(payloads) - 1) \in Seq(Text)
      /\ Len(SubSeq(payloads, 1, Len(payloads) - 1)) =
            IF 1 <= Len(payloads) - 1 THEN Len(payloads) - 1 - 1 + 1 ELSE 0
    BY <1>2, <1>3, SubSeqProperties
<1>5. payloads[Len(payloads)] \in Text
    BY <1>1, ElementOfSeq
<1> QED
    BY <1>1, <1>4, <1>5 DEF Front, Last

LEMMA AcceptedIs ==
    \A payloads \in Seq(Text) :
        /\ Accepted[payloads] \in Seq(Decodable)
        /\ Accepted[payloads] = AcceptedBody(Accepted, payloads)
<1> DEFINE D == Seq(Text)
           V == Seq(Decodable)
           stop == {<<>>}
           m == [l \in D |-> Len(l)]
           next == [l \in D |-> IF l = <<>> THEN l ELSE Front(l)]
           out == [l \in D |-> <<>>]
           comb == [l \in D |-> [v \in V |->
                      IF l # <<>> /\ Last(l) \in Decodable /\ Len(v) < MaxCalls
                      THEN Append(v, Last(l)) ELSE v]]
<1>1. m \in [D -> Nat] /\ next \in [D -> D]
    BY FrontTyped
<1>2. <<>> \in V /\ stop \subseteq D /\ V # {} /\ out \in [D -> V]
    BY EmptySeq
<1>3. comb \in [D -> [V -> V]]
    <2>1. ASSUME NEW l \in D, NEW v \in V
          PROVE  (IF l # <<>> /\ Last(l) \in Decodable /\ Len(v) < MaxCalls
                  THEN Append(v, Last(l)) ELSE v) \in V
        BY AppendProperties
    <2> QED
        BY <2>1
<1>4. \A l \in D \ stop : m[next[l]] < m[l]
    BY FrontTyped
<1>5. IsRecursion(D, V, m, stop, next, out, comb)
    BY <1>1, <1>2, <1>3, <1>4 DEF IsRecursion
<1> HIDE DEF D, V, stop, m, next, out, comb
<1>6. PICK f \in [D -> V] : \A l \in D : f[l] = IF l \in stop THEN out[l] ELSE comb[l][f[next[l]]]
    BY <1>5, RecursionIsDefined
<1>7. ASSUME NEW l \in D
      PROVE  f[l] = AcceptedBody(f, l)
    <2>1. CASE l = <<>>
        BY <1>6, <2>1 DEF stop, out, AcceptedBody
    <2>2. CASE l # <<>>
        <3>1. f[l] = comb[l][f[next[l]]] /\ f[next[l]] \in V /\ next[l] = Front(l)
            BY <1>1, <1>6, <2>2 DEF stop, next
        <3> QED
            BY <2>2, <3>1 DEF comb, AcceptedBody
    <2> QED
        BY <2>1, <2>2
<1>8. f = [l \in Seq(Seq(Char)) |-> AcceptedBody(f, l)]
    BY <1>6, <1>7 DEF D, Text
<1>9. Accepted = CHOOSE g : g = [l \in Seq(Seq(Char)) |-> AcceptedBody(g, l)]
    BY DEF Accepted, AcceptedBody
<1>10. Accepted = [l \in Seq(Seq(Char)) |-> AcceptedBody(Accepted, l)]
    BY <1>8, <1>9
<1>11. \A l \in D : Accepted[l] = AcceptedBody(Accepted, l)
    BY <1>10 DEF D, Text
<1>12. \A l \in D : Accepted[l] \in V
    <2> DEFINE S == {l \in D : Accepted[l] \in V}
    <2>1. ASSUME NEW l \in D, \A y \in D : m[y] < m[l] => y \in S
          PROVE  l \in S
        <3>1. CASE l = <<>>
            BY <1>2, <1>11, <3>1 DEF AcceptedBody
        <3>2. CASE l # <<>>
            <4>1. Front(l) \in D /\ m[Front(l)] < m[l]
                BY <3>2, FrontTyped DEF D, m
            <4>2. Accepted[Front(l)] \in V
                BY <2>1, <4>1
            <4> QED
                <5> DEFINE v == Accepted[Front(l)]
                <5>1. v \in Seq(Decodable)
                    BY <4>2 DEF V
                <5>2. Accepted[l] = IF Last(l) \in Decodable /\ Len(v) < MaxCalls
                                    THEN Append(v, Last(l)) ELSE v
                    BY <1>11, <3>2 DEF AcceptedBody
                <5> HIDE DEF v
                <5>3. Last(l) \in Decodable => Append(v, Last(l)) \in Seq(Decodable)
                    BY <5>1, AppendProperties
                <5>4. Accepted[l] \in Seq(Decodable)
                    BY <5>1, <5>2, <5>3
                <5> QED
                    BY <5>4 DEF V
        <3> QED
            BY <3>1, <3>2
    <2> HIDE DEF S
    <2>2. D \subseteq S
        BY <1>1, <2>1, MeasureInduction
    <2> QED
        BY <2>2 DEF S
<1> QED
    BY <1>11, <1>12 DEF D, V

(* One payload more.                                                       *)
LEMMA AcceptedMore ==
    ASSUME NEW seen \in Seq(Text), NEW payload \in Text
    PROVE  /\ Append(seen, payload) \in Seq(Text)
           /\ Accepted[Append(seen, payload)] =
                 IF payload \in Decodable /\ Len(Accepted[seen]) < MaxCalls
                 THEN Append(Accepted[seen], payload) ELSE Accepted[seen]
<1> DEFINE more == Append(seen, payload)
<1>1. /\ more \in Seq(Text) /\ more # <<>> /\ Len(more) = Len(seen) + 1
      /\ \A i \in 1..Len(seen) : more[i] = seen[i]
      /\ more[Len(seen) + 1] = payload
    BY AppendProperties
<1> HIDE DEF more
<1>2. Last(more) = payload
    BY <1>1 DEF Last
<1>3. Front(more) = seen
    <2>1. Front(more) = SubSeq(more, 1, Len(seen)) /\ Len(seen) \in Nat
        BY <1>1 DEF Front
    <2> DEFINE fr == SubSeq(more, 1, Len(seen))
    <2>2. \A i \in 1..Len(seen) : more[i] \in Text
        BY <1>1, ElementOfSeq
    <2>3. /\ fr \in Seq(Text)
          /\ Len(fr) = IF 1 <= Len(seen) THEN Len(seen) - 1 + 1 ELSE 0
          /\ \A i \in 1..Len(seen) - 1 + 1 : fr[i] = more[1 + i - 1]
        <3>1. 1 \in Int /\ Len(seen) \in Int
            BY <2>1
        <3> QED
            BY <2>2, <3>1, SubSeqProperties
    <2> HIDE DEF fr
    <2>4. Len(fr) = Len(seen) /\ \A i \in 1..Len(fr) : fr[i] = seen[i]
        BY <1>1, <2>1, <2>3
    <2>5. fr = seen
        BY <2>3, <2>4, SeqEqual
    <2> QED
        BY <2>1, <2>5 DEF fr
<1>4. Accepted[more] = AcceptedBody(Accepted, more)
    BY <1>1, AcceptedIs
<1> QED
    BY <1>1, <1>2, <1>3, <1>4 DEF AcceptedBody, more

-----------------------------------------------------------------------------
(* The loop of feed: its three cases, of which the last ends it.           *)
Closed(p) ==
    [Accept(p, Before(p.buf, CloseTag)) EXCEPT !.buf = After(p.buf, CloseTag), !.inCall = FALSE]

Opened(p) ==
    [p EXCEPT !.text = @ \o Before(p.buf, OpenTag), !.buf = After(p.buf, OpenTag), !.inCall = TRUE]

HeldFrom(p) == Len(p.buf) - Held(p.buf) + 1

Shown(p) == [p EXCEPT !.text = @ \o Upto(p.buf, HeldFrom(p)), !.buf = From(p.buf, HeldFrom(p))]

AtClose(p) == p.inCall /\ Has(p.buf, CloseTag)
AtOpen(p) == ~p.inCall /\ Has(p.buf, OpenTag)

DigestBody(f, p) ==
    CASE AtClose(p) -> f[Closed(p)]
      [] AtOpen(p) -> f[Opened(p)]
      [] ~p.inCall /\ ~Has(p.buf, OpenTag) -> Shown(p)
      [] OTHER -> p

(* Nothing is left to find in the buffer of a parser that waits.           *)
Settled(p) ==
    IF p.inCall THEN ~Has(p.buf, CloseTag)
    ELSE ~Has(p.buf, OpenTag) /\ Len(p.buf) < Len(OpenTag)

(* The parser has read of r what the whole text says, whatever follows.    *)
Faithful(p, r) ==
    \E seen \in Seq(Text) :
        /\ p.calls = Accepted[seen]
        /\ \A d \in Text : Whole[r \o d] = Prefixed(p.text, seen, Rest(p.inCall, p.buf \o d))

LEMMA ParserFields ==
    ASSUME NEW p \in Parser
    PROVE  /\ p.buf \in Text /\ p.inCall \in BOOLEAN /\ p.text \in Text
           /\ p.calls \in Seq(Decodable) /\ p.errors \in Nat
BY DEF Parser, Text

LEMMA AcceptTyped ==
    ASSUME NEW p \in Parser, NEW payload \in Text
    PROVE  /\ Accept(p, payload) \in Parser
           /\ Accept(p, payload).buf = p.buf /\ Accept(p, payload).text = p.text
           /\ Accept(p, payload).calls = IF payload \in Decodable /\ Len(p.calls) < MaxCalls
                                         THEN Append(p.calls, payload) ELSE p.calls
<1>1. CASE payload \in Decodable /\ Len(p.calls) < MaxCalls
    <2>1. Append(p.calls, payload) \in Seq(Decodable)
        BY <1>1, ParserFields, AppendProperties
    <2>2. Accept(p, payload) = [p EXCEPT !.calls = Append(p.calls, payload)]
        BY <1>1 DEF Accept
    <2> QED
        BY <1>1, <2>1, <2>2 DEF Parser
<1>2. CASE ~(payload \in Decodable /\ Len(p.calls) < MaxCalls)
    <2>1. Accept(p, payload) = [p EXCEPT !.errors = p.errors + 1]
        BY <1>2 DEF Accept
    <2> QED
        BY <1>2, <2>1 DEF Parser
<1> QED
    BY <1>1, <1>2

LEMMA ClosedIs ==
    ASSUME NEW p \in Parser, AtClose(p)
    PROVE  /\ Closed(p) \in Parser
           /\ Closed(p).buf = After(p.buf, CloseTag) /\ Closed(p).inCall = FALSE
           /\ Closed(p).text = p.text
           /\ Closed(p).calls = Accept(p, Before(p.buf, CloseTag)).calls
           /\ Len(Closed(p).buf) < Len(p.buf)
<1> DEFINE x == Before(p.buf, CloseTag)
           y == After(p.buf, CloseTag)
           q == Accept(p, x)
<1>1. x \in Text /\ y \in Text /\ Len(y) < Len(p.buf)
    BY ParserFields, CloseFound DEF AtClose
<1>2. q \in Parser /\ q.text = p.text
    BY <1>1, AcceptTyped
<1>3. Closed(p) = [q EXCEPT !.buf = y, !.inCall = FALSE]
    BY DEF Closed
<1> HIDE DEF x, y, q
<1>4. Closed(p) \in Parser
    BY <1>1, <1>2, <1>3 DEF Parser, Text
<1>5. /\ Closed(p).buf = y /\ Closed(p).inCall = FALSE
      /\ Closed(p).text = q.text /\ Closed(p).calls = q.calls
    BY <1>2, <1>3 DEF Parser
<1> QED
    BY <1>1, <1>2, <1>4, <1>5 DEF x, y, q

LEMMA OpenedIs ==
    ASSUME NEW p \in Parser, AtOpen(p)
    PROVE  /\ Opened(p) \in Parser
           /\ Opened(p).buf = After(p.buf, OpenTag) /\ Opened(p).inCall = TRUE
           /\ Opened(p).text = p.text \o Before(p.buf, OpenTag)
           /\ Opened(p).calls = p.calls
           /\ Len(Opened(p).buf) < Len(p.buf)
<1> DEFINE x == Before(p.buf, OpenTag)
           y == After(p.buf, OpenTag)
<1>1. x \in Text /\ y \in Text /\ Len(y) < Len(p.buf)
    BY ParserFields, OpenFound DEF AtOpen, ToClose
<1>2. p.text \o x \in Text
    BY <1>1, ParserFields, JoinTyped
<1>3. Opened(p) = [p EXCEPT !.text = p.text \o x, !.buf = y, !.inCall = TRUE]
    BY DEF Opened
<1> HIDE DEF x, y
<1>4. Opened(p) \in Parser
    BY <1>1, <1>2, <1>3 DEF Parser, Text
<1>5. /\ Opened(p).buf = y /\ Opened(p).inCall = TRUE
      /\ Opened(p).text = p.text \o x /\ Opened(p).calls = p.calls
    BY <1>2, <1>3 DEF Parser
<1> QED
    BY <1>1, <1>4, <1>5 DEF x, y

LEMMA ShownIs ==
    ASSUME NEW p \in Parser
    PROVE  /\ Shown(p) \in Parser /\ HeldFrom(p) \in 1..Len(p.buf) + 1
           /\ Shown(p).buf = From(p.buf, HeldFrom(p)) /\ Shown(p).inCall = p.inCall
           /\ Shown(p).text = p.text \o Upto(p.buf, HeldFrom(p))
           /\ Shown(p).calls = p.calls
           /\ Len(Shown(p).buf) = Held(p.buf) /\ Held(p.buf) < Len(OpenTag)
<1> DEFINE x == Upto(p.buf, HeldFrom(p))
           y == From(p.buf, HeldFrom(p))
<1>1. /\ Held(p.buf) \in 0..Len(OpenTag) - 1 /\ Held(p.buf) <= Len(p.buf)
      /\ Len(p.buf) \in Nat /\ Len(OpenTag) \in Nat
    BY ParserFields, HeldTyped, TagsAreText DEF Text
<1>2. HeldFrom(p) \in 1..Len(p.buf) + 1 /\ Held(p.buf) < Len(OpenTag)
      /\ Len(p.buf) - HeldFrom(p) + 1 = Held(p.buf)
    BY <1>1 DEF HeldFrom
<1>3. x \in Text /\ y \in Text /\ Len(y) = Held(p.buf)
    BY <1>2, ParserFields, CutTyped
<1>4. p.text \o x \in Text
    BY <1>3, ParserFields, JoinTyped
<1>5. Shown(p) = [p EXCEPT !.text = p.text \o x, !.buf = y]
    BY DEF Shown
<1> HIDE DEF x, y
<1>6. Shown(p) \in Parser
    BY <1>3, <1>4, <1>5 DEF Parser, Text
<1>7. /\ Shown(p).buf = y /\ Shown(p).inCall = p.inCall
      /\ Shown(p).text = p.text \o x /\ Shown(p).calls = p.calls
    BY <1>4, <1>5 DEF Parser
<1> QED
    BY <1>2, <1>3, <1>6, <1>7 DEF x, y

LEMMA DigestIs ==
    Digest = [p \in Parser |-> DigestBody(Digest, p)]
<1> DEFINE stop == {p \in Parser : ~AtClose(p) /\ ~AtOpen(p)}
           m == [p \in Parser |-> Len(p.buf)]
           next == [p \in Parser |-> IF AtClose(p) THEN Closed(p)
                                     ELSE IF AtOpen(p) THEN Opened(p) ELSE p]
           out == [p \in Parser |-> IF ~p.inCall THEN Shown(p) ELSE p]
           comb == [p \in Parser |-> [v \in Parser |-> v]]
<1>1. m \in [Parser -> Nat]
    BY ParserFields DEF Text
<1>2. next \in [Parser -> Parser]
    BY ClosedIs, OpenedIs
<1>3. out \in [Parser -> Parser]
    BY ShownIs
<1>4. comb \in [Parser -> [Parser -> Parser]]
    OBVIOUS
<1>5. \A p \in Parser \ stop : m[next[p]] < m[p]
    <2> TAKE p \in Parser \ stop
    <2>1. CASE AtClose(p)
        <3>1. next[p] = Closed(p) /\ Closed(p) \in Parser /\ Len(Closed(p).buf) < Len(p.buf)
            BY <2>1, ClosedIs
        <3> QED
            BY <3>1
    <2>2. CASE ~AtClose(p) /\ AtOpen(p)
        <3>1. next[p] = Opened(p) /\ Opened(p) \in Parser /\ Len(Opened(p).buf) < Len(p.buf)
            BY <2>2, OpenedIs
        <3> QED
            BY <3>1
    <2> QED
        BY <2>1, <2>2
<1>6. NewParser \in Parser
    BY EmptySeq DEF NewParser, Parser
<1>7. IsRecursion(Parser, Parser, m, stop, next, out, comb)
    BY <1>1, <1>2, <1>3, <1>4, <1>5, <1>6 DEF IsRecursion
<1> HIDE DEF m, next, out, comb, stop
<1>8. PICK f \in [Parser -> Parser] : \A p \in Parser :
         f[p] = IF p \in stop THEN out[p] ELSE comb[p][f[next[p]]]
    BY <1>7, RecursionIsDefined
<1>9. ASSUME NEW p \in Parser
      PROVE  f[p] = DigestBody(f, p)
    <2>1. CASE p \in stop
        <3>1. f[p] = IF ~p.inCall THEN Shown(p) ELSE p
            BY <1>8, <2>1 DEF out
        <3>2. ~AtClose(p) /\ ~AtOpen(p)
            BY <2>1 DEF stop
        <3>3. ~p.inCall => ~Has(p.buf, OpenTag)
            BY <3>2 DEF AtOpen
        <3> QED
            BY <3>1, <3>2, <3>3 DEF DigestBody
    <2>2. CASE p \notin stop
        <3>1. next[p] \in Parser /\ f[next[p]] \in Parser
            BY <1>2, <1>8
        <3>2. f[p] = f[next[p]]
            BY <1>8, <2>2, <3>1 DEF comb
        <3>3. CASE AtClose(p)
            <4>1. f[p] = f[Closed(p)] /\ ~AtOpen(p)
                BY <3>2, <3>3 DEF next, AtClose, AtOpen
            <4> QED
                BY <3>3, <4>1 DEF DigestBody, AtClose
        <3>4. CASE ~AtClose(p) /\ AtOpen(p)
            <4>1. f[p] = f[Opened(p)]
                BY <3>2, <3>4 DEF next
            <4> QED
                BY <3>4, <4>1 DEF DigestBody, AtOpen
        <3> QED
            BY <2>2, <3>3, <3>4 DEF stop
    <2> QED
        BY <2>1, <2>2
<1>10. f = [p \in Parser |-> DigestBody(f, p)]
    BY <1>8, <1>9
<1>11. Digest = CHOOSE g : g = [p \in Parser |-> DigestBody(g, p)]
    BY DEF Digest, DigestBody, AtClose, AtOpen, Closed, Opened, Shown, HeldFrom
<1> QED
    BY <1>10, <1>11

LEMMA DigestCases ==
    ASSUME NEW p \in Parser
    PROVE  /\ AtClose(p) => Digest[p] = Digest[Closed(p)]
           /\ AtOpen(p) => Digest[p] = Digest[Opened(p)]
           /\ ~AtClose(p) /\ ~AtOpen(p) => Digest[p] = IF ~p.inCall THEN Shown(p) ELSE p
<1>1. Digest[p] = DigestBody(Digest, p)
    BY DigestIs
<1>2. AtClose(p) => Digest[p] = Digest[Closed(p)]
    BY <1>1 DEF DigestBody, AtClose, AtOpen
<1>3. AtOpen(p) => Digest[p] = Digest[Opened(p)]
    BY <1>1 DEF DigestBody, AtClose, AtOpen
<1>4. ~AtClose(p) /\ ~AtOpen(p) => Digest[p] = IF ~p.inCall THEN Shown(p) ELSE p
    BY <1>1 DEF DigestBody, AtClose, AtOpen
<1> QED
    BY <1>2, <1>3, <1>4

(* Each case reads on as the whole text is read.                           *)
LEMMA CloseIsFaithful ==
    ASSUME NEW p \in Parser, AtClose(p), NEW r \in Text, Faithful(p, r)
    PROVE  Faithful(Closed(p), r)
<1> DEFINE b == Before(p.buf, CloseTag)
           a == After(p.buf, CloseTag)
<1>1. PICK seen \in Seq(Text) :
        /\ p.calls = Accepted[seen]
        /\ \A d \in Text : Whole[r \o d] = Prefixed(p.text, seen, Rest(p.inCall, p.buf \o d))
    BY DEF Faithful
<1>0. seen \in Seq(Text)
    OBVIOUS
<1>2. p.inCall /\ Has(p.buf, CloseTag) /\ p.buf \in Text /\ p.text \in Text
    BY ParserFields DEF AtClose
<1>3. b \in Text /\ a \in Text /\ <<b>> \in Seq(Text)
    BY <1>2, CloseFound
<1>4. /\ Closed(p).buf = a /\ Closed(p).inCall = FALSE /\ Closed(p).text = p.text
      /\ Closed(p).calls = Accept(p, b).calls
    BY ClosedIs
<1> DEFINE more == Append(seen, b)
<1>5. /\ more \in Seq(Text)
      /\ Accepted[more] = IF b \in Decodable /\ Len(Accepted[seen]) < MaxCalls
                          THEN Append(Accepted[seen], b) ELSE Accepted[seen]
    BY <1>3, AcceptedMore
<1>6. Closed(p).calls = Accepted[more]
    BY <1>1, <1>3, <1>4, <1>5, AcceptTyped
<1>7. more = seen \o <<b>>
    BY <1>3, AppendIsConcat
<1>8. \A d \in Text : Has(p.buf \o d, CloseTag) /\ Before(p.buf \o d, CloseTag) = b
                      /\ After(p.buf \o d, CloseTag) = a \o d
    BY <1>2, FoundExtended
<1> HIDE DEF a, b, more
<1>9. ASSUME NEW d \in Text
      PROVE  Whole[r \o d] = Prefixed(p.text, more, Whole[a \o d])
    <2>1. Rest(p.inCall, p.buf \o d) = Prefixed(<<>>, <<b>>, Whole[a \o d])
        BY <1>2, <1>8 DEF Rest
    <2> DEFINE w == Whole[a \o d]
               shown == p.text
               found == <<b>>
    <2>2. w \in Readings /\ shown \in Text /\ <<>> \in Text /\ found \in Seq(Text)
        BY <1>2, <1>3, JoinTyped, WholeIs, NoText
    <2>3. Whole[r \o d] = Prefixed(shown, seen, Prefixed(<<>>, found, w))
        BY <1>1, <2>1
    <2> HIDE DEF w, shown, found
    <2>4. Prefixed(shown, seen, Prefixed(<<>>, found, w)) = Prefixed(shown \o <<>>, seen \o found, w)
        <3>1. shown \in Text /\ <<>> \in Text /\ seen \in Seq(Text) /\ found \in Seq(Text) /\ w \in Readings
            BY <2>2
        <3>2. \A e \in Text : Prefixed(shown, seen, Prefixed(e, found, w)) = Prefixed(shown \o e, seen \o found, w)
            BY ONLY <3>1, PrefixedTwice
        <3> QED
            BY <3>1, <3>2
    <2>5. shown \o <<>> = shown
        BY <2>2, ConcatEmptySeq DEF Text
    <2>6. seen \o found = more
        BY <1>7 DEF found
    <2> QED
        BY <2>3, <2>4, <2>5, <2>6 DEF w, shown
<1>10. \A d \in Text : Rest(FALSE, a \o d) = Whole[a \o d]
    BY DEF Rest
<1> QED
    BY <1>4, <1>5, <1>6, <1>9, <1>10 DEF Faithful

LEMMA OpenIsFaithful ==
    ASSUME NEW p \in Parser, AtOpen(p), NEW r \in Text, Faithful(p, r)
    PROVE  Faithful(Opened(p), r)
<1> DEFINE b == Before(p.buf, OpenTag)
           a == After(p.buf, OpenTag)
<1>1. PICK seen \in Seq(Text) :
        /\ p.calls = Accepted[seen]
        /\ \A d \in Text : Whole[r \o d] = Prefixed(p.text, seen, Rest(p.inCall, p.buf \o d))
    BY DEF Faithful
<1>0. seen \in Seq(Text)
    OBVIOUS
<1>2. p.inCall = FALSE /\ Has(p.buf, OpenTag) /\ p.buf \in Text /\ p.text \in Text
    BY ParserFields DEF AtOpen
<1>3. b \in Text /\ a \in Text
    BY <1>2, OpenFound DEF ToClose
<1>4. /\ Opened(p).buf = a /\ Opened(p).inCall = TRUE /\ Opened(p).text = p.text \o b
      /\ Opened(p).calls = p.calls
    BY OpenedIs
<1>5. \A d \in Text : Has(p.buf \o d, OpenTag) /\ Before(p.buf \o d, OpenTag) = b
                      /\ After(p.buf \o d, OpenTag) = a \o d
    BY <1>2, FoundExtended
<1> HIDE DEF a, b
<1>6. ASSUME NEW d \in Text
      PROVE  Whole[r \o d] = Prefixed(p.text \o b, seen, Rest(TRUE, a \o d))
    <2> DEFINE w == Rest(TRUE, a \o d)
               shown == p.text
    <2>1. w \in Readings /\ shown \in Text /\ <<>> \in Seq(Text)
        BY <1>2, <1>3, JoinTyped, RestTyped, NoText
    <2>2. Rest(p.inCall, p.buf \o d) = Prefixed(b, <<>>, w)
        <3>1. p.buf \o d \in Text
            BY <1>2, JoinTyped
        <3>2. ToClose(p.buf \o d) = a \o d
            BY <1>5 DEF ToClose
        <3>3. Whole[p.buf \o d] = Prefixed(b, <<>>, w)
            BY <1>5, <3>1, <3>2, WholeOpens
        <3> QED
            BY <1>2, <3>3 DEF Rest
    <2>3. Whole[r \o d] = Prefixed(shown, seen, Prefixed(b, <<>>, w))
        BY <1>1, <2>2
    <2> HIDE DEF w, shown
    <2>4. Prefixed(shown, seen, Prefixed(b, <<>>, w)) = Prefixed(shown \o b, seen \o <<>>, w)
        <3>1. shown \in Text /\ b \in Text /\ seen \in Seq(Text) /\ <<>> \in Seq(Text) /\ w \in Readings
            BY <1>3, <2>1
        <3>2. \A k \in Seq(Text) : Prefixed(shown, seen, Prefixed(b, k, w)) = Prefixed(shown \o b, seen \o k, w)
            BY ONLY <3>1, PrefixedTwice
        <3> QED
            BY <3>1, <3>2
    <2>5. seen \o <<>> = seen
        BY ConcatEmptySeq
    <2> QED
        BY <2>3, <2>4, <2>5 DEF w, shown
<1> QED
    BY <1>1, <1>4, <1>6 DEF Faithful

LEMMA ShownIsFaithful ==
    ASSUME NEW p \in Parser, ~p.inCall, ~Has(p.buf, OpenTag), NEW r \in Text, Faithful(p, r)
    PROVE  Faithful(Shown(p), r)
<1> DEFINE a == Upto(p.buf, HeldFrom(p))
           b == From(p.buf, HeldFrom(p))
<1>1. PICK seen \in Seq(Text) :
        /\ p.calls = Accepted[seen]
        /\ \A d \in Text : Whole[r \o d] = Prefixed(p.text, seen, Rest(p.inCall, p.buf \o d))
    BY DEF Faithful
<1>0. seen \in Seq(Text)
    OBVIOUS
<1>2. p.inCall = FALSE /\ p.buf \in Text /\ p.text \in Text
    BY ParserFields
<1>3. /\ Shown(p).buf = b /\ Shown(p).inCall = p.inCall /\ Shown(p).text = p.text \o a
      /\ Shown(p).calls = p.calls
      /\ HeldFrom(p) \in 1..Len(p.buf) + 1
    BY ShownIs
<1>4. a \in Text /\ b \in Text /\ Len(a) = Len(p.buf) - Held(p.buf) /\ p.buf = a \o b
    <2>1. a \in Text /\ b \in Text /\ Len(a) = HeldFrom(p) - 1 /\ p.buf = a \o b
        BY <1>2, <1>3, CutTyped, CutJoins
    <2>2. Len(p.buf) \in Nat /\ Held(p.buf) \in Int
        BY <1>2, HeldTyped DEF Text
    <2> QED
        BY <2>1, <2>2 DEF HeldFrom
<1> HIDE DEF a, b
<1>5. ASSUME NEW d \in Text
      PROVE  Whole[r \o d] = Prefixed(p.text \o a, seen, Whole[b \o d])
    <2> DEFINE c == b \o d
               w == Whole[c]
               shown == p.text
    <2>1. c \in Text /\ w \in Readings /\ shown \in Text /\ <<>> \in Seq(Text)
        BY <1>2, <1>4, JoinTyped, WholeIs, NoText
    <2>2. p.buf \o d = a \o c
        BY <1>4, JoinAssociates
    <2> HIDE DEF c
    <2>3. \A i \in Places(a \o c, OpenTag) : i > Len(a)
        BY <1>2, <1>4, <2>2, HeldBack
    <2>4. Whole[a \o c] = Prefixed(a, <<>>, w)
        BY <1>4, <2>1, <2>3, WholeShifts
    <2>5. Whole[r \o d] = Prefixed(shown, seen, Prefixed(a, <<>>, w))
        BY <1>1, <1>2, <2>2, <2>4 DEF Rest
    <2> HIDE DEF w, shown
    <2>6. Prefixed(shown, seen, Prefixed(a, <<>>, w)) = Prefixed(shown \o a, seen \o <<>>, w)
        <3>1. shown \in Text /\ a \in Text /\ seen \in Seq(Text) /\ <<>> \in Seq(Text) /\ w \in Readings
            BY <1>4, <2>1
        <3>2. \A k \in Seq(Text) : Prefixed(shown, seen, Prefixed(a, k, w)) = Prefixed(shown \o a, seen \o k, w)
            BY ONLY <3>1, PrefixedTwice
        <3> QED
            BY <3>1, <3>2
    <2>7. seen \o <<>> = seen
        BY ConcatEmptySeq
    <2> QED
        BY <2>5, <2>6, <2>7 DEF w, shown, c
<1>6. \A d \in Text : Rest(FALSE, b \o d) = Whole[b \o d]
    BY DEF Rest
<1> DEFINE q == Shown(p)
<1>7. q.buf = b /\ q.inCall = FALSE /\ q.text = p.text \o a /\ q.calls = p.calls
    BY <1>2, <1>3
<1> HIDE DEF q
<1>8. \A d \in Text : Whole[r \o d] = Prefixed(q.text, seen, Rest(q.inCall, q.buf \o d))
    BY <1>5, <1>6, <1>7
<1>9. Faithful(q, r)
    BY <1>1, <1>7, <1>8 DEF Faithful
<1> QED
    BY <1>9 DEF q

(* What is held back begins no tag that is there.                          *)
LEMMA ShownIsSettled ==
    ASSUME NEW p \in Parser, ~p.inCall, ~Has(p.buf, OpenTag)
    PROVE  Settled(Shown(p))
<1> DEFINE q == Shown(p)
<1>1. /\ q \in Parser /\ q.inCall = p.inCall /\ Len(q.buf) = Held(p.buf)
      /\ Held(p.buf) < Len(OpenTag)
    BY ShownIs
<1> HIDE DEF q
<1>2. q.buf \in Text
    BY <1>1, ParserFields
<1>3. ~Has(q.buf, OpenTag)
    <2> SUFFICES ASSUME NEW i \in Places(q.buf, OpenTag)
                 PROVE  FALSE
        BY DEF Has
    <2>1. i \in Int /\ OpenTag \in Text /\ Len(OpenTag) \in Nat /\ Len(OpenTag) >= 1
          /\ Len(q.buf) \in Nat
        BY <1>2, TagsAreText DEF Places, Text
    <2>2. 1 <= i /\ i + Len(OpenTag) - 1 <= Len(q.buf)
        BY <1>2, <2>1, PlaceIs
    <2> QED
        BY <1>1, <2>1, <2>2
<1> QED
    BY <1>1, <1>3 DEF Settled, q

(* Whatever is in the buffer: all that can be found is found, and as in    *)
(* the whole text.                                                         *)
LEMMA DigestReads ==
    \A p \in Parser :
        /\ Digest[p] \in Parser
        /\ Settled(Digest[p])
        /\ \A r \in Text : Faithful(p, r) => Faithful(Digest[p], r)
<1> DEFINE m == [p \in Parser |-> Len(p.buf)]
           S == {p \in Parser : /\ Digest[p] \in Parser
                                /\ Settled(Digest[p])
                                /\ \A r \in Text : Faithful(p, r) => Faithful(Digest[p], r)}
<1>1. m \in [Parser -> Nat]
    BY ParserFields DEF Text
<1>2. ASSUME NEW p \in Parser, \A y \in Parser : m[y] < m[p] => y \in S
      PROVE  p \in S
    <2>1. CASE AtClose(p)
        <3>1. Closed(p) \in Parser /\ m[Closed(p)] < m[p]
            BY <2>1, ClosedIs
        <3>2. Closed(p) \in S
            BY <1>2, <3>1
        <3>3. Digest[p] = Digest[Closed(p)]
            BY <2>1, DigestCases
        <3>4. \A r \in Text : Faithful(p, r) => Faithful(Closed(p), r)
            BY <2>1, CloseIsFaithful
        <3> QED
            BY <3>2, <3>3, <3>4
    <2>2. CASE AtOpen(p)
        <3>1. Opened(p) \in Parser /\ m[Opened(p)] < m[p]
            BY <2>2, OpenedIs
        <3>2. Opened(p) \in S
            BY <1>2, <3>1
        <3>3. Digest[p] = Digest[Opened(p)]
            BY <2>2, DigestCases
        <3>4. \A r \in Text : Faithful(p, r) => Faithful(Opened(p), r)
            BY <2>2, OpenIsFaithful
        <3> QED
            BY <3>2, <3>3, <3>4
    <2>3. CASE ~AtClose(p) /\ ~AtOpen(p) /\ ~p.inCall
        <3>1. ~Has(p.buf, OpenTag)
            BY <2>3 DEF AtOpen
        <3>2. Digest[p] = Shown(p)
            BY <2>3, DigestCases
        <3>3. Shown(p) \in Parser
            BY ShownIs
        <3>4. Settled(Shown(p)) /\ \A r \in Text : Faithful(p, r) => Faithful(Shown(p), r)
            BY <2>3, <3>1, ShownIsSettled, ShownIsFaithful
        <3> QED
            BY <3>2, <3>3, <3>4
    <2>4. CASE ~AtClose(p) /\ ~AtOpen(p) /\ p.inCall
        <3>1. Digest[p] = p
            BY <2>4, DigestCases
        <3>2. Settled(p)
            BY <2>4 DEF AtClose, Settled
        <3> QED
            BY <3>1, <3>2
    <2> QED
        BY <2>1, <2>2, <2>3, <2>4
<1> HIDE DEF S, m
<1>3. Parser \subseteq S
    BY <1>1, <1>2, MeasureInduction
<1> QED
    BY <1>3 DEF S

(* A delta is read as what it adds to the text.                            *)
LEMMA FeedReads ==
    ASSUME NEW p \in Parser, NEW delta \in Text
    PROVE  /\ Feed(p, delta) \in Parser
           /\ Settled(Feed(p, delta))
           /\ \A r \in Text : Faithful(p, r) => Faithful(Feed(p, delta), r \o delta)
<1> DEFINE b == p.buf \o delta
           q == [p EXCEPT !.buf = b]
<1>1. p.buf \in Text /\ p.text \in Text /\ p.inCall \in BOOLEAN
    BY ParserFields
<1>2. b \in Text
    BY <1>1, JoinTyped
<1>3. Feed(p, delta) = Digest[q]
    BY DEF Feed
<1> HIDE DEF b
<1>4. q \in Parser /\ q.buf = b /\ q.inCall = p.inCall /\ q.text = p.text /\ q.calls = p.calls
    BY <1>2 DEF Parser, Text
<1> HIDE DEF q
<1>5. ASSUME NEW r \in Text, Faithful(p, r)
      PROVE  Faithful(q, r \o delta)
    <2>1. PICK seen \in Seq(Text) :
            /\ p.calls = Accepted[seen]
            /\ \A d \in Text : Whole[r \o d] = Prefixed(p.text, seen, Rest(p.inCall, p.buf \o d))
        BY <1>5 DEF Faithful
    <2>2. ASSUME NEW d \in Text
          PROVE  Whole[(r \o delta) \o d] = Prefixed(p.text, seen, Rest(p.inCall, b \o d))
        <3>1. delta \o d \in Text
            BY JoinTyped
        <3>2. (r \o delta) \o d = r \o (delta \o d)
            BY JoinAssociates
        <3>3. b \o d = p.buf \o (delta \o d)
            BY <1>1, JoinAssociates DEF b
        <3> QED
            BY <2>1, <3>1, <3>2, <3>3
    <2> QED
        BY <1>4, <2>1, <2>2 DEF Faithful
<1>6. /\ Digest[q] \in Parser /\ Settled(Digest[q])
      /\ \A r \in Text : Faithful(q, r) => Faithful(Digest[q], r)
    BY <1>4, DigestReads
<1>7. \A r \in Text : r \o delta \in Text
    BY JoinTyped
<1> QED
    BY <1>3, <1>5, <1>6, <1>7

(* A new parser has read nothing.                                          *)
LEMMA NewIsFaithful ==
    NewParser \in Parser /\ Settled(NewParser) /\ Faithful(NewParser, <<>>)
<1>1. NewParser \in Parser
    BY EmptySeq DEF NewParser, Parser
<1>2. Settled(NewParser)
    <2>1. ~Has(<<>>, OpenTag)
        <3>1. Places(<<>>, OpenTag) = {}
            BY NoText DEF Places
        <3> QED
            BY <3>1 DEF Has
    <2> QED
        BY <2>1, NoText, TagsAreText DEF Settled, NewParser
<1>3. Accepted[<<>>] = <<>>
    BY AcceptedIs, NoText DEF AcceptedBody
<1>4. ASSUME NEW d \in Text
      PROVE  Whole[<<>> \o d] = Prefixed(<<>>, <<>>, Rest(FALSE, <<>> \o d))
    <2> DEFINE w == Whole[d]
    <2>1. <<>> \o d = d
        BY ConcatEmptySeq DEF Text
    <2>2. w \in Readings
        BY WholeIs
    <2> HIDE DEF w
    <2>3. w.text \in Text /\ w.payloads \in Seq(Text) /\ w = [text |-> w.text, payloads |-> w.payloads, unclosed |-> w.unclosed]
        BY <2>2 DEF Readings
    <2>4. <<>> \o w.text = w.text /\ <<>> \o w.payloads = w.payloads
        BY <2>3, ConcatEmptySeq DEF Text
    <2>5. Prefixed(<<>>, <<>>, w) = w
        BY <2>3, <2>4 DEF Prefixed
    <2> QED
        BY <2>1, <2>5 DEF w, Rest
<1> QED
    BY <1>1, <1>2, <1>3, <1>4, NoText DEF Faithful, NewParser

-----------------------------------------------------------------------------
(* An open attempt has read what the whole text says so far.               *)
OpenReads == outcome = "open" => Settled(parser) /\ Faithful(parser, received)

ReturnedReads == outcome = "returned" => StreamAgreesWithWhole

Signals(i, kinds) == queue[i].is \in kinds

(* The sentinel is the last event, and the pump has stopped by then.       *)
SentinelIsLast ==
    \A i \in 1..Len(queue) : Signals(i, {"sentinel"}) => i = Len(queue) /\ pump = "stopped"

(* What the server reports is still in the queue of an open attempt.       *)
ReportIsQueued ==
    outcome = "open" /\ reported => \E i \in 1..Len(queue) : Signals(i, {"error", "raised"})

(* So is that a stream of Ollama stopped without the marker of its end.    *)
BreakIsQueued ==
    outcome = "open" /\ pump = "stopped" /\ provider = "ollama" /\ ~ended /\ ~cancel =>
        \E i \in 1..Len(queue) : Signals(i, {"error", "raised"})

ReturnedAfterEnd ==
    outcome = "returned" /\ ~cancel =>
        pump = "stopped" /\ ~reported /\ (provider = "ollama" => ended)

CompletionInv ==
    /\ CompletionTypeOK
    /\ OpenReads
    /\ ReturnedReads
    /\ SentinelIsLast
    /\ ReportIsQueued
    /\ BreakIsQueued
    /\ ReturnedAfterEnd

(* What an open attempt has read agrees with the whole text.               *)
LEMMA ReadAgrees ==
    ASSUME NEW p \in Parser, NEW r \in Text, Settled(p), Faithful(p, r)
    PROVE  /\ p.calls = WholeCalls(r)
           /\ p.inCall = Whole[r].unclosed
           /\ IF p.inCall THEN p.text = Whole[r].text ELSE p.text \o p.buf = Whole[r].text
           /\ ~p.inCall => Len(p.buf) < Len(OpenTag)
<1>1. PICK seen \in Seq(Text) :
        /\ p.calls = Accepted[seen]
        /\ \A d \in Text : Whole[r \o d] = Prefixed(p.text, seen, Rest(p.inCall, p.buf \o d))
    BY DEF Faithful
<1>2. p.buf \in Text /\ p.text \in Text /\ p.inCall \in BOOLEAN
    BY ParserFields
<1>3. r \o <<>> = r /\ p.buf \o <<>> = p.buf /\ p.text \o <<>> = p.text
    BY <1>2, ConcatEmptySeq DEF Text
<1>4. seen \o <<>> = seen
    BY ConcatEmptySeq
<1>5. Whole[r] = Prefixed(p.text, seen, Rest(p.inCall, p.buf))
    BY <1>1, <1>3, NoText
<1>6. CASE p.inCall
    <2>1. Rest(p.inCall, p.buf) = CutShort(<<>>)
        BY <1>6 DEF Settled, Rest
    <2>2. Whole[r] = [text |-> p.text, payloads |-> seen, unclosed |-> TRUE]
        BY <1>3, <1>4, <1>5, <2>1 DEF Prefixed, CutShort
    <2> QED
        BY <1>1, <1>2, <1>6, <2>2 DEF WholeCalls
<1>7. CASE ~p.inCall
    <2>1. Rest(p.inCall, p.buf) = Unread(p.buf)
        BY <1>2, <1>7, WholeUnread DEF Settled, Rest
    <2>2. Whole[r] = [text |-> p.text \o p.buf, payloads |-> seen, unclosed |-> FALSE]
        BY <1>4, <1>5, <2>1 DEF Prefixed, Unread
    <2>3. p.inCall = FALSE /\ Len(p.buf) < Len(OpenTag)
        BY <1>2, <1>7 DEF Settled
    <2> DEFINE x == p.text \o p.buf
               w == Whole[r]
    <2>5. w = [text |-> x, payloads |-> seen, unclosed |-> FALSE]
        BY <2>2
    <2> HIDE DEF x, w
    <2>6. w.text = x /\ w.payloads = seen /\ w.unclosed = FALSE
        BY <2>5
    <2>4. Whole[r].text = p.text \o p.buf /\ Whole[r].payloads = seen /\ Whole[r].unclosed = FALSE
        BY <2>6 DEF x, w
    <2> QED
        BY <1>1, <2>3, <2>4 DEF WholeCalls
<1> QED
    BY <1>2, <1>6, <1>7

(* What is left when the stream ends is text, or a call cut short.         *)
LEMMA FinishIs ==
    ASSUME NEW p \in Parser
    PROVE  /\ Finish(p) \in Parser
           /\ Finish(p).buf = <<>> /\ Finish(p).inCall = FALSE /\ Finish(p).calls = p.calls
           /\ Finish(p).text = IF p.inCall THEN p.text ELSE p.text \o p.buf
<1>1. p.buf \in Text /\ p.text \in Text /\ p.inCall \in BOOLEAN /\ p.text \o p.buf \in Text
    BY ParserFields, JoinTyped
<1>2. CASE p.inCall
    <2>1. Finish(p) = [p EXCEPT !.errors = p.errors + 1, !.buf = <<>>, !.inCall = FALSE]
        BY <1>2 DEF Finish
    <2>2. p.errors + 1 \in Nat
        BY ParserFields
    <2>3. Finish(p) \in Parser
        BY <2>1, <2>2, NoText DEF Parser, Text
    <2>4. Finish(p).buf = <<>> /\ Finish(p).inCall = FALSE /\ Finish(p).calls = p.calls
          /\ Finish(p).text = p.text
        BY <2>1 DEF Parser
    <2> QED
        BY <1>2, <2>3, <2>4
<1>3. CASE ~p.inCall
    <2>1. Finish(p) = [p EXCEPT !.text = p.text \o p.buf, !.buf = <<>>]
        BY <1>3 DEF Finish
    <2> QED
        BY <1>1, <1>3, <2>1, NoText DEF Parser, Text
<1> QED
    BY <1>1, <1>2, <1>3

(* Whatever is returned, at any moment, reads as the whole text does.      *)
LEMMA FinishedAgrees ==
    ASSUME NEW p \in Parser, NEW r \in Text, Settled(p), Faithful(p, r)
    PROVE  LET f == Finish(p) IN
           /\ f \in Parser
           /\ f.calls = WholeCalls(r) /\ f.inCall = FALSE /\ f.text \o f.buf = Whole[r].text
           /\ Len(f.buf) < Len(OpenTag)
<1> DEFINE f == Finish(p)
<1>1. /\ f \in Parser
      /\ f.buf = <<>> /\ f.inCall = FALSE /\ f.calls = p.calls
      /\ f.text = IF p.inCall THEN p.text ELSE p.text \o p.buf
    BY FinishIs
<1>2. /\ p.calls = WholeCalls(r)
      /\ IF p.inCall THEN p.text = Whole[r].text ELSE p.text \o p.buf = Whole[r].text
    BY ReadAgrees
<1> HIDE DEF f
<1>3. f.text \in Text
    BY <1>1, ParserFields
<1>4. f.text \o <<>> = f.text
    BY <1>3, ConcatEmptySeq DEF Text
<1>5. f.text = Whole[r].text
    BY <1>1, <1>2
<1>6. Len(f.buf) < Len(OpenTag)
    BY <1>1, NoText, TagsAreText
<1> QED
    BY <1>1, <1>2, <1>4, <1>5, <1>6 DEF f

-----------------------------------------------------------------------------
Kinds == {"error", "raised", "done", "sentinel"}

LEMMA PlainEvents == \A kind \in Kinds : [is |-> kind] \in Event
BY DEF Event, Kinds

LEMMA CallEvents == \A c \in Call : [is |-> "call", call |-> c] \in Event
BY DEF Event

LEMMA TextEvents == \A s \in Text : [is |-> "text", text |-> s] \in Event
BY DEF Event, Text

(* One event, as a sequence.                                               *)
LEMMA OneEvent ==
    ASSUME NEW e \in Event
    PROVE  <<e>> \in Seq(Event) /\ Len(<<e>>) = 1 /\ <<e>>[1] = e
OBVIOUS

(* The calls made of fragments are as many as are usable.                  *)
LEMMA ListOfSet ==
    ASSUME NEW S, IsFiniteSet(S)
    PROVE  SetToSeq(S) \in Seq(S)
<1>1. PICK n \in Nat : ExistsBijection(1..n, S)
    BY FS_NatBijection
<1>2. Cardinality(S) = n
    BY <1>1, FS_CountingElements
<1>3. PICK f \in Bijection(1..n, S) : TRUE
    BY <1>1 DEF ExistsBijection
<1>4. f \in [1..Cardinality(S) -> S] /\ IsInjective(f)
    BY <1>2, <1>3 DEF Bijection, Injection
<1>5. SetToSeq(S) \in [1..Cardinality(S) -> S]
    BY <1>4 DEF SetToSeq
<1> QED
    BY <1>2, <1>5

LEMMA FinishedTyped ==
    ASSUME CompletionTypeOK
    PROVE  Finished \in Seq(Event) /\ \A i \in 1..Len(Finished) : Finished[i].is = "call"
<1> DEFINE S == {c \in NativeCalls : Usable(c)}
           usable == SetToSeq(S)
           e(i) == [is |-> "call", call |-> [of |-> usable[i], whole |-> partial[usable[i]] = Pieces[usable[i]]]]
<1>1. IsFiniteSet(S)
    BY CompletionAssumption, FS_Subset
<1>2. usable \in Seq(S) /\ S \subseteq NativeCalls
    BY <1>1, ListOfSet
<1> HIDE DEF S, usable
<1>3. Len(usable) \in Nat /\ DOMAIN usable = 1..Len(usable)
    BY <1>2, LenProperties
<1>4. ASSUME NEW i \in 1..Len(usable)
      PROVE  e(i) \in Event
    <2>1. usable[i] \in NativeCalls
        BY <1>2, ElementOfSeq
    <2>2. [of |-> usable[i], whole |-> partial[usable[i]] = Pieces[usable[i]]] \in Call
        BY <2>1 DEF Call
    <2> QED
        BY <2>2, CallEvents
<1>5. Finished = [i \in 1..Len(usable) |-> e(i)]
    BY <1>3 DEF Finished, usable, S
<1>6. [i \in 1..Len(usable) |-> e(i)] \in [1..Len(usable) -> Event]
    BY <1>4
<1>7. Finished \in Seq(Event) /\ Len(Finished) = Len(usable)
    BY <1>3, <1>5, <1>6
<1> QED
    BY <1>3, <1>5, <1>7

-----------------------------------------------------------------------------
Told(events) == \E i \in 1..Len(events) : events[i].is \in {"error", "raised"}

SentinelEnds(events, stopped) ==
    \A i \in 1..Len(events) : events[i].is = "sentinel" => i = Len(events) /\ stopped

(* The events of the pump come behind those that are there.                *)
LEMMA PumpKeeps ==
    ASSUME CompletionInv, CompletionTypeOK', pump = "reading",
           NEW events \in Seq(Event), Puts(events),
           SentinelEnds(events, pump' = "stopped"),
           cancel' = cancel, UNCHANGED loopVars,
           reported' => reported \/ Told(events),
           pump' = "stopped" /\ provider' = "ollama" /\ ~ended' /\ ~cancel => Told(events)
    PROVE  CompletionInv'
<1>1. queue \in Seq(Event) /\ Len(queue) \in Nat /\ Len(events) \in Nat
    BY DEF CompletionInv, CompletionTypeOK
<1>2. /\ Len(queue') = Len(queue) + Len(events)
      /\ \A i \in 1..Len(queue) : queue'[i] = queue[i]
      /\ \A i \in 1..Len(events) : queue'[Len(queue) + i] = events[i]
    <2>1. queue' = queue \o events
        BY DEF Puts
    <2>2. /\ Len(queue \o events) = Len(queue) + Len(events)
          /\ \A i \in 1..Len(queue) + Len(events) : (queue \o events)[i] =
                IF i <= Len(queue) THEN queue[i] ELSE events[i - Len(queue)]
        BY <1>1, ConcatProperties
    <2>3. \A i \in 1..Len(queue) : (queue \o events)[i] = queue[i]
        BY <1>1, <2>2
    <2>4. ASSUME NEW i \in 1..Len(events)
          PROVE  (queue \o events)[Len(queue) + i] = events[i]
        <3>1. Len(queue) + i \in 1..Len(queue) + Len(events) /\ ~(Len(queue) + i <= Len(queue))
              /\ (Len(queue) + i) - Len(queue) = i
            BY <1>1
        <3>2. (queue \o events)[Len(queue) + i] = events[(Len(queue) + i) - Len(queue)]
            BY <2>2, <3>1
        <3> QED
            BY <3>1, <3>2
    <2> QED
        BY <2>1, <2>2, <2>3, <2>4
<1>3. ASSUME \E i \in 1..Len(queue) : Signals(i, {"error", "raised"})
      PROVE  (\E i \in 1..Len(queue) : Signals(i, {"error", "raised"}))'
    <2>1. PICK i \in 1..Len(queue) : queue[i].is \in {"error", "raised"}
        BY <1>3 DEF Signals
    <2>2. i \in 1..Len(queue') /\ queue'[i] = queue[i]
        BY <1>1, <1>2
    <2> QED
        BY <2>1, <2>2 DEF Signals
<1>4. ASSUME Told(events)
      PROVE  (\E i \in 1..Len(queue) : Signals(i, {"error", "raised"}))'
    <2>1. PICK i \in 1..Len(events) : events[i].is \in {"error", "raised"}
        BY <1>4 DEF Told
    <2>2. Len(queue) + i \in 1..Len(queue') /\ queue'[Len(queue) + i] = events[i]
        BY <1>1, <1>2
    <2> QED
        BY <2>1, <2>2 DEF Signals
<1>5. OpenReads' /\ ReturnedReads'
    BY DEF CompletionInv, OpenReads, ReturnedReads, StreamAgreesWithWhole, loopVars
<1>6. SentinelIsLast'
    <2> SUFFICES ASSUME NEW i \in 1..Len(queue'), queue'[i].is = "sentinel"
                 PROVE  i = Len(queue') /\ pump' = "stopped"
        BY DEF SentinelIsLast, Signals
    <2>1. CASE i <= Len(queue)
        <3>1. i \in 1..Len(queue) /\ queue[i].is = "sentinel"
            BY <1>1, <1>2, <2>1
        <3>2. pump = "stopped"
            BY <3>1 DEF CompletionInv, SentinelIsLast, Signals
        <3> QED
            BY <3>2
    <2>2. CASE i > Len(queue)
        <3> DEFINE k == i - Len(queue)
        <3>1. k \in 1..Len(events) /\ i = Len(queue) + k
            BY <1>1, <1>2, <2>2
        <3> HIDE DEF k
        <3>2. events[k].is = "sentinel"
            BY <1>2, <3>1
        <3>3. k = Len(events) /\ pump' = "stopped"
            BY <3>1, <3>2 DEF SentinelEnds
        <3> QED
            BY <1>1, <1>2, <3>1, <3>3
    <2> QED
        BY <1>1, <1>2, <2>1, <2>2
<1>7. ReportIsQueued'
    BY <1>3, <1>4 DEF CompletionInv, ReportIsQueued, loopVars
<1>8. BreakIsQueued'
    BY <1>4 DEF BreakIsQueued
<1>9. ReturnedAfterEnd'
    BY DEF CompletionInv, ReturnedAfterEnd, loopVars
<1> QED
    BY <1>5, <1>6, <1>7, <1>8, <1>9 DEF CompletionInv

(* A line that does not stop the pump.                                     *)
LEMMA LineKeeps ==
    ASSUME CompletionInv, CompletionTypeOK', Reads, NEW e \in Event, e.is # "sentinel",
           Puts(<<e>>) \/ queue' = queue,
           UNCHANGED <<provider, pump, ended, cancel, loopVars>>,
           reported' => reported \/ (e.is = "error" /\ Puts(<<e>>))
    PROVE  CompletionInv'
<1>1. pump = "reading" /\ pump' = "reading"
    BY DEF Reads, Reading
<1>2. CASE Puts(<<e>>)
    <2> DEFINE events == <<e>>
    <2>1. events \in Seq(Event) /\ Len(events) = 1 /\ events[1] = e
        BY OneEvent
    <2>2. Puts(events)
        BY <1>2
    <2> HIDE DEF events
    <2>3. SentinelEnds(events, pump' = "stopped")
        BY <2>1 DEF SentinelEnds
    <2>4. reported' => reported \/ Told(events)
        BY <2>1 DEF Told
    <2> QED
        BY <1>1, <2>1, <2>2, <2>3, <2>4, PumpKeeps
<1>3. CASE queue' = queue /\ ~Puts(<<e>>)
    <2>1. <<>> \in Seq(Event) /\ Len(<<>>) = 0 /\ queue \o <<>> = queue
        BY EmptySeq, ConcatEmptySeq DEF CompletionInv, CompletionTypeOK
    <2>2. Puts(<<>>)
        BY <1>3, <2>1 DEF Puts
    <2>3. SentinelEnds(<<>>, pump' = "stopped")
        BY <2>1 DEF SentinelEnds
    <2> QED
        BY <1>1, <1>3, <2>1, <2>2, <2>3, PumpKeeps
<1> QED
    BY <1>2, <1>3

(* The pump stops behind what it still puts there.                         *)
LEMMA StopKeeps ==
    ASSUME CompletionInv, CompletionTypeOK', Reading, NEW events \in Seq(Event), Stops(events),
           \A i \in 1..Len(events) : events[i].is # "sentinel",
           cancel' = cancel, UNCHANGED <<reported, loopVars>>,
           provider' = "ollama" /\ ~ended' /\ ~cancel => Told(events)
    PROVE  CompletionInv'
<1> DEFINE e == [is |-> "sentinel"]
           more == Append(events, e)
<1>1. e \in Event /\ e.is = "sentinel"
    BY PlainEvents DEF Kinds
<1>2. /\ more \in Seq(Event) /\ Len(more) = Len(events) + 1
      /\ \A i \in 1..Len(events) : more[i] = events[i]
      /\ more[Len(events) + 1] = e
    BY <1>1, AppendProperties
<1>3. Puts(more) /\ pump' = "stopped" /\ pump = "reading"
    BY DEF Stops, Reading
<1> HIDE DEF e, more
<1>4. Len(events) \in Nat
    OBVIOUS
<1>5. SentinelEnds(more, pump' = "stopped")
    BY <1>2, <1>3, <1>4 DEF SentinelEnds
<1>6. Told(events) => Told(more)
    <2> SUFFICES ASSUME Told(events)
                 PROVE  Told(more)
        OBVIOUS
    <2>1. PICK i \in 1..Len(events) : events[i].is \in {"error", "raised"}
        BY DEF Told
    <2>2. i \in 1..Len(more) /\ more[i] = events[i]
        BY <1>2, <1>4
    <2> QED
        BY <2>1, <2>2 DEF Told
<1> QED
    BY <1>2, <1>3, <1>5, <1>6, PumpKeeps

LEMMA QueueOfOne ==
    ASSUME CompletionTypeOK, NEW e \in Event, Puts(<<e>>)
    PROVE  queue' \in Seq(Event)
<1>1. <<e>> \in Seq(Event) /\ queue \in Seq(Event)
    BY OneEvent DEF CompletionTypeOK
<1> QED
    BY <1>1, ConcatProperties DEF Puts

LEMMA QueueOfStop ==
    ASSUME CompletionTypeOK, NEW events \in Seq(Event), Stops(events)
    PROVE  queue' \in Seq(Event) /\ pump' = "stopped"
<1>1. [is |-> "sentinel"] \in Event
    BY PlainEvents DEF Kinds
<1>2. Append(events, [is |-> "sentinel"]) \in Seq(Event) /\ queue \in Seq(Event)
    BY <1>1, AppendProperties DEF CompletionTypeOK
<1> QED
    BY <1>2, ConcatProperties DEF Stops, Puts

LEMMA TextLineInv == CompletionInv /\ TextLine => CompletionInv'
<1> SUFFICES ASSUME CompletionInv, TextLine
             PROVE  CompletionInv'
    OBVIOUS
<1>1. PICK n \in 1..Len(unsent) :
         /\ Puts(<<[is |-> "text", text |-> SubSeq(unsent, 1, n)]>>)
         /\ unsent' = From(unsent, n + 1)
    BY DEF TextLine
<1>2. unsent \in Text /\ Len(unsent) \in Nat
    BY DEF CompletionInv, CompletionTypeOK, Text
<1> DEFINE i == n + 1
<1>3. i \in 1..Len(unsent) + 1 /\ SubSeq(unsent, 1, n) = Upto(unsent, i)
    BY <1>2 DEF Upto
<1> HIDE DEF i
<1>4. SubSeq(unsent, 1, n) \in Text /\ From(unsent, i) \in Text
    BY <1>2, <1>3, CutTyped
<1>5. unsent' \in Text
    BY <1>1, <1>4 DEF i
<1> DEFINE e == [is |-> "text", text |-> SubSeq(unsent, 1, n)]
<1>6. e \in Event /\ e.is = "text" /\ Puts(<<e>>)
    BY <1>1, <1>4, TextEvents
<1> HIDE DEF e
<1>7. queue' \in Seq(Event)
    BY <1>6, QueueOfOne DEF CompletionInv
<1>8. CompletionTypeOK'
    BY <1>5, <1>7 DEF CompletionInv, CompletionTypeOK, TextLine, loopVars, Text
<1>9. Reads /\ UNCHANGED <<provider, pump, ended, cancel, loopVars, reported>>
    BY DEF TextLine
<1> QED
    BY <1>6, <1>8, <1>9, LineKeeps

LEMMA CallLineInv ==
    ASSUME CompletionInv, NEW c \in NativeCalls, CallLine(c)
    PROVE  CompletionInv'
<1> DEFINE x == [of |-> c, whole |-> TRUE]
           e == [is |-> "call", call |-> x]
<1>1. x \in Call
    BY DEF Call
<1> HIDE DEF x
<1>2. e \in Event /\ e.is = "call"
    BY <1>1, CallEvents
<1>3. Puts(<<e>>)
    BY DEF CallLine, x
<1> HIDE DEF e
<1>4. queue' \in Seq(Event)
    BY <1>2, <1>3, QueueOfOne DEF CompletionInv
<1>5. Pieces[c] \in Nat /\ \A k \in NativeCalls : Pieces[k] <= Pieces[k]
    BY CompletionAssumption
<1>6. partial' \in [NativeCalls -> Nat] /\ \A k \in NativeCalls : partial'[k] <= Pieces[k]
    BY <1>5 DEF CallLine, CompletionInv, CompletionTypeOK
<1>7. CompletionTypeOK'
    BY <1>4, <1>6 DEF CompletionInv, CompletionTypeOK, CallLine, loopVars
<1>8. Reads /\ UNCHANGED <<provider, pump, ended, cancel, loopVars, reported>>
    BY DEF CallLine
<1> QED
    BY <1>2, <1>3, <1>7, <1>8, LineKeeps

LEMMA FragmentLineInv ==
    ASSUME CompletionInv, NEW c \in NativeCalls, FragmentLine(c)
    PROVE  CompletionInv'
<1>1. Pieces[c] \in Nat /\ partial[c] \in Nat
    BY CompletionAssumption DEF CompletionInv, CompletionTypeOK
<1>2. partial' \in [NativeCalls -> Nat] /\ \A k \in NativeCalls : partial'[k] <= Pieces[k]
    BY <1>1 DEF FragmentLine, CompletionInv, CompletionTypeOK
<1>3. CompletionTypeOK'
    BY <1>2 DEF CompletionInv, CompletionTypeOK, FragmentLine, loopVars
<1>4. /\ Reads /\ queue' = queue
      /\ UNCHANGED <<provider, pump, ended, cancel, loopVars, reported>>
    BY DEF FragmentLine
<1>5. [is |-> "done"] \in Event
    BY PlainEvents DEF Kinds
<1> QED
    BY <1>3, <1>4, <1>5, LineKeeps

LEMMA JunkLineInv == CompletionInv /\ JunkLine => CompletionInv'
<1> SUFFICES ASSUME CompletionInv, JunkLine
             PROVE  CompletionInv'
    OBVIOUS
<1>1. CASE junk < MaxJunk
    <2>1. junk' = junk + 1 /\ UNCHANGED <<pump, queue>>
        BY <1>1 DEF JunkLine
    <2>2. junk' \in 0..MaxJunk
        BY <1>1, <2>1, CompletionAssumption DEF CompletionInv, CompletionTypeOK
    <2>3. CompletionTypeOK'
        BY <2>1, <2>2 DEF CompletionInv, CompletionTypeOK, JunkLine, loopVars
    <2>4. Reads /\ UNCHANGED <<provider, ended, cancel, loopVars, reported>>
        BY DEF JunkLine
    <2>5. [is |-> "done"] \in Event
        BY PlainEvents DEF Kinds
    <2> QED
        BY <2>1, <2>3, <2>4, <2>5, LineKeeps
<1>2. CASE ~(junk < MaxJunk)
    <2> DEFINE e == [is |-> "raised"]
               events == <<e>>
    <2>1. e \in Event /\ e.is = "raised"
        BY PlainEvents DEF Kinds
    <2>2. Stops(events) /\ junk' = junk
        BY <1>2 DEF JunkLine
    <2> HIDE DEF e
    <2>3. events \in Seq(Event) /\ Len(events) = 1 /\ events[1] = e
        BY <2>1, OneEvent
    <2> HIDE DEF events
    <2>4. queue' \in Seq(Event) /\ pump' = "stopped"
        BY <2>2, <2>3, QueueOfStop DEF CompletionInv
    <2>5. CompletionTypeOK'
        BY <2>2, <2>4 DEF CompletionInv, CompletionTypeOK, JunkLine, loopVars
    <2>6. Told(events) /\ \A i \in 1..Len(events) : events[i].is # "sentinel"
        BY <2>1, <2>3 DEF Told
    <2>7. Reading /\ UNCHANGED <<cancel, reported, loopVars>>
        BY DEF JunkLine, Reads
    <2> QED
        BY <2>2, <2>3, <2>5, <2>6, <2>7, StopKeeps
<1> QED
    BY <1>1, <1>2

LEMMA OtherLineInv == CompletionInv /\ OtherLine => CompletionInv'
<1> SUFFICES ASSUME CompletionInv, OtherLine
             PROVE  CompletionInv'
    OBVIOUS
<1>1. junk' \in 0..MaxJunk
    BY CompletionAssumption DEF OtherLine, CompletionInv, CompletionTypeOK
<1>2. CompletionTypeOK'
    BY <1>1 DEF CompletionInv, CompletionTypeOK, OtherLine, loopVars
<1>3. /\ Reads /\ queue' = queue
      /\ UNCHANGED <<provider, pump, ended, cancel, loopVars, reported>>
    BY DEF OtherLine
<1>4. [is |-> "done"] \in Event
    BY PlainEvents DEF Kinds
<1> QED
    BY <1>2, <1>3, <1>4, LineKeeps

LEMMA ErrorLineInv == CompletionInv /\ ErrorLine => CompletionInv'
<1> SUFFICES ASSUME CompletionInv, ErrorLine
             PROVE  CompletionInv'
    OBVIOUS
<1> DEFINE e == [is |-> "error"]
<1>1. e \in Event /\ e.is = "error" /\ Puts(<<e>>)
    BY PlainEvents DEF Kinds, ErrorLine
<1> HIDE DEF e
<1>2. queue' \in Seq(Event)
    BY <1>1, QueueOfOne DEF CompletionInv
<1>3. CompletionTypeOK'
    BY <1>2 DEF CompletionInv, CompletionTypeOK, ErrorLine, loopVars
<1>4. Reads /\ UNCHANGED <<provider, pump, ended, cancel, loopVars>>
    BY DEF ErrorLine
<1> QED
    BY <1>1, <1>3, <1>4, LineKeeps

(* What follows the fragments when a stream of either format ends.         *)
LEMMA EndingTyped ==
    ASSUME CompletionTypeOK, NEW first, first \in Seq(Event),
           \A i \in 1..Len(first) : first[i].is # "sentinel"
    PROVE  /\ first \o <<[is |-> "done"]>> \in Seq(Event)
           /\ \A i \in 1..Len(first \o <<[is |-> "done"]>>) :
                 (first \o <<[is |-> "done"]>>)[i].is # "sentinel"
           /\ Told(first) => Told(first \o <<[is |-> "done"]>>)
<1> DEFINE e == [is |-> "done"]
           last == <<e>>
           all == first \o last
<1>1. e \in Event /\ e.is = "done"
    BY PlainEvents DEF Kinds
<1> HIDE DEF e
<1>2. last \in Seq(Event) /\ Len(last) = 1 /\ last[1] = e
    BY <1>1, OneEvent
<1> HIDE DEF last
<1>3. /\ all \in Seq(Event) /\ Len(all) = Len(first) + 1
      /\ \A i \in 1..Len(first) + 1 : all[i] = IF i <= Len(first) THEN first[i] ELSE last[i - Len(first)]
    <2>1. last \in Seq(Event) /\ first \in Seq(Event)
        BY <1>2
    <2>2. /\ first \o last \in Seq(Event) /\ Len(first \o last) = Len(first) + Len(last)
          /\ \A i \in 1..Len(first) + Len(last) :
                (first \o last)[i] = IF i <= Len(first) THEN first[i] ELSE last[i - Len(first)]
        BY ONLY <2>1, ConcatProperties
    <2> QED
        BY <1>2, <2>2
<1>4. Len(first) \in Nat
    OBVIOUS
<1> HIDE DEF all
<1>5. \A i \in 1..Len(first) : all[i] = first[i]
    BY <1>3, <1>4
<1>6. all[Len(first) + 1] = e
    <2>1. Len(first) + 1 \in 1..Len(first) + 1 /\ ~(Len(first) + 1 <= Len(first))
          /\ (Len(first) + 1) - Len(first) = 1
        BY <1>4
    <2> QED
        BY <1>2, <1>3, <2>1
<1>7. ASSUME NEW i \in 1..Len(all)
      PROVE  all[i].is # "sentinel"
    <2>1. i \in 1..Len(first) \/ i = Len(first) + 1
        BY <1>3, <1>4
    <2> QED
        BY <1>1, <1>5, <1>6, <2>1
<1>8. Told(first) => Told(all)
    <2> SUFFICES ASSUME Told(first)
                 PROVE  Told(all)
        OBVIOUS
    <2>1. PICK i \in 1..Len(first) : first[i].is \in {"error", "raised"}
        BY DEF Told
    <2>2. i \in 1..Len(all) /\ all[i] = first[i]
        BY <1>3, <1>4, <1>5
    <2> QED
        BY <2>1, <2>2 DEF Told
<1> QED
    BY <1>3, <1>7, <1>8 DEF all, last, e

LEMMA DoneLineInv == CompletionInv /\ DoneLine => CompletionInv'
<1> SUFFICES ASSUME CompletionInv, DoneLine
             PROVE  CompletionInv'
    OBVIOUS
<1> DEFINE first == IF provider = "openai" THEN Finished ELSE <<>>
           events == first \o <<[is |-> "done"]>>
<1>1. first \in Seq(Event) /\ \A i \in 1..Len(first) : first[i].is # "sentinel"
    <2>1. Finished \in Seq(Event) /\ \A i \in 1..Len(Finished) : Finished[i].is = "call"
        BY FinishedTyped DEF CompletionInv
    <2>2. <<>> \in Seq(Event) /\ Len(<<>>) = 0
        BY EmptySeq
    <2> QED
        BY <2>1, <2>2
<1>2. Stops(events)
    BY DEF DoneLine
<1> HIDE DEF first
<1>3. events \in Seq(Event) /\ \A i \in 1..Len(events) : events[i].is # "sentinel"
    BY <1>1, EndingTyped DEF CompletionInv
<1> HIDE DEF events
<1>4. queue' \in Seq(Event) /\ pump' = "stopped"
    BY <1>2, <1>3, QueueOfStop DEF CompletionInv
<1>5. ended' = TRUE /\ Reading /\ UNCHANGED <<cancel, reported, loopVars>>
    BY DEF DoneLine, Reads
<1>6. CompletionTypeOK'
    BY <1>4 DEF CompletionInv, CompletionTypeOK, DoneLine, loopVars
<1> QED
    BY <1>2, <1>3, <1>5, <1>6, StopKeeps

LEMMA BodyEndsInv == CompletionInv /\ BodyEnds => CompletionInv'
<1> SUFFICES ASSUME CompletionInv, BodyEnds
             PROVE  CompletionInv'
    OBVIOUS
<1> DEFINE first == IF provider = "openai" THEN Finished
                    ELSE IF cancel THEN <<>> ELSE <<[is |-> "error"]>>
           events == first \o <<[is |-> "done"]>>
<1>1. /\ first \in Seq(Event) /\ \A i \in 1..Len(first) : first[i].is # "sentinel"
      /\ provider = "ollama" /\ ~cancel => Told(first)
    <2>1. Finished \in Seq(Event) /\ \A i \in 1..Len(Finished) : Finished[i].is = "call"
        BY FinishedTyped DEF CompletionInv
    <2>2. <<>> \in Seq(Event) /\ Len(<<>>) = 0
        BY EmptySeq
    <2> DEFINE e == [is |-> "error"]
               one == <<e>>
    <2>3. e \in Event /\ e.is = "error"
        BY PlainEvents DEF Kinds
    <2>4. one \in Seq(Event) /\ Len(one) = 1 /\ one[1] = e
        BY <2>3, OneEvent
    <2>5. first = IF provider = "openai" THEN Finished ELSE IF cancel THEN <<>> ELSE one
        OBVIOUS
    <2> HIDE DEF e, one, first
    <2>6. Told(one) /\ \A i \in 1..Len(one) : one[i].is # "sentinel"
        BY <2>3, <2>4 DEF Told
    <2>7. CASE provider = "openai"
        <3>1. first = Finished /\ provider # "ollama"
            BY <2>5, <2>7
        <3> QED
            BY <2>1, <3>1
    <2>8. CASE provider # "openai" /\ cancel
        <3>1. first = <<>>
            BY <2>5, <2>8
        <3> QED
            BY <2>2, <2>8, <3>1
    <2>9. CASE provider # "openai" /\ ~cancel
        <3>1. first = one
            BY <2>5, <2>9
        <3> QED
            BY <2>4, <2>6, <3>1
    <2> QED
        BY <2>7, <2>8, <2>9
<1>2. Stops(events)
    BY DEF BodyEnds
<1> HIDE DEF first
<1>3. /\ events \in Seq(Event) /\ \A i \in 1..Len(events) : events[i].is # "sentinel"
      /\ Told(first) => Told(events)
    BY <1>1, EndingTyped DEF CompletionInv
<1> HIDE DEF events
<1>4. queue' \in Seq(Event) /\ pump' = "stopped"
    BY <1>2, <1>3, QueueOfStop DEF CompletionInv
<1>5. Reading /\ UNCHANGED <<provider, cancel, reported, loopVars>>
    BY DEF BodyEnds, serverVars
<1>6. CompletionTypeOK'
    BY <1>4 DEF CompletionInv, CompletionTypeOK, BodyEnds, serverVars, loopVars
<1> QED
    BY <1>1, <1>2, <1>3, <1>5, <1>6, StopKeeps

LEMMA BreaksInv == CompletionInv /\ Breaks => CompletionInv'
<1> SUFFICES ASSUME CompletionInv, Breaks
             PROVE  CompletionInv'
    OBVIOUS
<1> DEFINE e == [is |-> "raised"]
           events == <<e>>
<1>1. e \in Event /\ e.is = "raised"
    BY PlainEvents DEF Kinds
<1>2. Stops(events)
    BY DEF Breaks
<1> HIDE DEF e
<1>3. events \in Seq(Event) /\ Len(events) = 1 /\ events[1] = e
    BY <1>1, OneEvent
<1> HIDE DEF events
<1>4. queue' \in Seq(Event) /\ pump' = "stopped"
    BY <1>2, <1>3, QueueOfStop DEF CompletionInv
<1>5. CompletionTypeOK'
    BY <1>4 DEF CompletionInv, CompletionTypeOK, Breaks, serverVars, loopVars
<1>6. Told(events) /\ \A i \in 1..Len(events) : events[i].is # "sentinel"
    BY <1>1, <1>3 DEF Told
<1>7. Reading /\ UNCHANGED <<cancel, reported, loopVars>>
    BY DEF Breaks, serverVars
<1> QED
    BY <1>2, <1>3, <1>5, <1>6, <1>7, StopKeeps

LEMMA CancelSeenInv == CompletionInv /\ CancelSeen => CompletionInv'
<1> SUFFICES ASSUME CompletionInv, CancelSeen
             PROVE  CompletionInv'
    OBVIOUS
<1>1. <<>> \in Seq(Event) /\ Len(<<>>) = 0
    BY EmptySeq
<1>2. Stops(<<>>) /\ Reading /\ cancel /\ UNCHANGED <<provider, cancel, reported, loopVars>>
    BY DEF CancelSeen, serverVars
<1>3. queue' \in Seq(Event) /\ pump' = "stopped"
    BY <1>1, <1>2, QueueOfStop DEF CompletionInv
<1>4. CompletionTypeOK'
    BY <1>3 DEF CompletionInv, CompletionTypeOK, CancelSeen, serverVars, loopVars
<1> DEFINE events == <<>>
<1>5. Stops(events) /\ events \in Seq(Event) /\ \A i \in 1..Len(events) : events[i].is # "sentinel"
    BY <1>1, <1>2
<1> HIDE DEF events
<1> QED
    BY <1>2, <1>4, <1>5, StopKeeps

LEMMA CtrlCInv == CompletionInv /\ CtrlC => CompletionInv'
<1> SUFFICES ASSUME CompletionInv, CtrlC
             PROVE  CompletionInv'
    OBVIOUS
<1>1. CompletionTypeOK'
    BY DEF CompletionInv, CompletionTypeOK, CtrlC, serverVars, loopVars
<1>2. OpenReads' /\ ReturnedReads'
    BY DEF CompletionInv, OpenReads, ReturnedReads, StreamAgreesWithWhole, CtrlC, loopVars
<1>3. SentinelIsLast' /\ ReportIsQueued'
    BY DEF CompletionInv, SentinelIsLast, ReportIsQueued, Signals, CtrlC, serverVars, loopVars
<1>4. BreakIsQueued' /\ ReturnedAfterEnd'
    BY DEF BreakIsQueued, ReturnedAfterEnd, CtrlC
<1> QED
    BY <1>1, <1>2, <1>3, <1>4 DEF CompletionInv

-----------------------------------------------------------------------------
(* What is behind the event taken moves up by one.                         *)
LEMMA TakeShifts ==
    ASSUME CompletionInv, Take
    PROVE  /\ queue \in Seq(Event) /\ Len(queue) \in Nat \ {0} /\ Head(queue) = queue[1]
           /\ Head(queue) \in Event
           /\ queue' \in Seq(Event) /\ Len(queue') = Len(queue) - 1
           /\ \A i \in 1..Len(queue') : queue'[i] = queue[i + 1]
<1>1. queue \in Seq(Event) /\ queue # <<>> /\ queue' = Tail(queue)
    BY DEF Take, CompletionInv, CompletionTypeOK
<1>2. /\ Head(queue) \in Event /\ Tail(queue) \in Seq(Event) /\ Len(Tail(queue)) = Len(queue) - 1
      /\ \A i \in 1..Len(Tail(queue)) : Tail(queue)[i] = queue[i + 1]
    BY <1>1, HeadTailProperties
<1>3. Len(queue) \in Nat \ {0}
    BY <1>1, EmptySeq
<1>4. Head(queue) = queue[1]
    BY <1>1
<1> QED
    BY <1>1, <1>2, <1>3, <1>4

LEMMA TakeKeepsLast ==
    ASSUME CompletionInv, Take
    PROVE  SentinelIsLast'
<1> SUFFICES ASSUME NEW i \in 1..Len(queue'), queue'[i].is = "sentinel"
             PROVE  i = Len(queue') /\ pump' = "stopped"
    BY DEF SentinelIsLast, Signals
<1>1. Len(queue) \in Nat /\ Len(queue') = Len(queue) - 1 /\ queue'[i] = queue[i + 1]
    BY TakeShifts
<1>2. i + 1 \in 1..Len(queue) /\ queue[i + 1].is = "sentinel"
    BY <1>1
<1>3. i + 1 = Len(queue) /\ pump = "stopped"
    BY <1>2 DEF CompletionInv, SentinelIsLast, Signals
<1>4. pump' = pump
    BY DEF Take
<1> QED
    BY <1>1, <1>3, <1>4

(* An event that is no error leaves the errors behind it.                  *)
LEMMA TakeKeepsErrors ==
    ASSUME CompletionInv, Take, Head(queue).is \notin {"error", "raised"},
           \E i \in 1..Len(queue) : Signals(i, {"error", "raised"})
    PROVE  (\E i \in 1..Len(queue) : Signals(i, {"error", "raised"}))'
<1>1. PICK i \in 1..Len(queue) : queue[i].is \in {"error", "raised"}
    BY DEF Signals
<1>2. /\ Len(queue) \in Nat /\ Head(queue) = queue[1] /\ Len(queue') = Len(queue) - 1
      /\ \A k \in 1..Len(queue') : queue'[k] = queue[k + 1]
    BY TakeShifts
<1>3. i # 1
    BY <1>1, <1>2
<1> DEFINE k == i - 1
<1>4. k \in 1..Len(queue') /\ i = k + 1
    BY <1>2, <1>3
<1> HIDE DEF k
<1>5. queue'[k] = queue[i]
    BY <1>2, <1>4
<1> QED
    BY <1>1, <1>4, <1>5 DEF Signals

(* The parser after the event, and what has been received by then.         *)
LEMMA TakeReads ==
    ASSUME CompletionInv, Take, NEW p \in Parser, NEW r \in Text, NEW cs \in Seq(Call),
           NEW to \in {"open", "returned"},
           Settled(p), Faithful(p, r), HandsOn(p, cs, to), received' = r
    PROVE  CompletionTypeOK' /\ OpenReads' /\ ReturnedReads'
<1>1. parser' = IF to = "returned" THEN Finish(p) ELSE p
    BY DEF HandsOn
<1>2. outcome' = to /\ calls' = cs
    BY DEF HandsOn
<1>3. parser' \in Parser
    BY <1>1, FinishIs
<1>4. queue' \in Seq(Event)
    BY TakeShifts
<1>5. CompletionTypeOK'
    BY <1>2, <1>3, <1>4 DEF CompletionInv, CompletionTypeOK, Take, serverVars, Text
<1>6. OpenReads'
    <2> SUFFICES ASSUME outcome' = "open"
                 PROVE  Settled(parser') /\ Faithful(parser', received')
        BY DEF OpenReads
    <2>1. parser' = p
        BY <1>1, <1>2
    <2> QED
        BY <2>1
<1>7. ReturnedReads'
    <2> SUFFICES ASSUME outcome' = "returned"
                 PROVE  StreamAgreesWithWhole'
        BY DEF ReturnedReads
    <2>1. parser' = Finish(p) /\ received' = r
        BY <1>1, <1>2
    <2>2. /\ parser'.calls = WholeCalls(r) /\ parser'.inCall = FALSE
          /\ parser'.text \o parser'.buf = Whole[r].text
          /\ Len(parser'.buf) < Len(OpenTag)
        BY <2>1, FinishedAgrees
    <2> QED
        BY <2>1, <2>2 DEF StreamAgreesWithWhole
<1> QED
    BY <1>5, <1>6, <1>7

(* An event after which the attempt goes on, unless it is cancelled.       *)
LEMMA HandledInv ==
    ASSUME CompletionInv, Take, Head(queue).is \notin {"error", "raised"},
           NEW p \in Parser, NEW r \in Text, NEW cs \in Seq(Call),
           Settled(p), Faithful(p, r), HandsOn(p, cs, Handled), received' = r
    PROVE  CompletionInv'
<1>1. Handled = "open" \/ (Handled = "returned" /\ cancel)
    BY DEF Handled
<1>2. CompletionTypeOK' /\ OpenReads' /\ ReturnedReads'
    <2> DEFINE to == Handled
    <2>1. to \in {"open", "returned"} /\ HandsOn(p, cs, to)
        BY <1>1
    <2> HIDE DEF to
    <2> QED
        BY <2>1, TakeReads
<1>3. /\ outcome = "open" /\ outcome' = Handled
      /\ UNCHANGED <<provider, ended, reported, pump, cancel>>
    BY DEF Take, HandsOn, serverVars
<1>4. SentinelIsLast'
    BY TakeKeepsLast
<1>5. ReportIsQueued'
    BY <1>3, TakeKeepsErrors DEF CompletionInv, ReportIsQueued
<1>6. BreakIsQueued'
    BY <1>3, TakeKeepsErrors DEF CompletionInv, BreakIsQueued
<1>7. ReturnedAfterEnd'
    BY <1>1, <1>3 DEF ReturnedAfterEnd
<1> QED
    BY <1>2, <1>4, <1>5, <1>6, <1>7 DEF CompletionInv

LEMMA EventKinds ==
    ASSUME NEW e \in Event
    PROVE  /\ e.is \in {"text", "call", "error", "raised", "done", "sentinel"}
           /\ e.is = "text" => e.text \in Text
           /\ e.is = "call" => e.call \in Call
BY DEF Event, Text

LEMMA TakeInv == CompletionInv /\ Take => CompletionInv'
<1> SUFFICES ASSUME CompletionInv, Take
             PROVE  CompletionInv'
    OBVIOUS
<1> DEFINE e == Head(queue)
<1>1. e \in Event /\ Len(queue) \in Nat \ {0} /\ e = queue[1]
    BY TakeShifts
<1>2. /\ outcome = "open" /\ UNCHANGED <<provider, ended, reported, pump, cancel>>
      /\ UNCHANGED <<unsent, native, partial, junk>>
    BY DEF Take, serverVars
<1>3. /\ parser \in Parser /\ received \in Text /\ calls \in Seq(Call)
      /\ Settled(parser) /\ Faithful(parser, received)
    BY <1>2 DEF CompletionInv, CompletionTypeOK, OpenReads, Text
<1>4. /\ CASE e.is = "text"     -> HandsOn(Feed(parser, e.text), calls, Handled)
           [] e.is = "call"     -> HandsOn(parser, Append(calls, e.call), Handled)
           [] e.is = "done"     -> HandsOn(parser, calls, Handled)
           [] e.is = "sentinel" -> HandsOn(parser, calls, "returned")
           [] e.is \in {"error", "raised"} -> HandsOn(parser, calls, "failed")
      /\ received' = IF e.is = "text" THEN received \o e.text ELSE received
    BY DEF Take
<1>5. CASE e.is = "text"
    <2> DEFINE p == Feed(parser, e.text)
               r == received \o e.text
    <2>1. e.text \in Text
        BY <1>1, <1>5, EventKinds
    <2>2. p \in Parser /\ r \in Text /\ Settled(p) /\ Faithful(p, r)
        BY <1>3, <2>1, FeedReads, JoinTyped
    <2>3. HandsOn(p, calls, Handled) /\ received' = r /\ e.is \notin {"error", "raised"}
        BY <1>4, <1>5
    <2> HIDE DEF p, r
    <2> QED
        BY <1>3, <2>2, <2>3, HandledInv
<1>6. CASE e.is = "call"
    <2> DEFINE cs == Append(calls, e.call)
    <2>1. e.call \in Call
        BY <1>1, <1>6, EventKinds
    <2>2. cs \in Seq(Call)
        BY <1>3, <2>1, AppendProperties
    <2>3. HandsOn(parser, cs, Handled) /\ received' = received /\ e.is \notin {"error", "raised"}
        BY <1>4, <1>6
    <2> HIDE DEF cs
    <2> QED
        BY <1>3, <2>2, <2>3, HandledInv
<1>7. CASE e.is = "done"
    <2>1. HandsOn(parser, calls, Handled) /\ received' = received /\ e.is \notin {"error", "raised"}
        BY <1>4, <1>7
    <2> QED
        BY <1>3, <2>1, HandledInv
<1>8. CASE e.is = "sentinel"
    <2>1. HandsOn(parser, calls, "returned") /\ received' = received
        BY <1>4, <1>8
    <2>2. CompletionTypeOK' /\ OpenReads' /\ ReturnedReads'
        <3> DEFINE to == "returned"
        <3>1. to \in {"open", "returned"} /\ HandsOn(parser, calls, to)
            BY <2>1
        <3> HIDE DEF to
        <3> QED
            BY <1>3, <2>1, <3>1, TakeReads
    <2>3. outcome' = "returned"
        BY <2>1 DEF HandsOn
    <2>4. Len(queue) = 1 /\ pump = "stopped"
        <3>1. 1 \in 1..Len(queue) /\ queue[1].is = "sentinel"
            BY <1>1, <1>8
        <3> QED
            BY <3>1 DEF CompletionInv, SentinelIsLast, Signals
    <2>5. ~ \E i \in 1..Len(queue) : Signals(i, {"error", "raised"})
        <3> SUFFICES ASSUME NEW i \in 1..Len(queue), queue[i].is \in {"error", "raised"}
                     PROVE  FALSE
            BY DEF Signals
        <3>1. i = 1
            BY <2>4
        <3> QED
            BY <1>1, <1>8, <3>1
    <2>6. ~reported
        BY <1>2, <2>5 DEF CompletionInv, ReportIsQueued
    <2>7. provider = "ollama" /\ ~cancel => ended
        BY <1>2, <2>4, <2>5 DEF CompletionInv, BreakIsQueued
    <2>8. ReturnedAfterEnd'
        BY <1>2, <2>4, <2>6, <2>7 DEF ReturnedAfterEnd
    <2>9. ReportIsQueued' /\ BreakIsQueued'
        BY <2>3 DEF ReportIsQueued, BreakIsQueued
    <2> QED
        BY <2>2, <2>8, <2>9, TakeKeepsLast DEF CompletionInv
<1>9. CASE e.is \in {"error", "raised"}
    <2>1. HandsOn(parser, calls, "failed") /\ received' = received
        BY <1>4, <1>9
    <2>2. outcome' = "failed" /\ parser' = parser /\ calls' = calls
        BY <2>1 DEF HandsOn
    <2>3. queue' \in Seq(Event)
        BY TakeShifts
    <2>4. CompletionTypeOK'
        BY <1>2, <2>1, <2>2, <2>3 DEF CompletionInv, CompletionTypeOK
    <2>5. OpenReads' /\ ReturnedReads' /\ ReportIsQueued' /\ BreakIsQueued' /\ ReturnedAfterEnd'
        BY <2>2 DEF OpenReads, ReturnedReads, ReportIsQueued, BreakIsQueued, ReturnedAfterEnd
    <2> QED
        BY <2>4, <2>5, TakeKeepsLast DEF CompletionInv
<1> QED
    BY <1>1, <1>5, <1>6, <1>7, <1>8, <1>9, EventKinds

(* An attempt that has begun, whatever it is to be answered.               *)
Begun ==
    /\ provider \in {"ollama", "openai"} /\ unsent \in Seq(Char) /\ native \subseteq NativeCalls
    /\ partial = [c \in NativeCalls |-> 0] /\ junk = 0 /\ ended = FALSE /\ reported = FALSE
    /\ pump = "reading" /\ queue = <<>> /\ parser = NewParser /\ received = <<>>
    /\ calls = <<>> /\ cancel = FALSE /\ outcome = "open"

LEMMA BegunInv == Begun => CompletionInv
<1> SUFFICES ASSUME Begun
             PROVE  CompletionInv
    OBVIOUS
<1>1. parser = NewParser /\ received = <<>> /\ queue = <<>> /\ outcome = "open" /\ pump = "reading"
      /\ reported = FALSE
    BY DEF Begun
<1>2. NewParser \in Parser /\ Settled(NewParser) /\ Faithful(NewParser, <<>>)
    BY NewIsFaithful
<1>5. partial \in [NativeCalls -> Nat] /\ \A c \in NativeCalls : partial[c] <= Pieces[c]
    <2>1. \A c \in NativeCalls : Pieces[c] \in Nat
        BY CompletionAssumption
    <2> QED
        BY <2>1 DEF Begun
<1>6. <<>> \in Seq(Event) /\ <<>> \in Seq(Call) /\ Len(<<>>) = 0
    BY EmptySeq
<1>7. junk \in 0..MaxJunk
    BY CompletionAssumption DEF Begun
<1>8. CompletionTypeOK
    BY <1>1, <1>2, <1>5, <1>6, <1>7, NoText DEF Begun, CompletionTypeOK, Text
<1>9. OpenReads /\ ReturnedReads
    BY <1>1, <1>2 DEF OpenReads, ReturnedReads
<1>10. SentinelIsLast /\ ReportIsQueued /\ BreakIsQueued /\ ReturnedAfterEnd
    BY <1>1, <1>6 DEF SentinelIsLast, ReportIsQueued, BreakIsQueued, ReturnedAfterEnd
<1> QED
    BY <1>8, <1>9, <1>10 DEF CompletionInv

LEMMA CompletionBegins == (CompletionInit \/ CompletionIdle) => Begun
<1>1. ASSUME CompletionInit
      PROVE  Begun
    <2>1. PICK reply \in Replies : unsent = reply.text /\ native = reply.native
        BY <1>1 DEF CompletionInit
    <2>2. unsent \in Seq(Char) /\ native \subseteq NativeCalls
        BY <2>1, CompletionAssumption
    <2> QED
        BY <1>1, <2>2 DEF CompletionInit, Begun
<1>2. ASSUME CompletionIdle
      PROVE  Begun
    <2>1. <<>> \in Seq(Char)
        BY EmptySeq
    <2> QED
        BY <1>2, <2>1 DEF CompletionIdle, Begun
<1> QED
    BY <1>1, <1>2

LEMMA CompletionStepInv == CompletionInv /\ [CompletionNext]_completionVars => CompletionInv'
<1> SUFFICES ASSUME CompletionInv, [CompletionNext]_completionVars
             PROVE  CompletionInv'
    OBVIOUS
<1>1. CASE TextLine
    BY <1>1, TextLineInv
<1>2. CASE JunkLine
    BY <1>2, JunkLineInv
<1>3. CASE OtherLine
    BY <1>3, OtherLineInv
<1>4. CASE ErrorLine
    BY <1>4, ErrorLineInv
<1>5. CASE \E c \in NativeCalls : CallLine(c) \/ FragmentLine(c)
    BY <1>5, CallLineInv, FragmentLineInv
<1>6. CASE DoneLine
    BY <1>6, DoneLineInv
<1>7. CASE BodyEnds
    BY <1>7, BodyEndsInv
<1>8. CASE Breaks
    BY <1>8, BreaksInv
<1>9. CASE CancelSeen
    BY <1>9, CancelSeenInv
<1>10. CASE Take
    BY <1>10, TakeInv
<1>11. CASE CtrlC
    BY <1>11, CtrlCInv
<1>12. CASE UNCHANGED completionVars
    <2>1. CompletionTypeOK'
        BY <1>12 DEF CompletionInv, CompletionTypeOK, completionVars
    <2>2. OpenReads' /\ ReturnedReads'
        BY <1>12 DEF CompletionInv, OpenReads, ReturnedReads, StreamAgreesWithWhole, completionVars
    <2>3. SentinelIsLast' /\ ReportIsQueued' /\ BreakIsQueued' /\ ReturnedAfterEnd'
        BY <1>12 DEF CompletionInv, SentinelIsLast, ReportIsQueued, BreakIsQueued, ReturnedAfterEnd,
                     Signals, completionVars
    <2> QED
        BY <2>1, <2>2, <2>3 DEF CompletionInv
<1> QED
    BY <1>1, <1>2, <1>3, <1>4, <1>5, <1>6, <1>7, <1>8, <1>9, <1>10, <1>11, <1>12
    DEF CompletionNext, Line

LEMMA CompletionInvariant == CompletionSpec => []CompletionInv
<1>1. CompletionInit => CompletionInv
    BY BegunInv, CompletionBegins
<1>2. CompletionInv /\ [CompletionNext]_completionVars => CompletionInv'
    BY CompletionStepInv
<1> QED
    BY <1>1, <1>2, PTL DEF CompletionSpec

(* A completion has its types, whatever the alphabet, the tags, the        *)
(* replies and the bounds (_one_completion and the providers' streams).    *)
THEOREM CompletionTypeCorrect == CompletionSpec => []CompletionTypeOK
<1>1. CompletionInv => CompletionTypeOK
    BY DEF CompletionInv
<1> QED
    BY <1>1, CompletionInvariant, PTL

(* A text cut into any deltas gives the calls, and shows the text, that    *)
(* parse_tool_calls finds in the whole of it; and what is returned without *)
(* Ctrl+C was reported by nobody as broken and, of Ollama, has its end     *)
(* (ToolCallStreamParser.feed, stream of the providers, _stream).          *)
THEOREM AnswersStayWhole == CompletionSpec => []AnswersAreWhole
<1>1. CompletionInv => AnswersAreWhole
    <2> SUFFICES ASSUME CompletionInv
                 PROVE  AnswersAreWhole
        OBVIOUS
    <2>1. StreamAgreesWithWhole
        <3>1. CASE outcome = "open"
            <4>1. /\ parser \in Parser /\ received \in Text
                  /\ Settled(parser) /\ Faithful(parser, received)
                BY <3>1 DEF CompletionInv, CompletionTypeOK, OpenReads, Text
            <4>2. /\ parser.calls = WholeCalls(received)
                  /\ parser.inCall = Whole[received].unclosed
                  /\ IF parser.inCall THEN parser.text = Whole[received].text
                     ELSE parser.text \o parser.buf = Whole[received].text
                  /\ ~parser.inCall => Len(parser.buf) < Len(OpenTag)
                BY <4>1, ReadAgrees
            <4>3. parser.inCall \in BOOLEAN
                BY <4>1, ParserFields
            <4>4. parser.inCall = (Whole[received].unclosed /\ outcome = "open")
                BY <3>1, <4>2, <4>3
            <4> QED
                BY <4>2, <4>4 DEF StreamAgreesWithWhole
        <3>2. CASE outcome = "returned"
            BY <3>2 DEF CompletionInv, ReturnedReads
        <3>3. CASE outcome = "failed"
            BY <3>3 DEF StreamAgreesWithWhole
        <3> QED
            BY <3>1, <3>2, <3>3 DEF CompletionInv, CompletionTypeOK
    <2>2. ReturnedIsComplete
        BY DEF CompletionInv, ReturnedAfterEnd, ReturnedIsComplete
    <2> QED
        BY <2>1, <2>2 DEF AnswersAreWhole
<1> QED
    BY <1>1, CompletionInvariant, PTL

-----------------------------------------------------------------------------
(* The badge, for any number of polls and any time to live of the cache.   *)

(* What the cache says the runtime was within the age of the cache, and    *)
(* what the runtime is has been noted for the current tick.                *)
CacheIsRecent ==
    /\ runtime \in lately[0]
    /\ cache.age < Ttl => \E i \in 0..cache.age : cache.says \in lately[i]

(* Only /health answers that the server is alive.                          *)
AliveIsHealth == \A p \in Polls : poll[p].at = "ready" => poll[p].got # "alive"

ReadinessInv == ReadinessTypeOK /\ CacheIsRecent /\ AliveIsHealth

LEMMA TicksAreThere == Ttl \in Nat /\ Ttl # 0 /\ 0 \in 0..Ttl - 1
BY ReadinessAssumption

LEMMA PollTyped ==
    ASSUME ReadinessTypeOK, NEW p \in Polls
    PROVE  /\ poll[p] \in Poll
           /\ poll[p].kind \in {"none", "liveness", "status"}
           /\ poll[p].at \in {"rest", "health", "ready"}
           /\ poll[p].got \in Runtime \cup {"nothing", "alive", "unreachable"}
BY DEF ReadinessTypeOK, Poll

LEMMA ReadinessInitially == ReadinessInit => ReadinessInv
<1> SUFFICES ASSUME ReadinessInit PROVE ReadinessInv
    OBVIOUS
<1>1. Uncached \in [age : 0..Ttl, says : Runtime] /\ NoPoll \in Poll
    BY TicksAreThere DEF Uncached, NoPoll, Poll, Runtime
<1>2. ReadinessTypeOK
    BY <1>1 DEF ReadinessInit, ReadinessTypeOK
<1>3. CacheIsRecent
    BY TicksAreThere DEF ReadinessInit, CacheIsRecent, Uncached
<1>4. AliveIsHealth
    BY DEF ReadinessInit, AliveIsHealth, NoPoll
<1> QED
    BY <1>2, <1>3, <1>4 DEF ReadinessInv

(* A poll is set to another value of its type.                             *)
LEMMA PollChanges ==
    ASSUME ReadinessInv, NEW p \in Polls, NEW q \in Poll, q.at = "ready" => q.got # "alive",
           poll' = [poll EXCEPT ![p] = q], UNCHANGED <<serving, runtime, lately>>,
           badge' \in Runtime \cup {"checking", "unreachable"},
           cache' \in [age : 0..Ttl, says : Runtime], CacheIsRecent'
    PROVE  ReadinessInv'
<1>1. poll' \in [Polls -> Poll] /\ \A r \in Polls : poll'[r] = IF r = p THEN q ELSE poll[r]
    BY DEF ReadinessInv, ReadinessTypeOK
<1>2. ReadinessTypeOK'
    BY <1>1 DEF ReadinessInv, ReadinessTypeOK
<1>3. AliveIsHealth'
    BY <1>1 DEF ReadinessInv, AliveIsHealth
<1> QED
    BY <1>2, <1>3 DEF ReadinessInv

(* An answer about the runtime is of the cache, or of the moment.          *)
LEMMA ReadySays ==
    ASSUME ReadinessInv, NEW p \in Polls, Ready(p)
    PROVE  /\ \E says \in Runtime : /\ poll' = [poll EXCEPT ![p].got = says]
                                    /\ \E i \in 0..Ttl - 1 : says \in lately[i]
           /\ cache' \in [age : 0..Ttl, says : Runtime]
           /\ CacheIsRecent'
<1> DEFINE says == IF Fresh THEN cache.says ELSE runtime
<1>1. /\ Ttl \in Nat /\ Ttl # 0 /\ runtime \in Runtime /\ runtime \in lately[0]
      /\ cache \in [age : 0..Ttl, says : Runtime] /\ cache.age \in 0..Ttl /\ cache.says \in Runtime
    BY TicksAreThere DEF ReadinessInv, ReadinessTypeOK, CacheIsRecent
<1>2. says \in Runtime
    BY <1>1
<1>3. /\ poll' = [poll EXCEPT ![p].got = says]
      /\ cache' = IF Fresh THEN cache ELSE [age |-> 0, says |-> runtime]
      /\ lately' = lately /\ runtime' = runtime
    BY DEF Ready
<1>4. \E i \in 0..Ttl - 1 : says \in lately[i]
    <2>1. CASE Fresh
        <3>1. PICK i \in 0..cache.age : cache.says \in lately[i]
            BY <2>1 DEF Fresh, ReadinessInv, CacheIsRecent
        <3>2. i \in 0..Ttl - 1
            BY <1>1, <2>1 DEF Fresh
        <3> QED
            BY <2>1, <3>1, <3>2
    <2>2. CASE ~Fresh
        BY <1>1, <2>2, TicksAreThere
    <2> QED
        BY <2>1, <2>2
<1>5. cache' \in [age : 0..Ttl, says : Runtime]
    BY <1>1, <1>3
<1>6. CacheIsRecent'
    <2>1. CASE Fresh
        BY <1>3, <2>1 DEF ReadinessInv, CacheIsRecent
    <2>2. CASE ~Fresh
        <3>1. cache' = [age |-> 0, says |-> runtime]
            BY <1>3, <2>2
        <3>2. cache'.age = 0 /\ cache'.says = runtime /\ 0 \in 0..0
            BY <3>1
        <3> QED
            BY <1>1, <1>3, <3>2 DEF CacheIsRecent
    <2> QED
        BY <2>1, <2>2
<1> QED
    BY <1>2, <1>3, <1>4, <1>5, <1>6

LEMMA ReadinessStep == ReadinessInv /\ [ReadinessNext]_readinessVars => ReadinessInv'
<1> SUFFICES ASSUME ReadinessInv, [ReadinessNext]_readinessVars PROVE ReadinessInv'
    OBVIOUS
<1>1. /\ Ttl \in Nat /\ Ttl # 0 /\ 0 \in 0..Ttl - 1 /\ NoPoll \in Poll /\ NoPoll.at = "rest"
      /\ cache \in [age : 0..Ttl, says : Runtime] /\ cache.age \in 0..Ttl /\ cache.says \in Runtime
      /\ runtime \in Runtime /\ runtime \in lately[0]
      /\ badge \in Runtime \cup {"checking", "unreachable"}
      /\ lately \in [0..Ttl - 1 -> SUBSET Runtime]
    BY TicksAreThere DEF ReadinessInv, ReadinessTypeOK, CacheIsRecent, NoPoll, Poll
<1>2. ASSUME NEW p \in Polls, NEW kind \in {"liveness", "status"}, Begin(p, kind)
      PROVE  ReadinessInv'
    <2> DEFINE q == [kind |-> kind, at |-> "health", got |-> "nothing"]
    <2>1. q \in Poll /\ q.at # "ready"
        BY DEF Poll
    <2>2. CacheIsRecent'
        BY <1>2 DEF Begin, ReadinessInv, CacheIsRecent
    <2> HIDE DEF q
    <2> QED
        BY <1>1, <1>2, <2>1, <2>2, PollChanges DEF Begin, q
<1>3. ASSUME NEW p \in Polls, Health(p) \/ Unanswered(p)
      PROVE  ReadinessInv'
    <2>1. PICK g \in {"alive", "unreachable"} :
             poll' = [poll EXCEPT ![p].got = g] /\ (poll[p].at = "ready" => g = "unreachable")
        BY <1>3 DEF Health, Unanswered, Asked
    <2> DEFINE q == [poll[p] EXCEPT !.got = g]
    <2>2. q \in Poll /\ (q.at = "ready" => q.got # "alive")
        BY <2>1, PollTyped DEF ReadinessInv, Poll
    <2>3. poll' = [poll EXCEPT ![p] = q]
        BY <2>1
    <2>4. CacheIsRecent'
        BY <1>3 DEF Health, Unanswered, ReadinessInv, CacheIsRecent
    <2> HIDE DEF q
    <2>5. UNCHANGED <<serving, runtime, lately>> /\ badge' = badge /\ cache' = cache
        BY <1>3 DEF Health, Unanswered
    <2> QED
        BY <1>1, <2>2, <2>3, <2>4, <2>5, PollChanges
<1>4. ASSUME NEW p \in Polls, TakeHealth(p)
      PROVE  ReadinessInv'
    <2> DEFINE q == IF poll[p].kind = "status" /\ poll[p].got = "alive"
                    THEN [poll[p] EXCEPT !.at = "ready", !.got = "nothing"] ELSE NoPoll
    <2>1. q \in Poll /\ (q.at = "ready" => q.got # "alive")
        BY <1>1, PollTyped DEF ReadinessInv, Poll
    <2>2. poll' = [poll EXCEPT ![p] = q] /\ badge' \in {badge, "unreachable"}
          /\ UNCHANGED <<serving, runtime, cache, lately>>
        BY <1>4 DEF TakeHealth
    <2>3. CacheIsRecent'
        BY <2>2 DEF ReadinessInv, CacheIsRecent
    <2> HIDE DEF q
    <2> QED
        BY <1>1, <2>1, <2>2, <2>3, PollChanges
<1>5. ASSUME NEW p \in Polls, TakeReady(p)
      PROVE  ReadinessInv'
    <2>1. poll[p].at = "ready" /\ poll[p].got # "nothing" /\ badge' = poll[p].got
          /\ poll' = [poll EXCEPT ![p] = NoPoll] /\ UNCHANGED <<serving, runtime, cache, lately>>
        BY <1>5 DEF TakeReady
    <2>2. poll[p].got \in Runtime \cup {"unreachable"}
        BY <2>1, PollTyped DEF ReadinessInv, AliveIsHealth
    <2>3. CacheIsRecent'
        BY <2>1 DEF ReadinessInv, CacheIsRecent
    <2> QED
        BY <1>1, <2>1, <2>2, <2>3, PollChanges
<1>6. ASSUME NEW p \in Polls, Ready(p)
      PROVE  ReadinessInv'
    <2>1. PICK says \in Runtime : poll' = [poll EXCEPT ![p].got = says]
        BY <1>6, ReadySays
    <2> DEFINE q == [poll[p] EXCEPT !.got = says]
    <2>2. q \in Poll /\ q.got = says
        BY PollTyped DEF ReadinessInv, Poll
    <2>3. says # "alive" /\ poll' = [poll EXCEPT ![p] = q]
        BY <2>1 DEF Runtime
    <2>4. UNCHANGED <<serving, runtime, lately>> /\ badge' = badge
        BY <1>6 DEF Ready
    <2> HIDE DEF q
    <2> QED
        BY <1>1, <1>6, <2>2, <2>3, <2>4, ReadySays, PollChanges
<1>7. CASE Age
    <2>1. /\ cache' = [cache EXCEPT !.age = IF cache.age < Ttl THEN cache.age + 1 ELSE cache.age]
          /\ lately' = [i \in 0..Ttl - 1 |-> IF i = 0 THEN {runtime} ELSE lately[i - 1]]
          /\ UNCHANGED <<serving, runtime, poll, badge>>
        BY <1>7 DEF Age
    <2>2. /\ cache' \in [age : 0..Ttl, says : Runtime] /\ cache'.says = cache.says
          /\ cache'.age = IF cache.age < Ttl THEN cache.age + 1 ELSE cache.age
        BY <1>1, <2>1
    <2>3. lately' \in [0..Ttl - 1 -> SUBSET Runtime]
        <3>1. \A i \in 0..Ttl - 1 : i # 0 => i - 1 \in 0..Ttl - 1
            BY <1>1
        <3> QED
            BY <1>1, <2>1, <3>1
    <2>4. CacheIsRecent'
        <3>1. runtime' \in lately'[0]
            BY <1>1, <2>1
        <3>2. ASSUME cache'.age < Ttl
              PROVE  \E i \in 0..cache'.age : cache'.says \in lately'[i]
            <4>1. cache.age < Ttl /\ cache'.age = cache.age + 1
                BY <1>1, <2>2, <3>2
            <4>2. PICK i \in 0..cache.age : cache.says \in lately[i]
                BY <4>1 DEF ReadinessInv, CacheIsRecent
            <4>3. i + 1 \in 0..cache'.age /\ i + 1 \in 0..Ttl - 1 /\ i + 1 # 0 /\ (i + 1) - 1 = i
                BY <1>1, <3>2, <4>1
            <4>4. lately'[i + 1] = lately[i]
                BY <2>1, <4>3
            <4> QED
                BY <2>2, <4>2, <4>3, <4>4
        <3> QED
            BY <3>1, <3>2 DEF CacheIsRecent
    <2>5. ReadinessTypeOK'
        BY <2>1, <2>2, <2>3 DEF ReadinessInv, ReadinessTypeOK
    <2>6. AliveIsHealth'
        BY <2>1 DEF ReadinessInv, AliveIsHealth
    <2> QED
        BY <2>4, <2>5, <2>6 DEF ReadinessInv
<1>8. CASE Restart
    <2>1. /\ serving' \in BOOLEAN /\ cache' = Uncached /\ UNCHANGED <<runtime, poll, badge, lately>>
        BY <1>8 DEF Restart
    <2>2. Uncached \in [age : 0..Ttl, says : Runtime] /\ ~(Uncached.age < Ttl)
        BY <1>1 DEF Uncached, Runtime
    <2> QED
        BY <2>1, <2>2 DEF ReadinessInv, ReadinessTypeOK, CacheIsRecent, AliveIsHealth
<1>9. CASE RuntimeChanges
    <2>1. /\ runtime' \in Runtime /\ lately' = [lately EXCEPT ![0] = lately[0] \cup {runtime'}]
          /\ UNCHANGED <<serving, cache, poll, badge>>
        BY <1>9 DEF RuntimeChanges
    <2>2. /\ lately' \in [0..Ttl - 1 -> SUBSET Runtime] /\ runtime' \in lately'[0]
          /\ \A i \in 0..Ttl - 1 : lately[i] \subseteq lately'[i]
        BY <1>1, <2>1
    <2>3. CacheIsRecent'
        <3>1. \A i \in 0..cache.age : cache.age < Ttl => i \in 0..Ttl - 1
            BY <1>1
        <3> QED
            BY <2>1, <2>2, <3>1 DEF ReadinessInv, CacheIsRecent
    <2> QED
        BY <2>1, <2>2, <2>3 DEF ReadinessInv, ReadinessTypeOK, AliveIsHealth
<1>10. CASE UNCHANGED readinessVars
    BY <1>10 DEF readinessVars, ReadinessInv, ReadinessTypeOK, CacheIsRecent, AliveIsHealth
<1> QED
    BY <1>2, <1>3, <1>4, <1>5, <1>6, <1>7, <1>8, <1>9, <1>10 DEF ReadinessNext, PollStep

LEMMA ReadinessInvariant == ReadinessSpec => []ReadinessInv
<1> QED
    BY ReadinessInitially, ReadinessStep, PTL DEF ReadinessSpec

(* A step that answers /v1/ready says what the runtime was at some moment  *)
(* of the last Ttl ticks, or nothing of it.                                *)
LEMMA AnswersAreRecent ==
    ASSUME ReadinessInv, [ReadinessNext]_readinessVars, NEW p \in Polls,
           poll[p].at = "ready", poll[p].got = "nothing"
    PROVE  poll'[p].got \in {"nothing", "unreachable"} \cup UNION {lately[i] : i \in DOMAIN lately}
<1>1. poll \in [Polls -> Poll] /\ poll[p] \in Poll /\ DOMAIN lately = 0..Ttl - 1
    BY DEF ReadinessInv, ReadinessTypeOK
<1>2. CASE poll'[p] = poll[p]
    BY <1>2
<1>3. ASSUME NEW r \in Polls, PollStep(r) \/ (\E kind \in {"liveness", "status"} : Begin(r, kind)), r # p
      PROVE  poll'[p] = poll[p]
    BY <1>1, <1>3 DEF PollStep, TakeHealth, TakeReady, Health, Ready, Unanswered, Begin
<1>4. CASE Unanswered(p)
    <2>1. poll' = [poll EXCEPT ![p].got = "unreachable"]
        BY <1>4 DEF Unanswered
    <2>2. poll'[p].got = "unreachable"
        BY <1>1, <2>1 DEF Poll
    <2> QED
        BY <2>2
<1>5. CASE Ready(p)
    <2>1. PICK says \in Runtime : /\ poll' = [poll EXCEPT ![p].got = says]
                                  /\ \E i \in 0..Ttl - 1 : says \in lately[i]
        BY <1>5, ReadySays
    <2>2. poll'[p].got = says
        BY <1>1, <2>1 DEF Poll
    <2> QED
        BY <1>1, <2>1, <2>2
<1>6. ~TakeHealth(p) /\ ~TakeReady(p) /\ ~Health(p) /\ \A kind \in {"liveness", "status"} : ~Begin(p, kind)
    BY DEF TakeHealth, TakeReady, Health, Asked, Begin, NoPoll
<1>7. CASE Age \/ Restart \/ RuntimeChanges \/ UNCHANGED readinessVars
    BY <1>2, <1>7 DEF Age, Restart, RuntimeChanges, readinessVars
<1> QED
    BY <1>2, <1>3, <1>4, <1>5, <1>6, <1>7 DEF ReadinessNext, PollStep

(* The variables of the badge, of its polls and of the cache have their    *)
(* types.                                                                  *)
THEOREM ReadinessTypeCorrect == ReadinessSpec => []ReadinessTypeOK
<1>1. ReadinessInv => ReadinessTypeOK
    BY DEF ReadinessInv
<1> QED
    BY <1>1, ReadinessInvariant, PTL

(* An answer about the runtime is never older than the cache allows, for   *)
(* any number of polls, whatever stops and starts (api/app.py).            *)
THEOREM ReadyStaysRecent == ReadinessSpec => ReadyIsRecent
<1>1. ReadinessInv /\ [ReadinessNext]_readinessVars =>
        [\A p \in Polls : poll[p].at = "ready" /\ poll[p].got = "nothing" =>
            poll'[p].got \in {"nothing", "unreachable"} \cup UNION {lately[i] : i \in DOMAIN lately}
        ]_readinessVars
    BY AnswersAreRecent
<1> QED
    BY <1>1, ReadinessInvariant, PTL DEF ReadinessSpec, ReadyIsRecent

-----------------------------------------------------------------------------
(* The two together: each behaviour moves one of them.                     *)

LEMMA StreamsInvariant == StreamsSpec => [](CompletionInv /\ ReadinessInv)
<1>1. StreamsInit => CompletionInv /\ ReadinessInv
    BY BegunInv, CompletionBegins, ReadinessInitially DEF StreamsInit
<1>2. ASSUME CompletionInv, ReadinessInv, [StreamsNext]_streamsVars
      PROVE  CompletionInv' /\ ReadinessInv'
    <2>1. [CompletionNext]_completionVars /\ [ReadinessNext]_readinessVars
        BY <1>2 DEF StreamsNext, streamsVars
    <2> QED
        BY <1>2, <2>1, CompletionStepInv, ReadinessStep
<1> QED
    BY <1>1, <1>2, PTL DEF StreamsSpec

(* Completion and badge beside each other, in every behaviour that the run *)
(* of the two checks: types, and the answers.                              *)
THEOREM StreamsStayTyped == StreamsSpec => []StreamsTypeOK
<1>1. CompletionInv /\ ReadinessInv => StreamsTypeOK
    BY DEF CompletionInv, ReadinessInv, StreamsTypeOK
<1> QED
    BY <1>1, StreamsInvariant, PTL
===============================================================================
