---------------------------- MODULE ConfigProofs ----------------------------
(***************************************************************************)
(* For every file and every size of the line buffer that its lines fit in, *)
(* if no line that is to be skipped looks like a setting: a lookup finds   *)
(* what the first line with that name says.                                *)
(***************************************************************************)
EXTENDS Config, TLAPS, SequenceTheorems, WellFoundedInduction

-----------------------------------------------------------------------------
(* The inductive invariant                                                 *)

AnyName == Seq(Chars)

(* The lines that have been read and set the name.                         *)
SoFar(name) == {span \in Sayings(name) : span[2] <= pos}

(* A lookup now finds what the first of these lines says.                  *)
Found(name) ==
  /\ Matches(name) = {} <=> SoFar(name) = {}
  /\ SoFar(name) # {} =>
       \E span \in SoFar(name) : /\ \A other \in SoFar(name) : span[1] <= other[1]
                                 /\ Says(span, name, getString(name))

(* The next round begins at the beginning of a line.                       *)
BetweenLines == eof \/ pos = 0 \/ file[pos] = NL

IInv ==
  /\ TypeOK
  /\ eof => pos = Len(file)
  /\ LinesFit /\ SkippedAreSilent => BetweenLines /\ \A name \in AnyName : Found(name)

-----------------------------------------------------------------------------
(* Trimming                                                                *)

(* Every set of natural numbers has a least element.                       *)
LEMMA Least ==
  ASSUME NEW S \in SUBSET Nat, S # {}
  PROVE  \E m \in S : \A n \in S : m <= n
<1> DEFINE R == {ss \in Nat \X Nat : ss[1] < ss[2]}
<1>1. R = OpToRel(<, Nat)
  BY Zenon DEF OpToRel
<1>2. IsWellFoundedOn(R, Nat)
  BY <1>1, NatLessThanWellFounded, Zenon
<1>3. \A x, y \in S : <<y, x>> \notin R => x <= y
  OBVIOUS
<1> HIDE DEF R
<1>4. PICK m \in S : \A n \in S : ~ (<<n, m>> \in R)
  BY <1>2, WFMin
<1> QED BY <1>3, <1>4

(* A bounded one has a greatest element.                                   *)
LEMMA Greatest ==
  ASSUME NEW max \in Nat, NEW S \in SUBSET (1 .. max), S # {}
  PROVE  \E m \in S : \A n \in S : n <= m
<1> DEFINE T == {max - n : n \in S}
<1>1. T \in SUBSET Nat /\ T # {}
  <2>1. \A n \in S : n \in 1 .. max /\ max - n \in Nat
    OBVIOUS
  <2> QED BY <2>1
<1>2. PICK t \in T : \A u \in T : t <= u
  BY <1>1, Least, Zenon
<1>3. PICK m \in S : t = max - m
  BY <1>2
<1>4. \A n \in S : max - n \in T
  OBVIOUS
<1>5. \A n \in S : max - m <= max - n
  BY <1>2, <1>3, <1>4
<1>6. \A n \in S : n <= m
  BY <1>5
<1> QED BY <1>6

(* The elements of a text and of its parts.                                *)
LEMMA Parts ==
  ASSUME NEW str \in Seq(Chars), NEW a \in 1 .. Len(str) + 1, NEW b \in 0 .. Len(str)
  PROVE  /\ Len(str) \in Nat /\ SubSeq(str, a, b) \in Seq(Chars)
         /\ Len(SubSeq(str, a, b)) = IF a <= b THEN b - a + 1 ELSE 0
         /\ \A k \in 1 .. b - a + 1 : SubSeq(str, a, b)[k] = str[a + k - 1]
<1>1. Len(str) \in Nat
  OBVIOUS
<1>2. a \in Int /\ b \in Int /\ \A k \in a .. b : str[k] \in Chars
  BY <1>1
<1> QED BY <1>1, <1>2, SubSeqProperties

Ink(str) == {k \in 1 .. Len(str) : str[k] \notin Blanks}

(* lStrip leaves what begins with the first character that is no blank.    *)
LEMMA StripLeft ==
  ASSUME NEW str \in Seq(Chars)
  PROVE  \/ Ink(str) = {} /\ lStrip(str) = << >>
         \/ \E first \in Ink(str) : /\ \A k \in Ink(str) : first <= k
                                    /\ lStrip(str) = SubSeq(str, first, Len(str))
<1> DEFINE P(q) == /\ \A k \in 1 .. q : str[k] \in Blanks
                   /\ q < Len(str) => str[q + 1] \notin Blanks
           p == CHOOSE q \in 0 .. Len(str) : P(q)
<1>1. Len(str) \in Nat
  OBVIOUS
<1>2. \E q \in 0 .. Len(str) : P(q)
  <2>1. CASE Ink(str) = {}
    <3>1. P(Len(str)) /\ Len(str) \in 0 .. Len(str)
      BY <1>1, <2>1 DEF Ink
    <3> QED BY <3>1, Zenon
  <2>2. CASE Ink(str) # {}
    <3>1. Ink(str) \in SUBSET Nat
      BY DEF Ink
    <3>2. PICK first \in Ink(str) : \A k \in Ink(str) : first <= k
      BY <2>2, <3>1, Least
    <3>3. first - 1 \in 0 .. Len(str) /\ P(first - 1)
      BY <1>1, <3>2 DEF Ink
    <3> QED BY <3>3, Zenon
  <2> QED BY <2>1, <2>2
<1>3. p \in 0 .. Len(str) /\ P(p)
  BY <1>2, Zenon
<1>4. lStrip(str) = IF p = Len(str) THEN << >> ELSE SubSeq(str, p + 1, Len(str))
  BY DEF lStrip
<1> HIDE DEF p
<1>5. CASE p = Len(str)
  <2>1. Ink(str) = {}
    BY <1>3, <1>5 DEF Ink
  <2> QED BY <1>4, <1>5, <2>1
<1>6. CASE p # Len(str)
  <2>1. p + 1 \in Ink(str) /\ \A k \in Ink(str) : p + 1 <= k
    BY <1>1, <1>3, <1>6 DEF Ink
  <2> QED BY <1>4, <1>6, <2>1
<1> QED BY <1>5, <1>6

(* rStrip leaves what ends with the last character that is no blank.       *)
LEMMA StripRight ==
  ASSUME NEW str \in Seq(Chars)
  PROVE  \/ Ink(str) = {} /\ rStrip(str) = << >>
         \/ \E last \in Ink(str) : /\ \A k \in Ink(str) : k <= last
                                   /\ rStrip(str) = SubSeq(str, 1, last)
<1> DEFINE P(q) == /\ \A k \in q + 1 .. Len(str) : str[k] \in Blanks
                   /\ str[q] \notin Blanks \/ q = 1
           tmp == CHOOSE q \in 1 .. Len(str) : P(q)
<1>1. Len(str) \in Nat /\ (str # << >> => Len(str) > 0)
  BY EmptySeq
<1>2. rStrip(str) = IF str = << >> \/ str[tmp] \in Blanks THEN << >> ELSE SubSeq(str, 1, tmp)
  BY DEF rStrip
<1>3. CASE str = << >>
  BY <1>2, <1>3 DEF Ink
<1>4. CASE str # << >>
  <2>1. \E q \in 1 .. Len(str) : P(q)
    <3>1. CASE Ink(str) = {}
      <4>1. 1 \in 1 .. Len(str) /\ P(1)
        BY <1>1, <1>4, <3>1 DEF Ink
      <4> QED BY <4>1, Zenon
    <3>2. CASE Ink(str) # {}
      <4>1. Ink(str) \in SUBSET (1 .. Len(str))
        BY DEF Ink
      <4>2. PICK last \in Ink(str) : \A k \in Ink(str) : k <= last
        BY <1>1, <3>2, <4>1, Greatest
      <4>3. last \in 1 .. Len(str) /\ P(last)
        BY <1>1, <4>2 DEF Ink
      <4> QED BY <4>3, Zenon
    <3> QED BY <3>1, <3>2
  <2>2. tmp \in 1 .. Len(str) /\ P(tmp)
    BY <2>1, Zenon
  <2> HIDE DEF tmp
  <2>3. CASE str[tmp] \in Blanks
    <3>1. Ink(str) = {}
      BY <1>1, <2>2, <2>3 DEF Ink
    <3> QED BY <1>2, <2>3, <3>1
  <2>4. CASE str[tmp] \notin Blanks
    <3>1. tmp \in Ink(str) /\ \A k \in Ink(str) : k <= tmp
      BY <1>1, <2>2, <2>4 DEF Ink
    <3> QED BY <1>2, <1>4, <2>4, <3>1
  <2> QED BY <2>3, <2>4
<1> QED BY <1>3, <1>4

(* Both leave what is between.                                             *)
LEMMA Stripped ==
  ASSUME NEW str \in Seq(Chars)
  PROVE  \/ Ink(str) = {} /\ rStrip(lStrip(str)) = << >>
         \/ \E first, last \in Ink(str) :
              /\ \A k \in Ink(str) : first <= k /\ k <= last
              /\ rStrip(lStrip(str)) = SubSeq(str, first, last)
<1>1. CASE Ink(str) = {} /\ lStrip(str) = << >>
  <2>1. << >> \in Seq(Chars) /\ Ink(<< >>) = {}
    BY DEF Ink
  <2>2. rStrip(<< >>) = << >>
    BY <2>1, StripRight
  <2> QED BY <1>1, <2>2
<1>2. ASSUME NEW first \in Ink(str), \A k \in Ink(str) : first <= k,
             lStrip(str) = SubSeq(str, first, Len(str))
      PROVE  \E last \in Ink(str) : /\ \A k \in Ink(str) : k <= last
                                    /\ rStrip(lStrip(str)) = SubSeq(str, first, last)
  <2> DEFINE t == SubSeq(str, first, Len(str))
             n == Len(str)
  <2>1. n \in Nat /\ first \in 1 .. n /\ str[first] \notin Blanks
    BY DEF Ink
  <2>2. /\ t \in Seq(Chars) /\ Len(t) = n - first + 1
        /\ \A k \in 1 .. n - first + 1 : t[k] = str[first + k - 1]
    <3>1. /\ t \in Seq(Chars) /\ Len(t) = IF first <= n THEN n - first + 1 ELSE 0
          /\ \A k \in 1 .. n - first + 1 : t[k] = str[first + k - 1]
      BY <2>1, Parts
    <3> QED BY <2>1, <3>1
  <2>3. lStrip(str) = t
    BY <1>2
  <2> HIDE DEF t
  <2>4. \A k \in 1 .. n - first + 1 : k \in Ink(t) <=> first + k - 1 \in Ink(str)
    BY <2>1, <2>2 DEF Ink
  <2>5. 1 \in Ink(t)
    BY <2>1, <2>2 DEF Ink
  <2>6. PICK l \in Ink(t) : (\A k \in Ink(t) : k <= l) /\ rStrip(t) = SubSeq(t, 1, l)
    BY <2>2, <2>5, StripRight
  <2>7. l \in 1 .. n - first + 1
    BY <2>2, <2>6 DEF Ink
  <2> DEFINE last == first + l - 1
  <2>8. last \in Ink(str)
    BY <2>4, <2>6, <2>7
  <2>9. ASSUME NEW k \in Ink(str)
        PROVE  k <= last
    <3>1. k \in 1 .. n /\ first <= k
      BY <1>2 DEF Ink
    <3>2. k - first + 1 \in 1 .. n - first + 1 /\ first + (k - first + 1) - 1 = k
      BY <2>1, <3>1
    <3>3. k - first + 1 \in Ink(t)
      BY <2>4, <3>2
    <3>4. k - first + 1 <= l
      BY <2>6, <3>3
    <3> QED BY <2>1, <2>7, <3>1, <3>4
  <2>10. SubSeq(t, 1, l) = SubSeq(str, first, last)
    <3>1. SubSeq(SubSeq(str, first, n), 1, l) = SubSeq(str, first + 1 - 1, first + l - 1)
      <4>1. n \in 1 .. n /\ 1 \in 1 .. n - first + 1
        BY <2>1
      <4> QED BY <2>1, <2>2, <2>7, <4>1, SubSeqOfSubSeq
    <3>2. first + 1 - 1 = first
      BY <2>1
    <3> QED BY <3>1, <3>2 DEF t
  <2> QED BY <2>3, <2>6, <2>8, <2>9, <2>10
<1>3. CASE \E first \in Ink(str) : /\ \A k \in Ink(str) : first <= k
                                   /\ lStrip(str) = SubSeq(str, first, Len(str))
  BY <1>2, <1>3
<1> QED BY <1>1, <1>3, StripLeft

(* The parts of the file.                                                  *)
Cuts == {SubSeq(file, c, d) : c, d \in 1 .. Len(file)} \cup {<< >>}

(* So a name and a content are trimmed as they are read.                   *)
LEMMA StrippedPart ==
  ASSUME file \in Seq(Chars), NEW a \in 1 .. Len(file) + 1, NEW b \in 0 .. Len(file)
  PROVE  /\ IsTrimmed(rStrip(lStrip(SubSeq(file, a, b))), a, b)
         /\ rStrip(lStrip(SubSeq(file, a, b))) \in Cuts
<1> DEFINE text == SubSeq(file, a, b)
           ink == {k \in a .. b : file[k] \notin Blanks}
           str == rStrip(lStrip(text))
           n == Len(file)
<1> SUFFICES IsTrimmed(str, a, b) /\ str \in Cuts
  OBVIOUS
<1>1. /\ n \in Nat /\ text \in Seq(Chars) /\ Len(text) = IF a <= b THEN b - a + 1 ELSE 0
      /\ \A k \in 1 .. b - a + 1 : text[k] = file[a + k - 1]
  BY Parts
<1>2. \A k \in 1 .. b - a + 1 : a + k - 1 \in a .. b /\ (k \in Ink(text) <=> a + k - 1 \in ink)
  BY <1>1 DEF Ink
<1>3. Ink(text) \subseteq 1 .. b - a + 1
  BY <1>1 DEF Ink
<1>4. \A k \in ink : k - a + 1 \in Ink(text) /\ k \in a .. b
  <2> SUFFICES ASSUME NEW k \in ink PROVE k - a + 1 \in Ink(text) /\ k \in a .. b
    OBVIOUS
  <2>1. k - a + 1 \in 1 .. b - a + 1 /\ a + (k - a + 1) - 1 = k /\ k \in a .. b
    BY <1>1
  <2> QED BY <1>2, <2>1
<1>5. CASE Ink(text) = {} /\ str = << >>
  <2>1. ink = {}
    BY <1>4, <1>5
  <2> QED BY <1>5, <2>1 DEF IsTrimmed, Cuts
<1>6. ASSUME NEW f \in Ink(text), NEW l \in Ink(text),
             (\A k \in Ink(text) : f <= k /\ k <= l) /\ str = SubSeq(text, f, l)
      PROVE  /\ IsTrimmed(str, a, b)
             /\ str \in Cuts
  <2> DEFINE first == a + f - 1
             last == a + l - 1
  <2>1. f \in 1 .. b - a + 1 /\ l \in 1 .. b - a + 1 /\ a \in 1 .. n /\ b \in 1 .. n
    BY <1>1, <1>3
  <2>2. first \in ink /\ last \in ink
    BY <1>2, <2>1
  <2>3. ASSUME NEW k \in ink
        PROVE  first <= k /\ k <= last
    <3>1. f <= k - a + 1 /\ k - a + 1 <= l /\ k \in a .. b
      BY <1>4, <1>6
    <3> QED BY <1>1, <2>1, <3>1
  <2>4. SubSeq(text, f, l) = SubSeq(file, first, last)
    BY <1>1, <2>1, SubSeqOfSubSeq
  <2>5. first \in 1 .. n /\ last \in 1 .. n
    BY <1>1, <2>1
  <2> HIDE DEF first, last, text, str
  <2>6. IsTrimmed(str, a, b)
    <3>1. \E x, y \in ink : (\A k \in ink : x <= k /\ k <= y) /\ str = SubSeq(file, x, y)
      BY <1>6, <2>2, <2>3, <2>4
    <3> QED BY <2>2, <3>1 DEF IsTrimmed
  <2>7. str \in Cuts
    BY <1>6, <2>4, <2>5 DEF Cuts
  <2> QED BY <2>6, <2>7
<1>7. \/ Ink(text) = {} /\ str = << >>
      \/ \E f, l \in Ink(text) : (\A k \in Ink(text) : f <= k /\ k <= l) /\ str = SubSeq(text, f, l)
  <2>1. text \in Seq(Chars)
    BY <1>1
  <2> HIDE DEF text
  <2> QED BY <2>1, Stripped, Zenon
<1> HIDE DEF text, str, ink, n
<1>8. CASE \E f, l \in Ink(text) : (\A k \in Ink(text) : f <= k /\ k <= l) /\ str = SubSeq(text, f, l)
  <2>1. PICK f \in Ink(text), l \in Ink(text) :
          (\A k \in Ink(text) : f <= k /\ k <= l) /\ str = SubSeq(text, f, l)
    BY <1>8, Zenon
  <2> QED BY <1>6, <2>1
<1> QED BY <1>5, <1>7, <1>8

(* There is only one text that is trimmed from a to b.                     *)
LEMMA TrimmedOnce ==
  ASSUME NEW a \in Int, NEW b \in Int, NEW s, NEW t, IsTrimmed(s, a, b), IsTrimmed(t, a, b)
  PROVE  s = t
<1> DEFINE ink == {k \in a .. b : file[k] \notin Blanks}
<1>1. CASE ink = {}
  BY <1>1 DEF IsTrimmed
<1>2. CASE ink # {}
  <2>1. PICK f \in ink, l \in ink : (\A k \in ink : f <= k /\ k <= l) /\ s = SubSeq(file, f, l)
    BY <1>2 DEF IsTrimmed
  <2>2. PICK g \in ink, m \in ink : (\A k \in ink : g <= k /\ k <= m) /\ t = SubSeq(file, g, m)
    BY <1>2 DEF IsTrimmed
  <2>3. f = g /\ l = m
    <3>1. f <= g /\ g <= f /\ l <= m /\ m <= l /\ f \in Int /\ g \in Int /\ l \in Int /\ m \in Int
      BY <2>1, <2>2
    <3> QED BY <3>1
  <2> QED BY <2>1, <2>2, <2>3
<1> QED BY <1>1, <1>2

(* A blank behind it makes no difference.                                  *)
LEMMA TrimmedBlank ==
  ASSUME NEW a \in Int, NEW b \in Int, file[b] \in Blanks, NEW s, IsTrimmed(s, a, b)
  PROVE  IsTrimmed(s, a, b - 1)
<1>1. {k \in a .. b : file[k] \notin Blanks} = {k \in a .. b - 1 : file[k] \notin Blanks}
  OBVIOUS
<1> QED BY <1>1, Zenon DEF IsTrimmed

(* A part of a part of the file is a part of the file.                     *)
LEMMA PartOfPart ==
  ASSUME file \in Seq(Chars), NEW a \in 1 .. Len(file) + 1, NEW b \in 0 .. Len(file),
         NEW c \in 1 .. b - a + 2, NEW d \in 0 .. b - a + 1
  PROVE  SubSeq(SubSeq(file, a, b), c, d) = SubSeq(file, a + c - 1, a + d - 1)
<1>1. Len(file) \in Nat /\ SubSeq(file, a, b) \in Seq(Chars)
  BY Parts
<1>2. CASE c > d
  <2>1. a + c - 1 > a + d - 1 /\ c \in Int /\ d \in Int /\ a + c - 1 \in Int /\ a + d - 1 \in Int
    BY <1>1, <1>2
  <2> QED BY <1>2, <2>1, SubSeqEmpty
<1>3. CASE c <= d
  <2>1. a \in 1 .. Len(file) /\ b \in 1 .. Len(file) /\ c \in 1 .. b - a + 1 /\ d \in 1 .. b - a + 1
    BY <1>1, <1>3
  <2> QED BY <1>1, <2>1, SubSeqOfSubSeq
<1> QED BY <1>2, <1>3

-----------------------------------------------------------------------------
(* One round of load                                                       *)

(* The file is a text, and no more of it has been read than there is.      *)
LEMMA FileText ==
  ASSUME TypeOK
  PROVE  /\ file \in Seq(Chars) /\ Len(file) \in Nat /\ LineMax \in Nat \ {0}
         /\ pos \in Nat /\ pos <= Len(file) /\ Unread \in Nat /\ Unread = Len(file) - pos
         /\ \A k \in 1 .. Len(file) : file[k] \in Chars
BY ConfigAssumption DEF TypeOK, Unread

(* fgets takes a line with its end, or what is left of the file, or as     *)
(* much as fits.                                                           *)
LEMMA TakenIs ==
  ASSUME TypeOK
  PROVE  /\ Taken \in 0 .. Unread
         /\ \/ /\ LineEnds # {} /\ Taken \in 1 .. Unread /\ file[pos + Taken] = NL
               /\ \A k \in 1 .. Taken - 1 : file[pos + k] # NL
            \/ LineEnds = {} /\ Unread < LineMax /\ Taken = Unread
            \/ LineEnds = {} /\ Unread >= LineMax /\ Taken = LineMax
<1>1. CASE LineEnds = {}
  BY <1>1, FileText DEF Taken
<1>2. CASE LineEnds # {}
  <2>1. LineEnds \in SUBSET Nat
    BY DEF LineEnds
  <2>2. \E n \in LineEnds : \A m \in LineEnds : n <= m
    BY <1>2, <2>1, Least
  <2>3. Taken \in LineEnds /\ \A m \in LineEnds : Taken <= m
    BY <1>2, <2>2, Zenon DEF Taken
  <2>4. Taken \in 1 .. LineMax /\ Taken <= Unread /\ file[pos + Taken] = NL
    BY <2>3 DEF LineEnds
  <2>5. ASSUME NEW k \in 1 .. Taken - 1
        PROVE  file[pos + k] # NL
    <3>1. k \notin LineEnds /\ k \in 1 .. LineMax /\ k <= Unread
      BY <2>3, <2>4, FileText
    <3> QED BY <3>1 DEF LineEnds
  <2> QED BY <1>2, <2>4, <2>5, FileText
<1> QED BY <1>1, <1>2

(* The last character of the line that is read, its end apart.             *)
Last == IF LineEnds = {} THEN pos + Taken ELSE pos + Taken - 1

(* In a file whose lines fit, a round reads one line, and no other one     *)
(* ends in what it reads.                                                  *)
LEMMA LineRead ==
  ASSUME TypeOK, LinesFit, BetweenLines, ~ eof
  PROVE  /\ Last \in pos .. Len(file)
         /\ \A k \in pos + 1 .. Last : file[k] # NL
         /\ Last # pos + Taken => Last = pos + Taken - 1 /\ file[pos + Taken] = NL
         /\ LineEnds = {} => Unread < LineMax /\ pos + Taken = Len(file)
         /\ pos < Last => <<pos + 1, Last>> \in LineSpans
         /\ \A span \in LineSpans :
              pos < span[2] /\ span[2] <= pos + Taken => span[1] = pos + 1 /\ span[2] = Last
<1> DEFINE n == Len(file)
<1>1. /\ file \in Seq(Chars) /\ n \in Nat /\ LineMax \in Nat \ {0}
      /\ pos \in Nat /\ pos <= n /\ Unread \in Nat /\ Unread = n - pos
  BY FileText
<1>2. pos = 0 \/ file[pos] = NL
  BY DEF BetweenLines
<1>3. LineEnds = {} => Unread < LineMax
  <2> SUFFICES ASSUME LineEnds = {}, Unread >= LineMax PROVE FALSE
    BY <1>1
  <2>1. ASSUME NEW k \in 1 .. LineMax
        PROVE  file[pos + k] # NL
    <3>1. k <= Unread /\ k \notin LineEnds
      BY <1>1
    <3> QED BY <3>1 DEF LineEnds
  <2> DEFINE E == {k \in Nat : k > pos /\ (k = n \/ (k < n /\ file[k + 1] = NL))}
  <2>2. n \in E /\ E \in SUBSET Nat
    BY <1>1
  <2>3. PICK e \in E : \A k \in E : e <= k
    BY <2>2, Least, Zenon
  <2>4. e \in pos + 1 .. n /\ (e = n \/ file[e + 1] = NL)
    BY <1>1, <2>2, <2>3
  <2>5. ASSUME NEW k \in pos + 1 .. e
        PROVE  file[k] # NL
    <3>1. CASE k = pos + 1
      <4>1. 1 \in 1 .. LineMax
        BY <1>1
      <4> QED BY <2>1, <3>1, <4>1
    <3>2. CASE k # pos + 1
      <4>1. k - 1 \in Nat /\ k - 1 > pos /\ k - 1 < n /\ k - 1 + 1 = k /\ k - 1 < e
        BY <1>1, <2>4, <3>2
      <4>2. k - 1 \notin E
        BY <2>3, <2>4, <4>1
      <4> QED BY <4>1, <4>2
    <3> QED BY <3>1, <3>2
  <2>6. e >= pos + LineMax
    <3> SUFFICES ASSUME e < pos + LineMax PROVE FALSE
      BY <1>1, <2>4
    <3>1. e < n /\ file[e + 1] = NL
      BY <1>1, <2>4
    <3>2. e + 1 - pos \in 1 .. LineMax /\ pos + (e + 1 - pos) = e + 1
      BY <1>1, <2>4
    <3> QED BY <2>1, <3>1, <3>2
  <2>7. <<pos + 1, e>> \in LineSpans
    <3> DEFINE span == <<pos + 1, e>>
    <3>1. span \in (1 .. n + 1) \X (0 .. n) /\ span[1] = pos + 1 /\ span[2] = e /\ pos + 1 - 1 = pos
          /\ pos + 1 <= e
      BY <1>1, <2>4
    <3> HIDE DEF span
    <3>2. span \in LineSpans
      BY <1>1, <1>2, <2>4, <2>5, <3>1 DEF LineSpans
    <3> QED BY <3>2 DEF span
  <2>8. e - (pos + 1) + 1 < LineMax
    BY <2>7 DEF LinesFit
  <2> QED BY <1>1, <2>4, <2>6, <2>8
<1>4. /\ Taken \in Nat /\ Taken <= Unread
      /\ \/ /\ LineEnds # {} /\ Taken > 0 /\ file[pos + Taken] = NL /\ Last = pos + Taken - 1
            /\ \A k \in 1 .. Taken - 1 : file[pos + k] # NL
         \/ LineEnds = {} /\ Taken = Unread /\ Last = pos + Taken /\ Last = n
  BY <1>1, <1>3, TakenIs DEF Last
<1>5. Last \in pos .. n
  BY <1>1, <1>4
<1>6. ASSUME NEW k \in pos + 1 .. Last
      PROVE  file[k] # NL
  <2>1. CASE LineEnds = {}
    <3>1. k - pos \in 1 .. LineMax /\ k - pos <= Unread /\ pos + (k - pos) = k
      BY <1>1, <1>3, <1>4, <2>1
    <3> QED BY <2>1, <3>1 DEF LineEnds
  <2>2. CASE LineEnds # {}
    <3>1. k - pos \in 1 .. Taken - 1 /\ pos + (k - pos) = k
      BY <1>1, <1>4, <2>2
    <3> QED BY <1>4, <2>2, <3>1
  <2> QED BY <2>1, <2>2
<1>7. Last # pos + Taken => Last = pos + Taken - 1 /\ file[pos + Taken] = NL
  BY <1>4
<1>8. Last = n \/ (Last + 1 = pos + Taken /\ file[Last + 1] = NL)
  BY <1>1, <1>4
<1>9. ASSUME pos < Last
      PROVE  <<pos + 1, Last>> \in LineSpans
  <2> DEFINE span == <<pos + 1, Last>>
  <2>1. span \in (1 .. n + 1) \X (0 .. n) /\ span[1] = pos + 1 /\ span[2] = Last /\ pos + 1 - 1 = pos
        /\ pos + 1 <= Last
    BY <1>1, <1>5, <1>9
  <2> HIDE DEF span
  <2>2. span \in LineSpans
    BY <1>1, <1>2, <1>6, <1>8, <2>1 DEF LineSpans
  <2> QED BY <2>2 DEF span
<1>10. ASSUME NEW span \in LineSpans, pos < span[2], span[2] <= pos + Taken
       PROVE  span[1] = pos + 1 /\ span[2] = Last
  <2> DEFINE s1 == span[1]
             s2 == span[2]
  <2>1. /\ s1 \in 1 .. n + 1 /\ s2 \in 0 .. n /\ s1 <= s2
        /\ s1 = 1 \/ file[s1 - 1] = NL
        /\ s2 = n \/ file[s2 + 1] = NL
        /\ \A k \in s1 .. s2 : file[k] # NL
    BY DEF LineSpans
  <2>2. pos < s2 /\ s2 <= pos + Taken
    BY <1>10
  <2> HIDE DEF s1, s2
  <2>3. s1 > pos
    <3> SUFFICES ASSUME s1 <= pos PROVE FALSE
      BY <1>1, <2>1
    <3>1. pos \in s1 .. s2 /\ pos # 0
      BY <1>1, <2>1, <2>2
    <3> QED BY <1>2, <2>1, <3>1
  <2>4. s2 <= Last
    <3> SUFFICES ASSUME s2 > Last PROVE FALSE
      BY <1>5, <2>1
    <3>1. s2 = pos + Taken /\ Last # pos + Taken
      BY <1>1, <1>4, <1>5, <2>1, <2>2
    <3>2. file[s2] = NL /\ s2 \in s1 .. s2
      BY <1>7, <2>1, <3>1
    <3> QED BY <2>1, <3>2
  <2>5. s1 = pos + 1
    <3> SUFFICES ASSUME s1 # pos + 1 PROVE FALSE
      OBVIOUS
    <3>1. s1 - 1 \in pos + 1 .. Last /\ s1 # 1
      BY <1>1, <1>5, <2>1, <2>3, <2>4
    <3> QED BY <1>6, <2>1, <3>1
  <2>6. s2 = Last
    <3> SUFFICES ASSUME s2 # Last PROVE FALSE
      OBVIOUS
    <3>1. s2 + 1 \in pos + 1 .. Last /\ s2 # n
      BY <1>1, <1>5, <2>1, <2>2, <2>4
    <3> QED BY <1>6, <2>1, <3>1
  <2> QED BY <2>5, <2>6 DEF s1, s2
<1>11. LineEnds = {} => Unread < LineMax /\ pos + Taken = n
  BY <1>1, <1>3, <1>4
<1> QED BY <1>5, <1>6, <1>7, <1>9, <1>10, <1>11

-----------------------------------------------------------------------------
(* What the line says that is read                                         *)

line == SubSeq(file, pos + 1, pos + Taken)

(* The first '=' in linebuf is the first one of the line, and the item has *)
(* the parts on both sides of it.                                          *)
LEMMA ItemRead ==
  ASSUME TypeOK, LinesFit, BetweenLines, ~ eof
  PROVE  /\ Equals(line) = {} <=> \A k \in pos + 1 .. Last : file[k] # "="
         /\ Equals(line) # {} =>
              \E at \in pos + 1 .. Last :
                /\ file[at] = "=" /\ \A k \in pos + 1 .. at - 1 : file[k] # "="
                /\ IsTrimmed(ConfigItem(line).ItemName, pos + 1, at - 1)
                /\ IsTrimmed(ConfigItem(line).ItemContent, at + 1, Last)
                /\ ConfigItem(line).ItemName \in Cuts /\ ConfigItem(line).ItemContent \in Cuts
<1> DEFINE n == Len(file)
           top == pos + Taken
<1>1. /\ file \in Seq(Chars) /\ n \in Nat /\ pos \in Nat /\ pos <= n /\ Taken \in Nat
      /\ top \in pos .. n
  BY FileText, TakenIs
<1>2. /\ Last \in pos .. n
      /\ Last = top \/ (Last = top - 1 /\ top \in pos + 1 .. n /\ file[top] = NL)
  <2>1. Last \in pos .. n /\ (Last # top => Last = top - 1 /\ file[top] = NL)
    <3>1. pos + Taken - 1 = (pos + Taken) - 1
      BY <1>1
    <3> QED BY <3>1, LineRead
  <2> HIDE DEF top, n
  <2>2. Last = top - 1 => top \in pos + 1 .. n
    BY <1>1, <2>1
  <2> QED BY <2>1, <2>2, Zenon
<1>3. /\ line \in Seq(Chars) /\ Len(line) = Taken
      /\ \A k \in 1 .. Taken : line[k] = file[pos + k]
  <2>1. pos + 1 \in 1 .. n + 1 /\ top \in 0 .. n
    BY <1>1
  <2>2. /\ line \in Seq(Chars) /\ Len(line) = IF pos + 1 <= top THEN top - (pos + 1) + 1 ELSE 0
        /\ \A k \in 1 .. top - (pos + 1) + 1 : line[k] = file[pos + 1 + k - 1]
    BY <1>1, <2>1, Parts DEF line
  <2>3. top - (pos + 1) + 1 = Taken /\ \A k \in 1 .. Taken : pos + 1 + k - 1 = pos + k
    BY <1>1
  <2> HIDE DEF line
  <2>4. \A k \in 1 .. Taken : line[k] = file[pos + k]
    BY <2>2, <2>3
  <2> QED BY <1>1, <2>2, <2>4
<1>4. \A k \in Equals(line) : k \in 1 .. Taken /\ file[pos + k] = "=" /\ pos + k \in pos + 1 .. Last
  <2> SUFFICES ASSUME NEW k \in Equals(line)
               PROVE  k \in 1 .. Taken /\ file[pos + k] = "=" /\ pos + k \in pos + 1 .. Last
    OBVIOUS
  <2> HIDE DEF line
  <2>1. k \in 1 .. Taken /\ file[pos + k] = "="
    BY <1>3 DEF Equals
  <2>2. file[pos + k] # NL
    BY <2>1 DEF NL
  <2> QED BY <1>1, <1>2, <2>1, <2>2
<1>5. \A k \in pos + 1 .. Last : file[k] = "=" => k - pos \in Equals(line)
  <2> SUFFICES ASSUME NEW k \in pos + 1 .. Last, file[k] = "="
               PROVE  k - pos \in Equals(line)
    OBVIOUS
  <2>1. k - pos \in 1 .. Taken /\ pos + (k - pos) = k
    BY <1>1, <1>2
  <2> HIDE DEF line
  <2> QED BY <1>3, <2>1 DEF Equals
<1>6. Equals(line) = {} <=> \A k \in pos + 1 .. Last : file[k] # "="
  BY <1>4, <1>5
<1>7. ASSUME Equals(line) # {}
      PROVE  \E at \in pos + 1 .. Last :
                /\ file[at] = "=" /\ \A k \in pos + 1 .. at - 1 : file[k] # "="
                /\ IsTrimmed(ConfigItem(line).ItemName, pos + 1, at - 1)
                /\ IsTrimmed(ConfigItem(line).ItemContent, at + 1, Last)
                /\ ConfigItem(line).ItemName \in Cuts /\ ConfigItem(line).ItemContent \in Cuts
  <2> DEFINE e == pEqual(line)
             at == pos + e
             item == ConfigItem(line)
  <2>1. Equals(line) \in SUBSET Nat
    BY DEF Equals
  <2>2. \E k \in Equals(line) : \A m \in Equals(line) : k <= m
    BY <1>7, <2>1, Least
  <2>3. e \in Equals(line) /\ \A m \in Equals(line) : e <= m
    BY <2>2, Zenon DEF pEqual
  <2>4. item.ItemName = rStrip(lStrip(SubSeq(line, 1, e - 1)))
        /\ item.ItemContent = rStrip(lStrip(SubSeq(line, e + 1, Len(line))))
    BY DEF ConfigItem
  <2> HIDE DEF e, item
  <2>5. e \in 1 .. Taken /\ file[at] = "=" /\ at \in pos + 1 .. Last
    BY <1>4, <2>3
  <2>6. ASSUME NEW k \in pos + 1 .. at - 1
        PROVE  file[k] # "="
    <3>1. k \in pos + 1 .. Last /\ ~ (e <= k - pos)
      BY <1>1, <1>2, <2>5
    <3> QED BY <1>5, <2>3, <3>1
  <2>7. SubSeq(line, 1, e - 1) = SubSeq(file, pos + 1, at - 1)
    <3>1. /\ pos + 1 \in 1 .. n + 1 /\ top \in 0 .. n /\ 1 \in 1 .. top - (pos + 1) + 2
          /\ e - 1 \in 0 .. top - (pos + 1) + 1
          /\ pos + 1 + 1 - 1 = pos + 1 /\ pos + 1 + (e - 1) - 1 = at - 1
      BY <1>1, <2>5
    <3> HIDE DEF at, top, n
    <3>2. SubSeq(SubSeq(file, pos + 1, top), 1, e - 1) = SubSeq(file, pos + 1 + 1 - 1, pos + 1 + (e - 1) - 1)
      BY <1>1, <3>1, PartOfPart DEF n
    <3> QED BY <3>1, <3>2 DEF line, top
  <2>8. SubSeq(line, e + 1, Len(line)) = SubSeq(file, at + 1, top)
    <3>1. /\ pos + 1 \in 1 .. n + 1 /\ top \in 0 .. n /\ e + 1 \in 1 .. top - (pos + 1) + 2
          /\ Taken \in 0 .. top - (pos + 1) + 1
          /\ pos + 1 + (e + 1) - 1 = at + 1 /\ pos + 1 + Taken - 1 = top
      BY <1>1, <2>5
    <3> HIDE DEF at, top, n
    <3>2. SubSeq(SubSeq(file, pos + 1, top), e + 1, Taken)
            = SubSeq(file, pos + 1 + (e + 1) - 1, pos + 1 + Taken - 1)
      BY <1>1, <3>1, PartOfPart DEF n
    <3> QED BY <1>3, <3>1, <3>2 DEF line, top
  <2>9. IsTrimmed(item.ItemName, pos + 1, at - 1) /\ item.ItemName \in Cuts
    <3>1. pos + 1 \in 1 .. n + 1 /\ at - 1 \in 0 .. n
      BY <1>1, <1>2, <2>5
    <3> QED BY <1>1, <2>4, <2>7, <3>1, StrippedPart
  <2>10. IsTrimmed(item.ItemContent, at + 1, Last) /\ item.ItemContent \in Cuts
    <3>1. at + 1 \in 1 .. n + 1 /\ top \in 0 .. n /\ at + 1 \in Int /\ top \in Int
      BY <1>1, <1>2, <2>5
    <3>2. IsTrimmed(item.ItemContent, at + 1, top) /\ item.ItemContent \in Cuts
      BY <1>1, <2>4, <2>8, <3>1, StrippedPart
    <3>3. CASE Last = top
      BY <3>2, <3>3
    <3>4. CASE Last = top - 1 /\ file[top] = NL
      <4>1. file[top] \in Blanks
        BY <3>4 DEF Blanks
      <4> HIDE DEF at, top
      <4> QED BY <3>1, <3>2, <3>4, <4>1, TrimmedBlank
    <3> QED BY <1>2, <3>3, <3>4
  <2> QED BY <2>5, <2>6, <2>9, <2>10 DEF item
<1> QED BY <1>6, <1>7

(* The line says what the item says, and nothing without a '='.            *)
LEMMA LineSays ==
  ASSUME TypeOK, LinesFit, SkippedAreSilent, BetweenLines, ~ eof,
         NEW span \in LineSpans, span[1] = pos + 1, span[2] = Last, NEW name, NEW content
  PROVE  Says(span, name, content)
           <=> /\ Equals(line) # {}
               /\ strcasecmp(ConfigItem(line).ItemName, name) /\ content = ConfigItem(line).ItemContent
<1> DEFINE item == ConfigItem(line)
<1>1. pos \in Nat /\ Last \in Int
  BY FileText, LineRead
<1>2. Says(span, name, content)
        <=> \E at \in pos + 1 .. Last :
              /\ file[at] = "=" /\ \A k \in pos + 1 .. at - 1 : file[k] # "="
              /\ \E s \in Cuts : IsTrimmed(s, pos + 1, at - 1) /\ strcasecmp(s, name)
              /\ IsTrimmed(content, at + 1, Last)
  <2>1. Says(span, name, content)
          <=> \E at \in span[1] .. span[2] :
                /\ file[at] = "=" /\ \A k \in span[1] .. at - 1 : file[k] # "="
                /\ \E s \in Cuts : IsTrimmed(s, span[1], at - 1) /\ strcasecmp(s, name)
                /\ IsTrimmed(content, at + 1, span[2])
    BY DEF Says, Cuts, SkippedAreSilent
  <2> QED BY <2>1
<1>3. CASE Equals(line) = {}
  <2>1. \A k \in pos + 1 .. Last : file[k] # "="
    BY <1>3, ItemRead
  <2> QED BY <1>2, <1>3, <2>1
<1>4. CASE Equals(line) # {}
  <2>1. PICK at \in pos + 1 .. Last :
          /\ file[at] = "=" /\ \A k \in pos + 1 .. at - 1 : file[k] # "="
          /\ IsTrimmed(item.ItemName, pos + 1, at - 1)
          /\ IsTrimmed(item.ItemContent, at + 1, Last)
          /\ item.ItemName \in Cuts /\ item.ItemContent \in Cuts
    BY <1>4, ItemRead, Zenon
  <2> HIDE DEF item
  <2>2. ASSUME NEW other \in pos + 1 .. Last,
               file[other] = "=", \A k \in pos + 1 .. other - 1 : file[k] # "="
        PROVE  other = at
    <3>1. ~ (other < at) /\ ~ (at < other)
      BY <1>1, <2>1, <2>2
    <3> QED BY <1>1, <3>1
  <2>3. ASSUME Says(span, name, content)
        PROVE  strcasecmp(item.ItemName, name) /\ content = item.ItemContent
    <3>1. PICK s \in Cuts : /\ IsTrimmed(s, pos + 1, at - 1) /\ strcasecmp(s, name)
                            /\ IsTrimmed(content, at + 1, Last)
      BY <1>2, <2>2, <2>3
    <3>2. pos + 1 \in Int /\ at - 1 \in Int /\ at + 1 \in Int
      BY <1>1
    <3>3. s = item.ItemName /\ content = item.ItemContent
      BY <1>1, <2>1, <3>1, <3>2, TrimmedOnce
    <3> QED BY <3>1, <3>3
  <2>4. ASSUME strcasecmp(item.ItemName, name), content = item.ItemContent
        PROVE  Says(span, name, content)
    BY <1>2, <2>1, <2>4
  <2> QED BY <1>4, <2>3, <2>4 DEF item
<1> QED BY <1>3, <1>4

-----------------------------------------------------------------------------
(* Looking up                                                              *)

(* A lookup takes the first of the items with that name.                   *)
LEMMA LookupIs ==
  ASSUME NEW name, Matches(name) # {}
  PROVE  \E m \in Matches(name) : /\ \A k \in Matches(name) : m <= k
                                  /\ getString(name) = m_configItemList[m].ItemContent
<1>1. Matches(name) \in SUBSET Nat
  BY DEF Matches
<1>2. \E m \in Matches(name) : \A k \in Matches(name) : m <= k
  BY <1>1, Least
<1> QED BY <1>2, Zenon DEF getString

(* One more item is found if no other one of that name is there.           *)
LEMMA LookupAppended ==
  ASSUME NEW S, m_configItemList \in Seq(S), NEW item \in S,
         m_configItemList' = Append(m_configItemList, item), NEW name
  PROVE  /\ Matches(name)' = {} <=> Matches(name) = {} /\ ~ strcasecmp(item.ItemName, name)
         /\ Matches(name) # {} => getString(name)' = getString(name)
         /\ Matches(name) = {} /\ strcasecmp(item.ItemName, name) => getString(name)' = item.ItemContent
<1> DEFINE n == Len(m_configItemList)
<1>1. /\ n \in Nat /\ Len(m_configItemList') = n + 1 /\ m_configItemList'[n + 1] = item
      /\ \A k \in 1 .. n : m_configItemList'[k] = m_configItemList[k]
  OBVIOUS
<1>2. /\ \A k \in 1 .. n : k \in Matches(name)' <=> k \in Matches(name)
      /\ n + 1 \in Matches(name)' <=> strcasecmp(item.ItemName, name)
      /\ Matches(name)' \subseteq 1 .. n + 1 /\ Matches(name) \subseteq 1 .. n
  BY <1>1 DEF Matches, strcasecmp
<1>3. Matches(name)' = {} <=> Matches(name) = {} /\ ~ strcasecmp(item.ItemName, name)
  BY <1>1, <1>2
<1>4. ASSUME Matches(name)' # {}
      PROVE  \E m \in Matches(name)' : /\ \A k \in Matches(name)' : m <= k
                                       /\ getString(name)' = m_configItemList'[m].ItemContent
  <2>1. Matches(name)' \in SUBSET Nat
    BY <1>1, <1>2
  <2>2. \E m \in Matches(name)' : \A k \in Matches(name)' : m <= k
    BY <1>4, <2>1, Least
  <2> QED BY <2>2, Zenon DEF getString
<1>5. ASSUME Matches(name) # {}
      PROVE  getString(name)' = getString(name)
  <2>1. PICK m \in Matches(name) : /\ \A k \in Matches(name) : m <= k
                                   /\ getString(name) = m_configItemList[m].ItemContent
    BY <1>5, LookupIs
  <2>2. m \in Matches(name)' /\ m \in 1 .. n
    BY <1>2
  <2>3. PICK p \in Matches(name)' : /\ \A k \in Matches(name)' : p <= k
                                    /\ getString(name)' = m_configItemList'[p].ItemContent
    BY <1>4, <2>2
  <2>4. p <= m /\ p \in 1 .. n + 1
    BY <1>2, <2>2, <2>3
  <2>5. p \in 1 .. n
    BY <1>1, <2>2, <2>4
  <2>6. p \in Matches(name)
    BY <1>2, <2>3, <2>5
  <2>7. p = m
    <3>1. m <= p
      BY <2>1, <2>6
    <3> QED BY <1>1, <2>2, <2>4, <2>5, <3>1
  <2> QED BY <1>1, <2>1, <2>2, <2>3, <2>7
<1>6. ASSUME Matches(name) = {}, strcasecmp(item.ItemName, name)
      PROVE  getString(name)' = item.ItemContent
  <2>1. Matches(name)' = {n + 1}
    BY <1>1, <1>2, <1>6
  <2> QED BY <1>1, <1>4, <2>1
<1> QED BY <1>3, <1>5, <1>6

-----------------------------------------------------------------------------
(* The theorems                                                            *)

(* The lines that set a name say something of it.                          *)
LEMMA SaidIs ==
  ASSUME NEW name
  PROVE  \A span : span \in Sayings(name) <=> span \in LineSpans /\ \E s \in Cuts : Says(span, name, s)
BY DEF Sayings, Cuts

(* What a line says does not change.                                       *)
LEMMA FileStays ==
  ASSUME file' = file
  PROVE  /\ LineSpans' = LineSpans /\ Cuts' = Cuts
         /\ SkippedAreSilent' = SkippedAreSilent
         /\ \A a, b, s : IsTrimmed(s, a, b)' <=> IsTrimmed(s, a, b)
         /\ \A span, name, s : Says(span, name, s)' <=> Says(span, name, s)
         /\ \A name : Sayings(name)' = Sayings(name)
<1>1. LineSpans' = LineSpans /\ Cuts' = Cuts
  BY DEF LineSpans, Cuts
<1>2. \A a, b, s : IsTrimmed(s, a, b)' <=> IsTrimmed(s, a, b)
  BY DEF IsTrimmed
<1>3. \A span, name, s : Says(span, name, s)' <=> Says(span, name, s)
  BY DEF Says, Skipped, IsTrimmed
<1>4. \A name : Sayings(name)' = Sayings(name)
  BY <1>1, <1>3 DEF Sayings, Cuts
<1>5. SkippedAreSilent' = SkippedAreSilent
  BY <1>1 DEF SkippedAreSilent, Skipped
<1> QED BY <1>1, <1>2, <1>3, <1>4, <1>5

(* An item is made of texts.                                               *)
LEMMA ItemType ==
  ASSUME TypeOK, Equals(line) # {}
  PROVE  ConfigItem(line) \in [ItemName : Seq(Chars), ItemContent : Seq(Chars)]
<1>1. /\ line \in Seq(Chars) /\ Len(line) \in Nat
  <2>1. pos + 1 \in 1 .. Len(file) + 1 /\ pos + Taken \in 0 .. Len(file) /\ file \in Seq(Chars)
    BY FileText, TakenIs
  <2>2. line \in Seq(Chars)
    BY <2>1, Parts DEF line
  <2> HIDE DEF line
  <2> QED BY <2>2
<1> HIDE DEF line
<1>2. ASSUME NEW str \in Seq(Chars)
      PROVE  rStrip(lStrip(str)) \in Seq(Chars)
  <2>1. CASE rStrip(lStrip(str)) = << >>
    BY <2>1
  <2>2. ASSUME NEW f \in Ink(str), NEW l \in Ink(str), rStrip(lStrip(str)) = SubSeq(str, f, l)
        PROVE  rStrip(lStrip(str)) \in Seq(Chars)
    <3>1. f \in 1 .. Len(str) + 1 /\ l \in 0 .. Len(str)
      BY DEF Ink
    <3> QED BY <2>2, <3>1, Parts
  <2> QED BY <2>1, <2>2, Stripped
<1>3. Equals(line) \in SUBSET Nat
  BY DEF Equals
<1>4. \E k \in Equals(line) : \A m \in Equals(line) : k <= m
  BY <1>3, Least
<1>5. pEqual(line) \in 1 .. Len(line)
  <2>1. pEqual(line) \in Equals(line)
    BY <1>4, Zenon DEF pEqual
  <2> QED BY <2>1 DEF Equals
<1>6. /\ SubSeq(line, 1, pEqual(line) - 1) \in Seq(Chars)
      /\ SubSeq(line, pEqual(line) + 1, Len(line)) \in Seq(Chars)
  <2>1. /\ 1 \in 1 .. Len(line) + 1 /\ pEqual(line) - 1 \in 0 .. Len(line)
        /\ pEqual(line) + 1 \in 1 .. Len(line) + 1 /\ Len(line) \in 0 .. Len(line)
    BY <1>1, <1>5
  <2> QED BY <1>1, <2>1, Parts
<1>7. /\ rStrip(lStrip(SubSeq(line, 1, pEqual(line) - 1))) \in Seq(Chars)
      /\ rStrip(lStrip(SubSeq(line, pEqual(line) + 1, Len(line)))) \in Seq(Chars)
  BY <1>2, <1>6
<1> QED BY <1>7 DEF ConfigItem

(* A round moves on, to the end of the file or behind the end of a line,   *)
(* and adds the item of the line.                                          *)
LEMMA ReadLineEffect ==
  ASSUME TypeOK, ReadLine
  PROVE  /\ ~ eof /\ file' = file /\ pos' = pos + Taken /\ eof' = AtEnd
         /\ m_configItemList' = IF Equals(line) = {} THEN m_configItemList
                                ELSE Append(m_configItemList, ConfigItem(line))
<1>1. lineInvalid(line) => Equals(line) = {}
  BY DEF lineInvalid, Equals
<1>2. m_configItemList' = IF lineInvalid(line) \/ Equals(line) = {} THEN m_configItemList
                          ELSE Append(m_configItemList, ConfigItem(line))
  BY DEF ReadLine, line
<1> QED BY <1>1, <1>2 DEF ReadLine

(* The lines that set a name so far: there is one more if the item that is *)
(* read has that name.                                                     *)
LEMMA SoFarStep ==
  ASSUME TypeOK, LinesFit, SkippedAreSilent, BetweenLines, ReadLine, NEW name
  PROVE  /\ Equals(line) = {} \/ ~ strcasecmp(ConfigItem(line).ItemName, name)
              => SoFar(name)' = SoFar(name)
         /\ Equals(line) # {} /\ strcasecmp(ConfigItem(line).ItemName, name)
              => \E span : /\ span[1] = pos + 1 /\ SoFar(name)' = SoFar(name) \cup {span}
                           /\ Says(span, name, ConfigItem(line).ItemContent)
<1> DEFINE item == ConfigItem(line)
<1>1. /\ ~ eof /\ pos' = pos + Taken /\ pos \in Nat /\ Taken \in Nat
      /\ Last \in Int /\ Last <= pos + Taken
  <2>1. ~ eof /\ pos' = pos + Taken
    BY ReadLineEffect
  <2>2. pos \in Nat /\ Taken \in Nat
    BY FileText, TakenIs
  <2>3. Last \in pos .. Len(file) /\ Len(file) \in Nat
    BY <2>1, LineRead, FileText
  <2>4. Last <= pos + Taken
    BY <2>2, TakenIs DEF Last
  <2> QED BY <2>1, <2>2, <2>3, <2>4
<1>2. SoFar(name)' = {span \in Sayings(name) : span[2] <= pos + Taken}
  BY <1>1, FileStays, ReadLineEffect DEF SoFar
<1>3. \A span \in Sayings(name) : span \in LineSpans /\ span[2] \in Nat /\ span = <<span[1], span[2]>>
  BY DEF Sayings, LineSpans
<1>4. SoFar(name) \subseteq SoFar(name)'
  BY <1>1, <1>2, <1>3 DEF SoFar
<1>5. ASSUME NEW span \in SoFar(name)' \ SoFar(name)
      PROVE  /\ span = <<pos + 1, Last>>
             /\ Equals(line) # {} /\ strcasecmp(item.ItemName, name)
  <2>1. /\ span \in Sayings(name) /\ span \in LineSpans /\ pos < span[2] /\ span[2] <= pos + Taken
        /\ span = <<span[1], span[2]>>
    BY <1>1, <1>2, <1>3 DEF SoFar
  <2>2. span[1] = pos + 1 /\ span[2] = Last
    BY <1>1, <2>1, LineRead
  <2>3. PICK s \in Cuts : Says(span, name, s)
    BY <2>1, SaidIs
  <2>4. Equals(line) # {} /\ strcasecmp(item.ItemName, name)
    BY <1>1, <2>1, <2>2, <2>3, LineSays
  <2> QED BY <2>1, <2>2, <2>4
<1>6. ASSUME Equals(line) # {}, strcasecmp(item.ItemName, name)
      PROVE  \E span : /\ span[1] = pos + 1 /\ SoFar(name)' = SoFar(name) \cup {span}
                       /\ Says(span, name, item.ItemContent)
  <2> DEFINE span == <<pos + 1, Last>>
  <2>1. pos < Last /\ item.ItemContent \in Cuts
    <3>1. PICK at \in pos + 1 .. Last : item.ItemContent \in Cuts
      BY <1>1, <1>6, ItemRead
    <3> QED BY <1>1, <3>1
  <2>2. span \in LineSpans /\ span[1] = pos + 1 /\ span[2] = Last
    BY <1>1, <2>1, LineRead
  <2> HIDE DEF span
  <2>3. Says(span, name, item.ItemContent)
    BY <1>1, <1>6, <2>2, LineSays
  <2>4. span \in Sayings(name)
    BY <2>1, <2>2, <2>3, SaidIs
  <2>5. span \in SoFar(name)'
    BY <1>1, <1>2, <2>2, <2>4
  <2>6. SoFar(name)' = SoFar(name) \cup {span}
    BY <1>4, <1>5, <2>5 DEF span
  <2> QED BY <2>2, <2>3, <2>6
<1>7. Equals(line) = {} \/ ~ strcasecmp(item.ItemName, name) => SoFar(name)' = SoFar(name)
  BY <1>4, <1>5
<1> QED BY <1>6, <1>7

(* A lookup goes on to find what the first line with the name says.        *)
LEMMA FoundStep ==
  ASSUME TypeOK, LinesFit, SkippedAreSilent, BetweenLines, ReadLine, NEW name, Found(name)
  PROVE  Found(name)'
<1> DEFINE item == ConfigItem(line)
           list == m_configItemList
           Items == [ItemName : Seq(Chars), ItemContent : Seq(Chars)]
<1>1. \A span : Says(span, name, getString(name))' <=> Says(span, name, getString(name)')
  BY ReadLineEffect, FileStays
<1>2. /\ Matches(name) = {} <=> SoFar(name) = {}
      /\ SoFar(name) # {} =>
           \E span \in SoFar(name) : /\ \A other \in SoFar(name) : span[1] <= other[1]
                                     /\ Says(span, name, getString(name))
  BY DEF Found
<1>3. \A span \in SoFar(name) : span[1] \in Nat /\ span[1] <= pos
  BY FileText DEF SoFar, Sayings, LineSpans
<1>4. SUFFICES /\ Matches(name)' = {} <=> SoFar(name)' = {}
               /\ SoFar(name)' # {} =>
                    \E span \in SoFar(name)' : /\ \A other \in SoFar(name)' : span[1] <= other[1]
                                               /\ Says(span, name, getString(name)')
  BY <1>1 DEF Found
<1>5. CASE Equals(line) = {}
  <2>1. list' = list
    BY <1>5, ReadLineEffect
  <2>2. SoFar(name)' = SoFar(name)
    BY <1>5, SoFarStep
  <2>3. Matches(name)' = Matches(name) /\ getString(name)' = getString(name)
    BY <2>1 DEF Matches, getString, strcasecmp
  <2> QED BY <1>2, <2>2, <2>3
<1>6. CASE Equals(line) # {}
  <2>1. list' = Append(list, item) /\ list \in Seq(Items) /\ item \in Items
    BY <1>6, ReadLineEffect, ItemType DEF TypeOK
  <2> HIDE DEF item, Items
  <2>2. /\ Matches(name)' = {} <=> Matches(name) = {} /\ ~ strcasecmp(item.ItemName, name)
        /\ Matches(name) # {} => getString(name)' = getString(name)
        /\ Matches(name) = {} /\ strcasecmp(item.ItemName, name) => getString(name)' = item.ItemContent
    BY <2>1, LookupAppended
  <2>3. CASE ~ strcasecmp(item.ItemName, name)
    <3>1. SoFar(name)' = SoFar(name)
      BY <2>3, SoFarStep DEF item
    <3> QED BY <1>2, <2>2, <2>3, <3>1
  <2>4. CASE strcasecmp(item.ItemName, name)
    <3>1. PICK span : /\ span[1] = pos + 1 /\ SoFar(name)' = SoFar(name) \cup {span}
                      /\ Says(span, name, item.ItemContent)
      BY <1>6, <2>4, SoFarStep DEF item
    <3>2. CASE SoFar(name) = {}
      <4>1. getString(name)' = item.ItemContent /\ SoFar(name)' = {span} /\ Matches(name)' # {}
        BY <1>2, <2>2, <2>4, <3>1, <3>2
      <4>2. span[1] <= span[1]
        BY <3>1, FileText
      <4> QED BY <3>1, <4>1, <4>2
    <3>3. CASE SoFar(name) # {}
      <4>1. PICK first \in SoFar(name) : /\ \A other \in SoFar(name) : first[1] <= other[1]
                                         /\ Says(first, name, getString(name))
        BY <1>2, <3>3
      <4>2. getString(name)' = getString(name) /\ Matches(name)' # {}
        BY <1>2, <2>2, <2>4, <3>3
      <4>3. first[1] <= span[1]
        BY <1>3, <3>1, FileText
      <4>4. first \in SoFar(name)' /\ \A other \in SoFar(name)' : first[1] <= other[1]
        BY <3>1, <4>1, <4>3
      <4> QED BY <4>1, <4>2, <4>4
    <3> QED BY <3>2, <3>3
  <2> QED BY <2>3, <2>4
<1> QED BY <1>5, <1>6

(* The types of the variables.                                             *)
LEMMA TypeStep ==
  ASSUME TypeOK, ReadLine
  PROVE  TypeOK'
<1>1. file' \in Files /\ pos' \in 0 .. Len(file') /\ eof' \in BOOLEAN
  BY ReadLineEffect, FileText, TakenIs DEF TypeOK, AtEnd
<1>2. m_configItemList' \in Seq([ItemName : Seq(Chars), ItemContent : Seq(Chars)])
  <2> DEFINE Items == [ItemName : Seq(Chars), ItemContent : Seq(Chars)]
  <2>1. m_configItemList \in Seq(Items)
    BY DEF TypeOK
  <2>2. Equals(line) # {} => ConfigItem(line) \in Items
    BY ItemType
  <2> HIDE DEF Items
  <2>3. m_configItemList' \in Seq(Items)
    BY <2>1, <2>2, ReadLineEffect
  <2> QED BY <2>3 DEF Items
<1> QED BY <1>1, <1>2 DEF TypeOK

(* The invariant is inductive.                                             *)
LEMMA InvStep ==
  ASSUME IInv, [Next]_vars
  PROVE  IInv'
<1>1. CASE ReadLine
  <2>1. TypeOK /\ TypeOK' /\ ~ eof /\ file' = file /\ pos' = pos + Taken /\ eof' = AtEnd
    BY <1>1, TypeStep, ReadLineEffect DEF IInv
  <2>2. eof' => pos' = Len(file')
    <3> SUFFICES ASSUME eof' PROVE pos' = Len(file')
      OBVIOUS
    <3>1. LineEnds = {} /\ Unread < LineMax
      BY <2>1 DEF AtEnd
    <3>2. Taken = Unread
      BY <2>1, <3>1, FileText, TakenIs
    <3> QED BY <2>1, <3>2, FileText
  <2>3. ASSUME LinesFit', SkippedAreSilent'
        PROVE  BetweenLines' /\ \A name \in AnyName' : Found(name)'
    <3>1. LinesFit /\ SkippedAreSilent /\ AnyName' = AnyName
      BY <2>1, <2>3, FileStays DEF LinesFit, AnyName
    <3>2. BetweenLines /\ \A name \in AnyName : Found(name)
      BY <3>1 DEF IInv
    <3>3. BetweenLines'
      <4>1. CASE LineEnds # {}
        <5>1. file[pos + Taken] = NL
          BY <2>1, <4>1, TakenIs
        <5> QED BY <2>1, <5>1 DEF BetweenLines
      <4>2. CASE LineEnds = {}
        <5>1. Unread < LineMax
          BY <2>1, <3>1, <3>2, <4>2, LineRead
        <5> QED BY <2>1, <4>2, <5>1 DEF BetweenLines, AtEnd
      <4> QED BY <4>1, <4>2
    <3>4. \A name \in AnyName : Found(name)'
      BY <1>1, <2>1, <3>1, <3>2, FoundStep
    <3> QED BY <3>1, <3>3, <3>4
  <2> QED BY <2>1, <2>2, <2>3 DEF IInv
<1>2. CASE UNCHANGED vars
  <2>1. file' = file /\ pos' = pos /\ eof' = eof /\ m_configItemList' = m_configItemList
    BY <1>2 DEF vars
  <2>2. /\ TypeOK' = TypeOK /\ BetweenLines' = BetweenLines /\ AnyName' = AnyName
        /\ LinesFit' = LinesFit /\ SkippedAreSilent' = SkippedAreSilent
    BY <2>1, FileStays DEF TypeOK, LinesFit, BetweenLines, AnyName
  <2>3. \A name : Matches(name)' = Matches(name) /\ getString(name)' = getString(name)
                  /\ SoFar(name)' = SoFar(name)
    BY <2>1, FileStays DEF Matches, getString, strcasecmp, SoFar
  <2>4. \A name, span : Says(span, name, getString(name))' <=> Says(span, name, getString(name)')
    BY <2>1, FileStays
  <2>5. \A name : Found(name) => Found(name)'
    BY <2>3, <2>4 DEF Found
  <2> QED BY <2>1, <2>2, <2>5 DEF IInv
<1> QED BY <1>1, <1>2 DEF Next

(* load starts in it: nothing is read.                                     *)
LEMMA InvInit ==
  ASSUME Init
  PROVE  IInv
<1>1. TypeOK
  <2>1. file \in Files /\ Len(file) \in Nat
    BY ConfigAssumption DEF Init
  <2>2. m_configItemList \in Seq([ItemName : Seq(Chars), ItemContent : Seq(Chars)])
    BY DEF Init
  <2>3. pos \in 0 .. Len(file)
    BY <2>1 DEF Init
  <2>4. eof \in BOOLEAN
    BY DEF Init
  <2> QED BY <2>1, <2>2, <2>3, <2>4 DEF TypeOK
<1>2. ASSUME NEW name
      PROVE  Found(name)
  <2>1. Matches(name) = {}
    BY DEF Init, Matches
  <2>2. \A span \in LineSpans : span[2] \in Nat /\ span[2] > 0
    BY DEF LineSpans
  <2>3. pos = 0
    BY DEF Init
  <2>4. ASSUME NEW span \in SoFar(name)
        PROVE  FALSE
    <3>1. span \in LineSpans /\ span[2] <= pos
      BY SaidIs DEF SoFar
    <3> QED BY <2>2, <2>3, <3>1
  <2> QED BY <2>1, <2>4 DEF Found
<1> QED BY <1>1, <1>2 DEF IInv, Init, BetweenLines

(* The inductive invariant holds in every state.                           *)
THEOREM Inductive == Spec => []IInv
<1> QED BY InvInit, InvStep, PTL DEF Spec

(* Every variable has its type: load never reads behind the end of the     *)
(* file, and every item is made of two texts.                              *)
THEOREM ConfigTypeCorrect == Spec => []TypeOK
<1>1. IInv => TypeOK
  BY DEF IInv
<1> QED BY <1>1, Inductive, PTL

(* Every round that is not the last one reads something.  This is the step *)
(* that LoadEnds rests on, whatever is in the file.                        *)
THEOREM LoadProgresses == Spec => [][eof' \/ pos < pos']_vars
<1>1. IInv /\ [Next]_vars => [eof' \/ pos < pos']_vars
  <2> SUFFICES ASSUME IInv, ReadLine
               PROVE  eof' \/ pos < pos'
    BY DEF Next, vars
  <2>1. TypeOK /\ pos' = pos + Taken /\ eof' = AtEnd
    BY ReadLineEffect DEF IInv
  <2>2. AtEnd \/ Taken > 0
    BY <2>1, FileText, TakenIs DEF AtEnd
  <2> QED BY <2>1, <2>2, FileText, TakenIs
<1> QED BY <1>1, Inductive, PTL DEF Spec

(* When the whole file is read, every line has been.                       *)
LEMMA FoundIsAll ==
  ASSUME IInv, eof, LinesFit, SkippedAreSilent, NEW name \in AnyName
  PROVE  IF Sayings(name) = {} THEN getString(name) = nullptr
         ELSE \E span \in Sayings(name) :
                /\ \A other \in Sayings(name) : span[1] <= other[1]
                /\ Says(span, name, getString(name))
<1>1. pos = Len(file) /\ Found(name) /\ \A span \in LineSpans : span[2] <= Len(file)
  BY DEF IInv, LineSpans
<1>2. SoFar(name) = Sayings(name)
  BY <1>1, SaidIs DEF SoFar
<1>3. Matches(name) = {} => getString(name) = nullptr
  BY DEF getString
<1> QED BY <1>1, <1>2, <1>3 DEF Found

(* So it is for every name there is, and not only those that TLC looks up. *)
THEOREM ConfigFinds ==
  Spec => [](eof /\ LinesFit /\ SkippedAreSilent =>
               \A name \in AnyName :
                 IF Sayings(name) = {} THEN getString(name) = nullptr
                 ELSE \E span \in Sayings(name) :
                        /\ \A other \in Sayings(name) : span[1] <= other[1]
                        /\ Says(span, name, getString(name)))
<1> DEFINE Finds == \A name \in AnyName :
                      IF Sayings(name) = {} THEN getString(name) = nullptr
                      ELSE \E span \in Sayings(name) :
                             /\ \A other \in Sayings(name) : span[1] <= other[1]
                             /\ Says(span, name, getString(name))
<1>1. IInv => (eof /\ LinesFit /\ SkippedAreSilent => Finds)
  BY FoundIsAll
<1> HIDE DEF Finds
<1>2. Spec => [](eof /\ LinesFit /\ SkippedAreSilent => Finds)
  BY <1>1, Inductive, PTL
<1> QED BY <1>2 DEF Finds

(* A setting has the content that the first line with its name gives it,   *)
(* for every file whose lines fit into the buffer of load and in which no  *)
(* line that is to be skipped looks like a setting.                        *)
THEOREM ConfigLooksUp == Spec => []LookupAsWritten
<1>1. IInv => LookupAsWritten
  <2>1. \A name \in Names : name \in AnyName
    <3>1. "k" \in Chars /\ " " \in Chars
      BY DEF Chars
    <3> HIDE DEF Chars
    <3>2. ASSUME NEW c \in Chars, NEW d \in Chars
          PROVE  /\ << >> \in Seq(Chars) /\ <<c>> \in Seq(Chars)
                 /\ <<c, c>> \in Seq(Chars) /\ <<c, d, c>> \in Seq(Chars)
      OBVIOUS
    <3> QED BY <3>1, <3>2, Zenon DEF Names, AnyName
  <2> QED BY <2>1, FoundIsAll DEF LookupAsWritten
<1> QED BY <1>1, Inductive, PTL

=============================================================================
