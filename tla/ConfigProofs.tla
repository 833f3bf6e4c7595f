----------------------------- MODULE ConfigProofs -----------------------------
(***************************************************************************)
(* What ini_parse makes of a configuration file, proved for every file,     *)
(* however long its lines and its names: the parser keeps to its types, the *)
(* number it returns is that of the first bad line, the list of devices is  *)
(* at every line what the lines read so far mean, and no character of the   *)
(* file is lost to the size of a buffer before the parser has seen it.      *)
(***************************************************************************)
EXTENDS ConfigProperties, FiniteSetTheorems, SequenceTheorems, TLAPS

-----------------------------------------------------------------------------
(* Every set of naturals that is not empty has a least member: what takes    *)
(* the place of induction over texts and files in the proofs below.         *)
LEMMA LeastNatural ==
  ASSUME NEW S \in SUBSET Nat, S # {}
  PROVE  \E m \in S : \A k \in S : m <= k
<1> DEFINE R == {ss \in Nat \X Nat : ss[1] < ss[2]}
<1>1. IsWellFoundedOn(R, Nat)
  BY NatLessThanWellFounded DEF OpToRel
<1> HIDE DEF R
<1>2. S \subseteq Nat
  OBVIOUS
<1>3. \E x \in S : \A y \in S : ~ (<<y, x>> \in R)
  BY ONLY <1>1, <1>2, S # {}, WFMin, Zenon
<1>4. PICK x \in S : \A y \in S : ~(<<y, x>> \in R)
  BY <1>3
<1>5. ASSUME NEW y \in S PROVE x <= y
  <2>1. <<y, x>> \in R <=> <<y, x>>[1] < <<y, x>>[2]
    BY DEF R
  <2>2. ~ (y < x)
    BY <2>1, <1>4
  <2> QED
    BY <2>2
<1> QED
  BY <1>5

(* What Min and Max of a set between two numbers are.                       *)
LEMMA MinBetween ==
    ASSUME NEW a \in Nat, NEW b \in Nat, NEW S \in SUBSET (a .. b), S # {}
    PROVE  Min(S) \in S /\ \A k \in S : Min(S) <= k
<1>1. \E m \in S : \A k \in S : m <= k
  <2>1. S \in SUBSET Nat
    OBVIOUS
  <2> QED
    BY <2>1, LeastNatural
<1> QED
  BY <1>1 DEF Min

(* The same for the greatest: it is the least distance from the upper bound.*)
LEMMA MaxBetween ==
    ASSUME NEW a \in Nat, NEW b \in Nat, NEW S \in SUBSET (a .. b), S # {}
    PROVE  Max(S) \in S /\ \A k \in S : k <= Max(S)
<1> DEFINE R == {b - k : k \in S}
<1>1. R \in SUBSET Nat /\ R # {}
  <2>1. PICK k \in S : TRUE
    OBVIOUS
  <2>2. b - k \in R
    BY <2>1
  <2> QED
    BY <2>2
<1>2. PICK r \in R : \A k \in R : r <= k
  <2> HIDE DEF R
  <2> QED
    BY <1>1, LeastNatural
<1>3. PICK m \in S : r = b - m
  OBVIOUS
<1>4. \A k \in S : k <= m
  <2> TAKE k \in S
  <2>1. b - k \in R /\ k \in Nat /\ m \in Nat
    OBVIOUS
  <2>2. b - m <= b - k
    BY <1>2, <1>3, <2>1
  <2> QED
    BY <2>1, <2>2
<1>5. \E x \in S : \A y \in S : x >= y
  BY <1>4
<1>6. Max(S) \in S /\ \A y \in S : Max(S) >= y
  BY <1>5 DEF Max
<1> QED
  BY <1>6

-----------------------------------------------------------------------------
(* The operations on a line give texts.                                     *)
LEMMA TextTypes ==
    ASSUME NEW T, NEW s \in Seq(T)
    PROVE  /\ rstrip(s) \in Seq(T)
           /\ lskip(s) \in Seq(T)
           /\ \A i \in 1 .. Len(s) + 1 : Before(s, i) \in Seq(T)
           /\ \A i \in 1 .. Len(s) + 1 : After(s, i) \in Seq(T)
           /\ \A size \in Nat \ {0} : strncpy0(s, size) \in Seq(T)
           /\ \A chars : find_chars_or_comment(s, chars) \in 1 .. Len(s) + 1
<1>0. Len(s) \in Nat /\ DOMAIN s = 1 .. Len(s)
  OBVIOUS
<1>1. rstrip(s) \in Seq(T)
  <2> DEFINE S == {0} \cup Printed(s)
  <2>1. S \in SUBSET (0 .. Len(s)) /\ S # {}
    BY <1>0 DEF Printed
  <2> HIDE DEF S
  <2>2. Max(S) \in 0 .. Len(s)
    BY ONLY <1>0, <2>1, MaxBetween
  <2>3. rstrip(s) = SubSeq(s, 1, Max(S))
    BY DEF rstrip, S
  <2> QED
    BY <2>2, <2>3
<1>2. lskip(s) \in Seq(T)
  <2> DEFINE S == {Len(s) + 1} \cup Printed(s)
  <2>1. S \in SUBSET (1 .. Len(s) + 1) /\ S # {}
    BY <1>0 DEF Printed
  <2> HIDE DEF S
  <2>2. Min(S) \in 1 .. Len(s) + 1
    <3>1. Len(s) + 1 \in Nat /\ 1 \in Nat
      BY <1>0
    <3> QED
      BY ONLY <2>1, <3>1, MinBetween
  <2>3. lskip(s) = SubSeq(s, Min(S), Len(s))
    BY DEF lskip, S
  <2> QED
    BY <2>2, <2>3
<1>3. ASSUME NEW i \in 1 .. Len(s) + 1
      PROVE  Before(s, i) \in Seq(T) /\ After(s, i) \in Seq(T)
  BY DEF Before, After
<1>4. ASSUME NEW size \in Nat \ {0}
      PROVE  strncpy0(s, size) \in Seq(T)
  BY DEF strncpy0
<1>5. ASSUME NEW chars
      PROVE  find_chars_or_comment(s, chars) \in 1 .. Len(s) + 1
  <2> DEFINE S == {i \in 1 .. Len(s) :
                      \/ s[i] \in chars
                      \/ s[i] \in InlineComment /\ i > 1 /\ s[i - 1] = Space}
                  \cup {Len(s) + 1}
  <2>1. S \in SUBSET (1 .. Len(s) + 1) /\ S # {}
    BY <1>0
  <2>2. find_chars_or_comment(s, chars) = Min(S)
    BY DEF find_chars_or_comment
  <2> HIDE DEF S
  <2>3. Min(S) \in 1 .. Len(s) + 1
    <3>1. Len(s) + 1 \in Nat /\ 1 \in Nat
      BY <1>0
    <3> QED
      BY ONLY <2>1, <3>1, MinBetween
  <2> QED
    BY <2>2, <2>3
<1> QED
  BY <1>1, <1>2, <1>3, <1>4, <1>5

(* So do the calls of fgets, however long the line.                         *)
LEMMA FgetsType ==
    ASSUME NEW T, NEW line \in Seq(T), NEW size \in Nat, size > 1
    PROVE  fgets(line, size) \in Seq(Seq(T))
<1> DEFINE n == Len(line) \div (size - 1) + 1
<1>1. n \in Nat
  OBVIOUS
<1>2. ASSUME NEW i \in 1 .. n
      PROVE  SubSeq(line, (i - 1) * (size - 1) + 1,
                    Min({Len(line), i * (size - 1)})) \in Seq(T)
  <2>1. /\ (i - 1) * (size - 1) \in Nat
        /\ i * (size - 1) \in Nat
    BY <1>1
  <2> DEFINE S == {Len(line), i * (size - 1)}
  <2>2. Min(S) \in Nat /\ Min(S) <= Len(line)
    <3>1. PICK b \in Nat : b >= Len(line) /\ b >= i * (size - 1)
      <4>1. Len(line) + i * (size - 1) \in Nat
        BY <2>1
      <4> QED
        BY <2>1, <4>1
    <3>2. S \in SUBSET (0 .. b) /\ S # {} /\ 0 \in Nat /\ Len(line) \in S
      BY <2>1, <3>1
    <3> HIDE DEF S
    <3>3. Min(S) \in S /\ \A k \in S : Min(S) <= k
      BY <3>2, MinBetween
    <3>4. Min(S) <= Len(line)
      BY ONLY <3>2, <3>3
    <3>5. Min(S) \in 0 .. b
      BY ONLY <3>2, <3>3
    <3> QED
      BY ONLY <3>4, <3>5, b \in Nat
  <2> HIDE DEF S
  <2>3. \A a \in Nat, m \in Nat : m <= Len(line) => SubSeq(line, a + 1, m) \in Seq(T)
    OBVIOUS
  <2>4. SubSeq(line, (i - 1) * (size - 1) + 1, Min(S)) \in Seq(T)
    BY <2>1, <2>2, <2>3
  <2> QED
    BY <2>4 DEF S
<1> DEFINE piece == [i \in 1 .. n |->
                        SubSeq(line, (i - 1) * (size - 1) + 1,
                               Min({Len(line), i * (size - 1)}))]
<1>3. fgets(line, size) = piece
  BY DEF fgets
<1>4. DOMAIN piece = 1 .. n /\ \A i \in 1 .. n : piece[i] \in Seq(T)
  BY <1>2
<1>5. piece = [i \in 1 .. n |-> piece[i]]
  OBVIOUS
<1> HIDE DEF n, piece
<1>6. piece \in [1 .. n -> Seq(T)]
  BY ONLY <1>4, <1>5
<1> QED
  BY ONLY <1>1, <1>3, <1>6

(* g joins the first m texts of s from the left, one more at each index.    *)
Joins(g, s, m) ==
    g = [i \in 1 .. m |-> IF i = 1 THEN s[i] ELSE g[i - 1] \o s[i]]

(* There is such a g for every number of texts.                             *)
LEMMA JoinsExist ==
    ASSUME NEW s, NEW n \in Nat \ {0}
    PROVE  \E g : Joins(g, s, n)
<1> DEFINE None == {m \in 1 .. n : ~\E g : Joins(g, s, m)}
<1> SUFFICES ASSUME None # {} PROVE FALSE
  <2>1. n \in 1 .. n
    OBVIOUS
  <2> QED
    BY <2>1
<1>1. PICK m \in None : \A k \in None : m <= k
  <2>1. None \in SUBSET Nat
    OBVIOUS
  <2> HIDE DEF None
  <2> QED
    BY <2>1, LeastNatural
<1>2. m \in 1 .. n /\ ~\E g : Joins(g, s, m)
  OBVIOUS
<1>3. CASE m = 1
  <2>1. Joins([i \in 1 .. 1 |-> s[i]], s, 1)
    BY DEF Joins
  <2> QED
    BY <1>2, <1>3, <2>1
<1>4. CASE m # 1
  <2>1. m - 1 \in 1 .. n /\ ~(m <= m - 1)
    BY <1>2, <1>4
  <2>2. PICK g : Joins(g, s, m - 1)
    BY <1>1, <2>1
  <2> DEFINE h == [i \in 1 .. m |-> IF i = m THEN g[m - 1] \o s[m] ELSE g[i]]
  <2>3. Joins(h, s, m)
    <3>1. ASSUME NEW i \in 1 .. m
          PROVE  h[i] = IF i = 1 THEN s[i] ELSE h[i - 1] \o s[i]
      <4>1. g = [j \in 1 .. m - 1 |-> IF j = 1 THEN s[j] ELSE g[j - 1] \o s[j]]
        BY <2>2 DEF Joins
      <4>2. CASE i = m
        <5>1. m - 1 \in 1 .. m /\ m - 1 # m
          BY <1>2, <1>4
        <5>2. m \in 1 .. m
          BY <1>2
        <5>3. h[m] = g[m - 1] \o s[m]
          BY ONLY <5>2
        <5>4. h[m - 1] = g[m - 1]
          BY ONLY <5>1
        <5> QED
          BY <4>2, <5>3, <5>4, <1>4
      <4>3. CASE i # m
        <5>1. i \in 1 .. m - 1 /\ (i # 1 => i - 1 \in 1 .. m /\ i - 1 # m)
          BY <1>2, <4>3
        <5>2. h[i] = g[i] /\ (i # 1 => h[i - 1] = g[i - 1])
          BY <5>1, <4>3
        <5>3. g[i] = IF i = 1 THEN s[i] ELSE g[i - 1] \o s[i]
          BY <4>1, <5>1
        <5> QED
          BY <5>2, <5>3
      <4> QED
        BY <4>2, <4>3
    <3> DEFINE rhs == [i \in 1 .. m |-> IF i = 1 THEN s[i] ELSE h[i - 1] \o s[i]]
    <3>2. \A i \in 1 .. m : h[i] = rhs[i]
      BY <3>1
    <3>3. DOMAIN h = 1 .. m /\ DOMAIN rhs = 1 .. m
      OBVIOUS
    <3>4. h = [i \in 1 .. m |-> h[i]] /\ rhs = [i \in 1 .. m |-> rhs[i]]
      OBVIOUS
    <3>5. h = rhs
      <4> HIDE DEF h, rhs
      <4> QED
        BY <3>2, <3>4
    <3> QED
      BY <3>5 DEF Joins
  <2> QED
    BY <1>2, <2>3
<1> QED
  BY <1>3, <1>4

(* A file's pieces, put after each other, are pieces.                       *)
LEMMA FlattenType ==
    ASSUME NEW T, NEW s \in Seq(Seq(T))
    PROVE  FlattenSeq(s) \in Seq(T)
<1>1. CASE Len(s) = 0
  <2>1. FlattenSeq(s) = <<>>
    BY <1>1 DEF FlattenSeq
  <2> QED
    BY <2>1
<1>2. CASE Len(s) # 0
  <2> DEFINE n == Len(s)
  <2>1. n \in Nat \ {0} /\ \A i \in 1 .. n : s[i] \in Seq(T)
    BY <1>2
  <2> DEFINE flatten == CHOOSE g : Joins(g, s, n)
             Wrong(f) == {i \in 1 .. n : f[i] \notin Seq(T)}
  <2>2. FlattenSeq(s) = flatten[n]
    BY <1>2 DEF FlattenSeq, Joins
  <2>3. Joins(flatten, s, n)
    BY <2>1, JoinsExist
  <2>4. ASSUME NEW f, Joins(f, s, n)
        PROVE  f[n] \in Seq(T)
    <3>0. \A i \in 1 .. n : f[i] = IF i = 1 THEN s[i] ELSE f[i - 1] \o s[i]
      BY <2>4 DEF Joins
    <3> SUFFICES ASSUME Wrong(f) # {} PROVE FALSE
      BY <2>1, SMTT(30)
    <3>1. PICK m \in Wrong(f) : \A k \in Wrong(f) : m <= k
      <4>1. Wrong(f) \in SUBSET Nat
        OBVIOUS
      <4> HIDE DEF Wrong
      <4> QED
        BY <4>1, LeastNatural
    <3>2. m \in 1 .. n /\ f[m] \notin Seq(T)
      OBVIOUS
    <3>3. CASE m = 1
      BY <2>1, <3>0, <3>2, <3>3
    <3>4. CASE m # 1
      <4>1. m - 1 \in 1 .. n /\ ~(m <= m - 1)
        BY <2>1, <3>2, <3>4
      <4>2. f[m - 1] \in Seq(T)
        BY <3>1, <4>1
      <4>3. f[m] = f[m - 1] \o s[m] /\ s[m] \in Seq(T)
        BY <2>1, <3>0, <3>2, <3>4
      <4> HIDE DEF Wrong
      <4>4. f[m - 1] \o s[m] \in Seq(T)
        BY ONLY <4>2, <4>3
      <4> QED
        BY <3>2, <4>3, <4>4
    <3> QED
      BY <3>3, <3>4
  <2> HIDE DEF flatten
  <2> QED
    BY <2>2, <2>3, <2>4
<1> QED
  BY <1>1, <1>2

(* What is read from a file is texts again.                                 *)
LEMMA ReadsType ==
    ASSUME NEW T, NEW file \in Seq(Seq(T)), NEW size \in Nat, size > 1
    PROVE  Reads(file, size) \in Seq(Seq(T))
<1> DEFINE pieces == [i \in DOMAIN file |-> fgets(file[i], size)]
<1>1. Len(file) \in Nat /\ DOMAIN file = 1 .. Len(file)
  OBVIOUS
<1>2. \A i \in 1 .. Len(file) : fgets(file[i], size) \in Seq(Seq(T))
  BY FgetsType
<1>3. pieces \in [1 .. Len(file) -> Seq(Seq(T))]
  BY <1>1, <1>2
<1> HIDE DEF pieces
<1>4. pieces \in Seq(Seq(Seq(T)))
  <2> DEFINE X == Seq(Seq(T))
  <2>1. pieces \in [1 .. Len(file) -> X] /\ Len(file) \in Nat
    BY <1>1, <1>3
  <2> HIDE DEF X
  <2>2. pieces \in Seq(X)
    BY ONLY <2>1, SMTT(30)
  <2> QED
    BY <2>2 DEF X
<1>5. FlattenSeq(pieces) \in Seq(Seq(T))
  BY <1>4, FlattenType
<1> QED
  BY <1>5 DEF Reads, pieces

-----------------------------------------------------------------------------
(* Nothing of a file is lost between the calls of fgets.                    *)

(* Joins of a sequence agree with the joins of the sequence it begins with. *)
LEMMA JoinsAgree ==
    ASSUME NEW s, NEW t, NEW m \in Nat, NEW n \in Nat, m <= n,
           \A i \in 1 .. m : s[i] = t[i],
           NEW f, Joins(f, s, m), NEW g, Joins(g, t, n)
    PROVE  \A i \in 1 .. m : f[i] = g[i]
<1> DEFINE Wrong == {i \in 1 .. m : f[i] # g[i]}
<1>0. /\ \A i \in 1 .. m : f[i] = IF i = 1 THEN s[i] ELSE f[i - 1] \o s[i]
      /\ \A i \in 1 .. n : g[i] = IF i = 1 THEN t[i] ELSE g[i - 1] \o t[i]
  BY DEF Joins
<1> SUFFICES ASSUME Wrong # {} PROVE FALSE
  OBVIOUS
<1>1. PICK k \in Wrong : \A i \in Wrong : k <= i
  <2>1. Wrong \in SUBSET Nat
    OBVIOUS
  <2> HIDE DEF Wrong
  <2> QED
    BY <2>1, LeastNatural
<1>2. k \in 1 .. m /\ k \in 1 .. n /\ f[k] # g[k] /\ s[k] = t[k]
  OBVIOUS
<1>3. CASE k = 1
  BY <1>0, <1>2, <1>3
<1>4. CASE k # 1
  <2>1. k - 1 \in 1 .. m /\ ~(k <= k - 1)
    BY <1>2, <1>4
  <2>2. f[k - 1] = g[k - 1]
    BY <1>1, <2>1
  <2>3. f[k] = f[k - 1] \o s[k] /\ g[k] = g[k - 1] \o t[k]
    BY ONLY <1>0, <1>2, <1>4
  <2> QED
    BY ONLY <1>2, <2>2, <2>3
<1> QED
  BY <1>3, <1>4

(* FlattenSeq is the last of the joins, whichever they are.                 *)
LEMMA FlattenIsJoin ==
    ASSUME NEW s, NEW n \in Nat \ {0}, Len(s) = n
    PROVE  \E g : Joins(g, s, n) /\ FlattenSeq(s) = g[n]
<1> DEFINE flatten == CHOOSE g : Joins(g, s, n)
<1>1. FlattenSeq(s) = flatten[n]
  BY DEF FlattenSeq, Joins
<1>2. Joins(flatten, s, n)
  BY JoinsExist
<1> QED
  BY <1>1, <1>2

(* One text more at the end.                                                *)
LEMMA FlattenAppend ==
    ASSUME NEW T, NEW s \in Seq(Seq(T)), NEW x \in Seq(T)
    PROVE  FlattenSeq(Append(s, x)) = FlattenSeq(s) \o x
<1> DEFINE t == Append(s, x)
<1>0. PICK n \in Nat : n = Len(s)
  OBVIOUS
<1>1. /\ Len(t) = n + 1 /\ t[n + 1] = x
      /\ \A i \in 1 .. n : s[i] = t[i]
  BY <1>0
<1> HIDE DEF t
<1>2. PICK g : Joins(g, t, n + 1) /\ FlattenSeq(t) = g[n + 1]
  <2>1. n + 1 \in Nat \ {0}
    OBVIOUS
  <2> QED
    BY <1>1, <2>1, FlattenIsJoin, Zenon
<1>3. g[n + 1] = IF n = 0 THEN x ELSE g[n] \o x
  <2>1. n + 1 \in 1 .. n + 1 /\ n + 1 - 1 = n /\ (n + 1 = 1 <=> n = 0)
    OBVIOUS
  <2>2. \A i \in 1 .. n + 1 : g[i] = IF i = 1 THEN t[i] ELSE g[i - 1] \o t[i]
    BY <1>2 DEF Joins
  <2> QED
    BY <1>1, <2>1, <2>2
<1>4. CASE n = 0
  <2>0. Len(s) = 0
    BY <1>0, <1>4
  <2>1. FlattenSeq(s) = <<>>
    BY <2>0 DEF FlattenSeq
  <2>2. <<>> \o x = x
    OBVIOUS
  <2> QED
    BY <1>2, <1>3, <1>4, <2>1, <2>2 DEF t
<1>5. CASE n # 0
  <2>1. PICK f : Joins(f, s, n) /\ FlattenSeq(s) = f[n]
    <3>1. n \in Nat \ {0} /\ Len(s) = n
      BY <1>0, <1>5
    <3> QED
      BY <3>1, FlattenIsJoin, Zenon
  <2>2. \A i \in 1 .. n : f[i] = g[i]
    <3>1. PICK k \in Nat : k = n + 1
      OBVIOUS
    <3>2. n <= k /\ Joins(g, t, k)
      BY <1>2, <3>1
    <3>3. \A i \in 1 .. n : s[i] = t[i]
      BY <1>1
    <3>4. Joins(f, s, n)
      BY <2>1
    <3> QED
      BY ONLY <3>2, <3>3, <3>4, JoinsAgree, SMTT(30)
  <2>3. f[n] = g[n]
    BY <1>5, <2>2
  <2> QED
    BY <1>2, <1>3, <1>5, <2>1, <2>3 DEF t
<1> QED
  BY <1>4, <1>5
(* A sequence, up to each of its places, is one item more than before.      *)
LEMMA PrefixGrows ==
    ASSUME NEW T, NEW s \in Seq(T), NEW m \in 1 .. Len(s)
    PROVE  /\ SubSeq(s, 1, m - 1) \in Seq(T) /\ s[m] \in T
           /\ SubSeq(s, 1, m) = Append(SubSeq(s, 1, m - 1), s[m])
<1>1. SubSeq(s, 1, m - 1) \in Seq(T) /\ s[m] \in T
  OBVIOUS
<1> DEFINE a == SubSeq(s, 1, m)
           b == Append(SubSeq(s, 1, m - 1), s[m])
<1>2. a \in Seq(T) /\ Len(a) = m /\ \A i \in 1 .. m : a[i] = s[i]
  OBVIOUS
<1>3. b \in Seq(T) /\ Len(b) = m /\ \A i \in 1 .. m : b[i] = s[i]
  BY <1>1
<1> HIDE DEF a, b
<1>4. a = b
  BY ONLY <1>2, <1>3, SeqEqual, Zenon
<1> QED
  BY <1>1, <1>4 DEF a, b

(* An item more at the end of the second of two is one more at the end.     *)
LEMMA JoinAppend ==
    ASSUME NEW T, NEW p \in Seq(T), NEW q \in Seq(T), NEW x \in T
    PROVE  p \o Append(q, x) = Append(p \o q, x) /\ p \o q \in Seq(T)
<1>1. <<x>> \in Seq(T) /\ Append(q, x) = q \o <<x>>
  OBVIOUS
<1>2. p \o q \in Seq(T) /\ Append(p \o q, x) = (p \o q) \o <<x>>
  OBVIOUS
<1>3. (p \o q) \o <<x>> = p \o (q \o <<x>>)
  BY <1>1
<1> QED
  BY ONLY <1>1, <1>2, <1>3

(* Two sequences of texts joined.                                           *)
LEMMA FlattenConcat ==
    ASSUME NEW T, NEW a \in Seq(Seq(T)), NEW b \in Seq(Seq(T))
    PROVE  FlattenSeq(a \o b) = FlattenSeq(a) \o FlattenSeq(b)
<1> DEFINE Upto(m) == SubSeq(b, 1, m)
           Good(m) == FlattenSeq(a \o Upto(m)) = FlattenSeq(a) \o FlattenSeq(Upto(m))
           Wrong   == {m \in 0 .. Len(b) : ~Good(m)}
<1>1. Upto(Len(b)) = b /\ Len(b) \in 0 .. Len(b)
  OBVIOUS
<1> SUFFICES ASSUME Wrong # {} PROVE FALSE
  BY <1>1
<1>2. PICK m \in Wrong : \A k \in Wrong : m <= k
  <2>1. Wrong \in SUBSET Nat
    OBVIOUS
  <2> HIDE DEF Wrong
  <2> QED
    BY <2>1, LeastNatural
<1>3. m \in 0 .. Len(b) /\ ~Good(m)
  BY <1>2
<1>4. FlattenSeq(a) \in Seq(T)
  BY FlattenType
<1>5. CASE m = 0
  <2>1. Upto(m) = <<>> /\ a \o <<>> = a
    BY <1>5
  <2>2. FlattenSeq(<<>>) = <<>>
    BY DEF FlattenSeq
  <2>3. FlattenSeq(a) \o <<>> = FlattenSeq(a)
    BY <1>4
  <2> QED
    BY <1>3, <2>1, <2>2, <2>3
<1>6. CASE m # 0
  <2>1. m \in 1 .. Len(b) /\ m - 1 \in 0 .. Len(b) /\ ~(m <= m - 1)
    BY <1>3, <1>6
  <2>2. Good(m - 1)
    BY <1>2, <2>1
  <2> DEFINE u == Upto(m - 1)
             x == b[m]
  <2>3. u \in Seq(Seq(T)) /\ x \in Seq(T) /\ Upto(m) = Append(u, x)
    <3> DEFINE X == Seq(T)
    <3>1. b \in Seq(X)
      OBVIOUS
    <3> HIDE DEF X
    <3>2. SubSeq(b, 1, m - 1) \in Seq(X) /\ b[m] \in X
          /\ SubSeq(b, 1, m) = Append(SubSeq(b, 1, m - 1), b[m])
      BY ONLY <2>1, <3>1, PrefixGrows
    <3> QED
      BY <3>2 DEF X
  <2> HIDE DEF u, x, Upto
  <2>4. a \o Append(u, x) = Append(a \o u, x) /\ a \o u \in Seq(Seq(T))
    <3> DEFINE X == Seq(T)
    <3>1. a \in Seq(X) /\ u \in Seq(X) /\ x \in X
      BY <2>3
    <3> HIDE DEF X
    <3>2. a \o Append(u, x) = Append(a \o u, x) /\ a \o u \in Seq(X)
      BY ONLY <3>1, JoinAppend
    <3> QED
      BY <3>2 DEF X
  <2>5. FlattenSeq(Append(a \o u, x)) = FlattenSeq(a \o u) \o x
    BY <2>3, <2>4, FlattenAppend
  <2>6. FlattenSeq(Append(u, x)) = FlattenSeq(u) \o x /\ FlattenSeq(u) \in Seq(T)
    BY <2>3, FlattenAppend, FlattenType
  <2>7. FlattenSeq(a \o u) = FlattenSeq(a) \o FlattenSeq(u)
    BY <2>2 DEF u
  <2>8. (FlattenSeq(a) \o FlattenSeq(u)) \o x = FlattenSeq(a) \o (FlattenSeq(u) \o x)
    <3>1. ASSUME NEW p \in Seq(T), NEW q \in Seq(T), NEW r \in Seq(T)
          PROVE  (p \o q) \o r = p \o (q \o r)
      <4> DEFINE left == (p \o q) \o r
                 right == p \o (q \o r)
                 Item(i) == IF i <= Len(p) THEN p[i]
                            ELSE IF i <= Len(p) + Len(q) THEN q[i - Len(p)]
                            ELSE r[i - Len(p) - Len(q)]
      <4>0. Len(p) \in Nat /\ Len(q) \in Nat /\ Len(r) \in Nat
        OBVIOUS
      <4> HIDE DEF left, right, Item
      <4>1. /\ left \in Seq(T) /\ Len(left) = Len(p) + Len(q) + Len(r)
            /\ \A i \in 1 .. Len(p) + Len(q) + Len(r) : left[i] = Item(i)
        <5> DEFINE s == p \o q
        <5>1. /\ s \in Seq(T) /\ Len(s) = Len(p) + Len(q)
              /\ \A i \in 1 .. Len(p) + Len(q) :
                    s[i] = IF i <= Len(p) THEN p[i] ELSE q[i - Len(p)]
          BY ONLY p \in Seq(T), q \in Seq(T), r \in Seq(T)
        <5>2. left = s \o r
          BY DEF left
        <5> HIDE DEF s
        <5>3. /\ left \in Seq(T) /\ Len(left) = Len(s) + Len(r)
              /\ \A i \in 1 .. Len(s) + Len(r) :
                    left[i] = IF i <= Len(s) THEN s[i] ELSE r[i - Len(s)]
          <6>1. s \in Seq(T)
            BY ONLY <5>1
          <6>2. /\ s \o r \in Seq(T) /\ Len(s \o r) = Len(s) + Len(r)
                /\ \A i \in 1 .. Len(s) + Len(r) :
                      (s \o r)[i] = IF i <= Len(s) THEN s[i] ELSE r[i - Len(s)]
            BY ONLY <6>1, r \in Seq(T)
          <6> QED
            BY ONLY <5>2, <6>2
        <5>4. Len(left) = Len(p) + Len(q) + Len(r)
          BY ONLY <4>0, <5>1, <5>3
        <5>5. ASSUME NEW i \in 1 .. Len(p) + Len(q) + Len(r)
              PROVE  left[i] = Item(i)
          <6>1. CASE i <= Len(p)
            <7>1. left[i] = s[i]
              BY ONLY <4>0, <5>1, <5>3, <6>1, i \in 1 .. Len(p) + Len(q) + Len(r)
            <7>2. Item(i) = p[i]
              BY ONLY <4>0, <6>1, i \in 1 .. Len(p) + Len(q) + Len(r) DEF Item
            <7> QED
              BY ONLY <4>0, <5>1, <6>1, <7>1, <7>2, i \in 1 .. Len(p) + Len(q) + Len(r)
          <6>2. CASE i > Len(p) /\ i <= Len(p) + Len(q)
            <7>1. left[i] = s[i]
              BY ONLY <4>0, <5>1, <5>3, <6>2, i \in 1 .. Len(p) + Len(q) + Len(r)
            <7>2. Item(i) = q[i - Len(p)]
              BY ONLY <4>0, <6>2, i \in 1 .. Len(p) + Len(q) + Len(r) DEF Item
            <7> QED
              BY ONLY <4>0, <5>1, <6>2, <7>1, <7>2, i \in 1 .. Len(p) + Len(q) + Len(r)
          <6>3. CASE i > Len(p) + Len(q)
            <7>1. left[i] = r[i - Len(s)]
              BY ONLY <4>0, <5>1, <5>3, <6>3, i \in 1 .. Len(p) + Len(q) + Len(r)
            <7>2. Item(i) = r[i - Len(p) - Len(q)]
              BY ONLY <4>0, <6>3, i \in 1 .. Len(p) + Len(q) + Len(r) DEF Item
            <7> QED
              BY ONLY <4>0, <5>1, <6>3, <7>1, <7>2, i \in 1 .. Len(p) + Len(q) + Len(r)
          <6> QED
            BY ONLY <4>0, <6>1, <6>2, <6>3, i \in 1 .. Len(p) + Len(q) + Len(r)
        <5> QED
          BY ONLY <5>3, <5>4, <5>5
      <4>2. /\ right \in Seq(T) /\ Len(right) = Len(p) + Len(q) + Len(r)
            /\ \A i \in 1 .. Len(p) + Len(q) + Len(r) : right[i] = Item(i)
        <5> DEFINE s == q \o r
        <5>1. /\ s \in Seq(T) /\ Len(s) = Len(q) + Len(r)
              /\ \A i \in 1 .. Len(q) + Len(r) :
                    s[i] = IF i <= Len(q) THEN q[i] ELSE r[i - Len(q)]
          BY ONLY p \in Seq(T), q \in Seq(T), r \in Seq(T)
        <5>2. right = p \o s
          BY DEF right
        <5> HIDE DEF s
        <5>3. /\ right \in Seq(T) /\ Len(right) = Len(p) + Len(s)
              /\ \A i \in 1 .. Len(p) + Len(s) :
                    right[i] = IF i <= Len(p) THEN p[i] ELSE s[i - Len(p)]
          <6>1. s \in Seq(T)
            BY ONLY <5>1
          <6>2. /\ p \o s \in Seq(T) /\ Len(p \o s) = Len(p) + Len(s)
                /\ \A i \in 1 .. Len(p) + Len(s) :
                      (p \o s)[i] = IF i <= Len(p) THEN p[i] ELSE s[i - Len(p)]
            BY ONLY <6>1, p \in Seq(T)
          <6> QED
            BY ONLY <5>2, <6>2
        <5>4. Len(right) = Len(p) + Len(q) + Len(r)
          BY ONLY <4>0, <5>1, <5>3
        <5>5. ASSUME NEW i \in 1 .. Len(p) + Len(q) + Len(r)
              PROVE  right[i] = Item(i)
          <6>1. CASE i <= Len(p)
            <7>0. i \in 1 .. Len(p) + Len(s)
              BY ONLY <4>0, <5>1, i \in 1 .. Len(p) + Len(q) + Len(r)
            <7>1. right[i] = p[i]
              BY ONLY <5>3, <6>1, <7>0
            <7>2. Item(i) = p[i]
              BY ONLY <4>0, <6>1, i \in 1 .. Len(p) + Len(q) + Len(r) DEF Item
            <7> QED
              BY ONLY <7>1, <7>2
          <6>2. CASE i > Len(p) /\ i <= Len(p) + Len(q)
            <7>0. i - Len(p) \in 1 .. Len(q) + Len(r) /\ i - Len(p) <= Len(q)
              BY ONLY <4>0, <6>2, i \in 1 .. Len(p) + Len(q) + Len(r)
            <7>1. PICK j \in 1 .. Len(q) + Len(r) : j = i - Len(p) /\ j <= Len(q)
              BY ONLY <7>0, Zenon
            <7>2. right[i] = s[j]
              BY ONLY <4>0, <5>1, <5>3, <6>2, <7>1, i \in 1 .. Len(p) + Len(q) + Len(r)
            <7>3. s[j] = q[j]
              BY ONLY <5>1, <7>1
            <7> QED
              BY ONLY <4>0, <6>2, <7>1, <7>2, <7>3, i \in 1 .. Len(p) + Len(q) + Len(r) DEF Item
          <6>3. CASE i > Len(p) + Len(q)
            <7>0. i - Len(p) \in 1 .. Len(q) + Len(r) /\ ~(i - Len(p) <= Len(q))
              BY ONLY <4>0, <6>3, i \in 1 .. Len(p) + Len(q) + Len(r)
            <7>1. PICK j \in 1 .. Len(q) + Len(r) : j = i - Len(p) /\ ~(j <= Len(q))
              BY ONLY <7>0, Zenon
            <7>2. right[i] = s[j]
              BY ONLY <4>0, <5>1, <5>3, <6>3, <7>1, i \in 1 .. Len(p) + Len(q) + Len(r)
            <7>3. s[j] = r[j - Len(q)]
              BY ONLY <5>1, <7>1
            <7> QED
              BY ONLY <4>0, <6>3, <7>1, <7>2, <7>3, i \in 1 .. Len(p) + Len(q) + Len(r) DEF Item
          <6> QED
            BY ONLY <4>0, <6>1, <6>2, <6>3, i \in 1 .. Len(p) + Len(q) + Len(r)
        <5> QED
          BY ONLY <5>3, <5>4, <5>5
      <4>3. left = right
        BY ONLY <4>1, <4>2, SeqEqual
      <4> QED
        BY <4>3 DEF left, right
    <3> QED
      BY ONLY <1>4, <2>3, <2>6, <3>1
  <2>9. Good(m)
    BY ONLY <2>3, <2>4, <2>5, <2>6, <2>7, <2>8
  <2> QED
    BY ONLY <1>3, <2>9
<1> QED
  BY <1>5, <1>6

(* The calls of fgets for one line: none returns more characters than its   *)
(* buffer has room for, the final 0 aside, and together they return the     *)
(* line.                                                                    *)
LEMMA FgetsKeepsLine ==
    ASSUME NEW T, NEW line \in Seq(T), NEW size \in Nat, size > 1
    PROVE  /\ FlattenSeq(fgets(line, size)) = line
           /\ \A i \in DOMAIN fgets(line, size) : Len(fgets(line, size)[i]) < size
<1> DEFINE L == Len(line)
           n == L \div (size - 1) + 1
           pieces == fgets(line, size)
<1>1. PICK c \in Nat \ {0} : c = size - 1
  OBVIOUS
<1>2. L \in Nat /\ n \in Nat \ {0} /\ L < n * c /\ (n - 1) * c <= L
  BY <1>1
<1> HIDE DEF n
<1> DEFINE End(m) == IF L <= m * c THEN L ELSE m * c
<1>3. ASSUME NEW i \in 1 .. n
      PROVE  /\ (i - 1) * c \in 0 .. L /\ i * c = (i - 1) * c + c
             /\ Min({L, i * c}) = End(i)
  <2>1. /\ (i - 1) * c \in Nat /\ i * c = (i - 1) * c + c /\ i * c \in Nat
        /\ (i - 1) * c <= (n - 1) * c
    <3>1. PICK k \in Nat : n = i + k
      <4>1. n - i \in Nat /\ n = i + (n - i)
        BY <1>2
      <4> QED
        BY <4>1
    <3>2. (n - 1) * c = (i - 1) * c + k * c /\ k * c \in Nat
      BY <1>1, <3>1
    <3> QED
      BY <1>1, <3>2
  <2>2. PICK e \in Nat : e = i * c
    BY <2>1
  <2>3. L + e \in Nat /\ {L, e} \in SUBSET (0 .. L + e) /\ {L, e} # {} /\ 0 \in Nat
    BY <1>2
  <2>4. Min({L, e}) \in {L, e} /\ \A k \in {L, e} : Min({L, e}) <= k
    BY ONLY <2>3, MinBetween
  <2>5. Min({L, e}) = IF L <= e THEN L ELSE e
    BY ONLY <1>2, <2>4, e \in Nat
  <2>6. (i - 1) * c \in 0 .. L
    <3>1. PICK a \in Nat, b \in Nat : a = (i - 1) * c /\ b = (n - 1) * c
      BY <1>2, <2>1
    <3> QED
      BY ONLY <1>2, <2>1, <3>1
  <2> QED
    BY <2>1, <2>2, <2>5, <2>6
<1>4. /\ pieces \in Seq(Seq(T)) /\ Len(pieces) = n
      /\ \A i \in 1 .. n : pieces[i] = SubSeq(line, (i - 1) * c + 1, End(i))
  <2>1. pieces = [i \in 1 .. n |-> SubSeq(line, (i - 1) * c + 1, Min({L, i * c}))]
    BY <1>1 DEF fgets, n
  <2>2. pieces \in Seq(Seq(T))
    BY FgetsType
  <2>3. DOMAIN pieces = 1 .. n
    BY <2>1
  <2>4. Len(pieces) = n
    <3>1. Len(pieces) \in Nat /\ DOMAIN pieces = 1 .. Len(pieces)
      BY <2>2
    <3> HIDE DEF pieces
    <3> QED
      BY ONLY <1>2, <2>3, <3>1
  <2> QED
    BY <1>3, <2>1, <2>2, <2>4
<1> HIDE DEF pieces
<1>5. ASSUME NEW i \in 1 .. n
      PROVE  Len(pieces[i]) < size
  <2>1. PICK a \in 0 .. L : a = (i - 1) * c /\ i * c = a + c
    BY <1>3
  <2>2. a <= End(i) /\ End(i) <= L /\ End(i) <= a + c /\ End(i) \in Nat
    BY <1>1, <1>2, <2>1
  <2> HIDE DEF End
  <2>3. Len(SubSeq(line, a + 1, End(i))) = End(i) - a
    BY ONLY <2>2, a \in 0 .. L, line \in Seq(T)
  <2> QED
    BY <1>1, <1>4, <2>1, <2>2, <2>3
<1> DEFINE Good(m) == FlattenSeq(SubSeq(pieces, 1, m)) = SubSeq(line, 1, End(m))
           Wrong   == {m \in 0 .. n : ~Good(m)}
<1>6. ASSUME NEW m \in 1 .. n, Good(m - 1)
      PROVE  Good(m)
  <2>1. PICK a \in 0 .. L : a = (m - 1) * c /\ m * c = a + c
    BY <1>3
  <2>2. a <= End(m) /\ End(m) \in 0 .. L
    BY <1>1, <1>2, <2>1
  <2>3. End(m - 1) = a
    BY <1>2, <2>1
  <2> HIDE DEF End
  <2> DEFINE u == SubSeq(pieces, 1, m - 1)
             x == pieces[m]
  <2>4. u \in Seq(Seq(T)) /\ x \in Seq(T) /\ SubSeq(pieces, 1, m) = Append(u, x)
    <3> DEFINE X == Seq(T)
    <3>1. pieces \in Seq(X) /\ m \in 1 .. Len(pieces)
      BY <1>4
    <3> HIDE DEF X
    <3>2. SubSeq(pieces, 1, m - 1) \in Seq(X) /\ pieces[m] \in X
          /\ SubSeq(pieces, 1, m) = Append(SubSeq(pieces, 1, m - 1), pieces[m])
      BY ONLY <3>1, PrefixGrows
    <3> QED
      BY <3>2 DEF X
  <2>5. FlattenSeq(u) = SubSeq(line, 1, a)
    BY <1>6, <2>3
  <2>6. x = SubSeq(line, a + 1, End(m))
    BY <1>4, <2>1
  <2> HIDE DEF u, x
  <2>7. FlattenSeq(Append(u, x)) = SubSeq(line, 1, a) \o SubSeq(line, a + 1, End(m))
    BY ONLY <2>4, <2>5, <2>6, FlattenAppend
  <2>8. SubSeq(line, 1, a) \o SubSeq(line, a + 1, End(m)) = SubSeq(line, 1, End(m))
    <3>1. /\ 1 \in 1 .. Len(line) + 1 /\ a \in 1 - 1 .. Len(line)
          /\ End(m) \in a .. Len(line)
      BY ONLY <1>2, <2>2, a \in 0 .. L
    <3> QED
      BY ONLY <3>1, line \in Seq(T), ConcatAdjacentSubSeq
  <2> QED
    BY <2>4, <2>7, <2>8
<1>7. Good(0)
  <2>1. SubSeq(pieces, 1, 0) = <<>> /\ SubSeq(line, 1, 0) = <<>>
    BY <1>4
  <2>2. FlattenSeq(<<>>) = <<>>
    BY DEF FlattenSeq
  <2>3. End(0) = 0
    BY <1>1, <1>2
  <2> QED
    BY <2>1, <2>2, <2>3
<1>8. Good(n)
  <2> HIDE DEF Good
  <2> SUFFICES ASSUME Wrong # {} PROVE FALSE
    BY <1>2
  <2>1. PICK m \in Wrong : \A k \in Wrong : m <= k
    <3>1. Wrong \in SUBSET Nat
      BY <1>2
    <3> HIDE DEF Wrong
    <3> QED
      BY <3>1, LeastNatural
  <2>2. m \in 1 .. n /\ ~Good(m)
    BY <1>2, <1>7, <2>1
  <2>3. Good(m - 1)
    BY <1>2, <2>1, <2>2
  <2> QED
    BY <1>6, <2>2, <2>3
<1>9. FlattenSeq(pieces) = line
  <2>1. SubSeq(pieces, 1, n) = pieces
    BY <1>4
  <2>2. SubSeq(line, 1, End(n)) = line
    BY <1>2
  <2> QED
    BY <1>8, <2>1, <2>2
<1>10. DOMAIN pieces = 1 .. n
  BY <1>4
<1> QED
  BY <1>5, <1>9, <1>10 DEF pieces

(* So do all calls of fgets on a file.                                      *)
LEMMA ReadsKeepFile ==
    ASSUME NEW T, NEW file \in Seq(Seq(T)), NEW size \in Nat, size > 1
    PROVE  /\ FlattenSeq(Reads(file, size)) = FlattenSeq(file)
           /\ \A i \in DOMAIN Reads(file, size) : Len(Reads(file, size)[i]) < size
<1> DEFINE pieces == [i \in DOMAIN file |-> fgets(file[i], size)]
           n == Len(file)
<1>1. n \in Nat /\ DOMAIN file = 1 .. n /\ \A i \in 1 .. n : file[i] \in Seq(T)
  OBVIOUS
<1>2. ASSUME NEW i \in 1 .. n
      PROVE  /\ pieces[i] \in Seq(Seq(T)) /\ FlattenSeq(pieces[i]) = file[i]
             /\ \A k \in DOMAIN pieces[i] : Len(pieces[i][k]) < size
  BY <1>1, FgetsType, FgetsKeepsLine
<1>3. pieces \in Seq(Seq(Seq(T))) /\ Len(pieces) = n
  <2> DEFINE X == Seq(Seq(T))
  <2>1. pieces \in [1 .. n -> X]
    BY <1>1, <1>2
  <2> HIDE DEF X, pieces, n
  <2>2. pieces \in Seq(X) /\ Len(pieces) = n
    BY ONLY <1>1, <2>1, SMTT(30)
  <2> QED
    BY <2>2 DEF X
<1> HIDE DEF pieces, n
<1> DEFINE Read(m) == FlattenSeq(SubSeq(pieces, 1, m))
           Good(m) == /\ FlattenSeq(Read(m)) = FlattenSeq(SubSeq(file, 1, m))
                      /\ \A k \in DOMAIN Read(m) : Len(Read(m)[k]) < size
           Wrong   == {m \in 0 .. n : ~Good(m)}
<1>4. Good(0)
  <2>1. SubSeq(pieces, 1, 0) = <<>> /\ SubSeq(file, 1, 0) = <<>>
    BY <1>3
  <2>2. FlattenSeq(<<>>) = <<>>
    BY DEF FlattenSeq
  <2>3. Read(0) = <<>>
    BY <2>1, <2>2, Zenon
  <2>4. DOMAIN <<>> = {}
    OBVIOUS
  <2> QED
    BY <2>1, <2>2, <2>3, <2>4, Zenon
<1>5. ASSUME NEW m \in 1 .. n, Good(m - 1)
      PROVE  Good(m)
  <2> DEFINE u == SubSeq(pieces, 1, m - 1)
             v == SubSeq(file, 1, m - 1)
             x == pieces[m]
             w == file[m]
  <2>1. /\ u \in Seq(Seq(Seq(T))) /\ x \in Seq(Seq(T))
        /\ SubSeq(pieces, 1, m) = Append(u, x)
    <3> DEFINE X == Seq(Seq(T))
    <3>1. pieces \in Seq(X) /\ m \in 1 .. Len(pieces)
      BY <1>3
    <3> HIDE DEF X
    <3>2. SubSeq(pieces, 1, m - 1) \in Seq(X) /\ pieces[m] \in X
          /\ SubSeq(pieces, 1, m) = Append(SubSeq(pieces, 1, m - 1), pieces[m])
      BY ONLY <3>1, PrefixGrows
    <3> QED
      BY <3>2 DEF X
  <2>2. v \in Seq(Seq(T)) /\ w \in Seq(T) /\ SubSeq(file, 1, m) = Append(v, w)
    <3> DEFINE X == Seq(T)
    <3>1. file \in Seq(X) /\ m \in 1 .. Len(file)
      BY <1>1 DEF n
    <3> HIDE DEF X
    <3>2. SubSeq(file, 1, m - 1) \in Seq(X) /\ file[m] \in X
          /\ SubSeq(file, 1, m) = Append(SubSeq(file, 1, m - 1), file[m])
      BY ONLY <3>1, PrefixGrows
    <3> QED
      BY <3>2 DEF X
  <2>3. FlattenSeq(x) = w /\ \A k \in DOMAIN x : Len(x[k]) < size
    BY <1>2
  <2>4. /\ FlattenSeq(FlattenSeq(u)) = FlattenSeq(v)
        /\ \A k \in DOMAIN FlattenSeq(u) : Len(FlattenSeq(u)[k]) < size
    BY <1>5
  <2>5. Read(m) = FlattenSeq(Append(u, x))
    BY <2>1
  <2>6. FlattenSeq(SubSeq(file, 1, m)) = FlattenSeq(Append(v, w))
    BY <2>2
  <2> HIDE DEF u, v, x, w, Read
  <2>7. FlattenSeq(u) \in Seq(Seq(T))
    BY ONLY <2>1, FlattenType
  <2>8. Read(m) = FlattenSeq(u) \o x
    BY ONLY <2>1, <2>5, FlattenAppend
  <2>9. FlattenSeq(Append(v, w)) = FlattenSeq(v) \o w
    BY ONLY <2>2, FlattenAppend
  <2>10. FlattenSeq(FlattenSeq(u) \o x) = FlattenSeq(FlattenSeq(u)) \o FlattenSeq(x)
    BY ONLY <2>1, <2>7, FlattenConcat
  <2>11. FlattenSeq(Read(m)) = FlattenSeq(SubSeq(file, 1, m))
    BY ONLY <2>3, <2>4, <2>6, <2>8, <2>9, <2>10
  <2>12. ASSUME NEW k \in DOMAIN Read(m)
         PROVE  Len(Read(m)[k]) < size
    <3>1. PICK f : f = FlattenSeq(u)
      OBVIOUS
    <3> DEFINE X == Seq(T)
    <3>2. f \in Seq(X) /\ x \in Seq(X)
      BY <2>1, <2>7, <3>1
    <3> HIDE DEF X
    <3>3. /\ k \in 1 .. Len(f) + Len(x)
          /\ Read(m)[k] = IF k <= Len(f) THEN f[k] ELSE x[k - Len(f)]
      BY <2>8, <2>12, <3>1, <3>2
    <3>4. CASE k <= Len(f)
      BY <2>4, <3>1, <3>2, <3>3, <3>4
    <3>5. CASE ~(k <= Len(f))
      <4>1. k - Len(f) \in DOMAIN x
        BY <3>2, <3>3, <3>5
      <4> QED
        BY <2>3, <3>3, <3>5, <4>1
    <3> QED
      BY <3>4, <3>5
  <2> QED
    BY <2>11, <2>12
<1>6. Good(n)
  <2> HIDE DEF Good
  <2> SUFFICES ASSUME Wrong # {} PROVE FALSE
    BY <1>1
  <2>1. PICK m \in Wrong : \A k \in Wrong : m <= k
    <3>1. Wrong \in SUBSET Nat
      BY <1>1
    <3> HIDE DEF Wrong
    <3> QED
      BY <3>1, LeastNatural
  <2>2. m \in 1 .. n /\ ~Good(m)
    BY <1>1, <1>4, <2>1
  <2>3. Good(m - 1)
    BY <1>1, <2>1, <2>2
  <2> QED
    BY <1>5, <2>2, <2>3
<1>7. SubSeq(pieces, 1, n) = pieces /\ SubSeq(file, 1, n) = file
  BY <1>1, <1>3 DEF n
<1>8. Reads(file, size) = FlattenSeq(pieces)
  BY DEF Reads, pieces
<1> QED
  BY <1>6, <1>7, <1>8
-----------------------------------------------------------------------------
(* A device stays a device, and the list a list of devices.                 *)
LEMMA DeviceTypes ==
    ASSUME NEW name, NEW value, NEW d \in Device
    PROVE  SetField(d, name, value) \in Device
<1>1. \A field \in Nat : sscanf(value, HexOf, field) \in Nat
                      /\ sscanf(value, DecOf, field) \in Nat
  BY ConfigAssumption DEF sscanf
<1>2. atoi(value) \in Nat
  BY <1>1 DEF atoi
<1>3. \A zero, one, field : field \in {0, 1} => OneOf(value, zero, one, field) \in {0, 1}
  BY DEF OneOf
<1>4. /\ d.key \in Nat /\ d.gpio_pin \in Nat
      /\ d.gpio_mode \in {0, 1} /\ d.gpio_status \in {0, 1}
  BY DEF Device
<1> DEFINE x == SetField(d, name, value)
<1>5. CASE name = <<"key">>
  <2>1. x = [d EXCEPT !.key = sscanf(value, HexOf, @)]
    BY <1>5 DEF SetField
  <2> QED
    BY <1>1, <1>4, <2>1 DEF Device
<1>6. CASE name = <<"gpio_pin">>
  <2>1. x = [d EXCEPT !.gpio_pin = sscanf(value, DecOf, @)]
    BY <1>6 DEF SetField
  <2> QED
    BY <1>1, <1>4, <2>1 DEF Device
<1>7. CASE name = <<"gpio_mode">>
  <2>1. x = [d EXCEPT !.gpio_mode = OneOf(value, "INPUT", "OUTPUT", @)]
    BY <1>7 DEF SetField
  <2> QED
    BY <1>3, <1>4, <2>1, SMTT(30) DEF Device
<1>8. CASE name = <<"gpio_status">>
  <2>1. x = [d EXCEPT !.gpio_status = OneOf(value, "LOW", "HIGH", @)]
    BY <1>8 DEF SetField
  <2> QED
    BY <1>3, <1>4, <2>1 DEF Device
<1>9. CASE name = <<"check_face_status">>
  <2>1. x = [d EXCEPT !.check_face_status = atoi(value)]
    BY <1>9 DEF SetField
  <2> QED
    BY <1>2, <2>1 DEF Device
<1>10. CASE name = <<"voice_set_status">>
  <2>1. x = [d EXCEPT !.voice_set_status = atoi(value)]
    BY <1>10 DEF SetField
  <2> QED
    BY <1>2, <2>1 DEF Device
<1>11. CASE /\ name # <<"key">> /\ name # <<"gpio_pin">>
            /\ name # <<"gpio_mode">> /\ name # <<"gpio_status">>
            /\ name # <<"check_face_status">> /\ name # <<"voice_set_status">>
  BY <1>11 DEF SetField
<1> QED
  BY <1>5, <1>6, <1>7, <1>8, <1>9, <1>10, <1>11

(* So does a list, and it is never empty when the handler writes to its head.*)
LEMMA ListTypes ==
    ASSUME NEW devs \in Seq(Device), NEW sec \in Seq(Char), NEW name, NEW value
    PROVE  /\ WithNode(devs, sec) \in Seq(Device)
           /\ WithNode(devs, sec) # <<>>
           /\ [WithNode(devs, sec) EXCEPT ![1] = SetField(@, name, value)] \in Seq(Device)
<1> DEFINE w == WithNode(devs, sec)
<1>1. NewDevice(sec) \in Device
  BY DEF NewDevice, Device
<1>2. w \in Seq(Device) /\ w # <<>>
  <2> DEFINE x == NewDevice(sec)
  <2>1. <<NewDevice(sec)>> \in Seq(Device) /\ <<NewDevice(sec)>> # <<>>
    BY <1>1
  <2>2. <<NewDevice(sec)>> \o devs \in Seq(Device) /\ <<NewDevice(sec)>> \o devs # <<>>
    <3> HIDE DEF x
    <3>1. /\ Len(<<x>> \o devs) = 1 + Len(devs) /\ Len(devs) \in Nat
          /\ <<x>> \o devs \in Seq(Device)
      BY <1>1 DEF x
    <3>2. Len(<<>>) = 0
      OBVIOUS
    <3> QED
      BY <3>1, <3>2 DEF x
  <2> QED
    BY <2>2 DEF WithNode
<1> HIDE DEF w
<1>3. w[1] \in Device /\ 1 \in 1 .. Len(w)
  BY <1>2
<1>4. SetField(w[1], name, value) \in Device
  BY <1>3, DeviceTypes
<1>5. [w EXCEPT ![1] = SetField(@, name, value)] \in Seq(Device)
  BY <1>2, <1>3, <1>4
<1> QED
  BY <1>2, <1>5 DEF w

(* A name that is copied into a buffer fits into it, with its final 0.      *)
LEMMA CopyFits ==
    ASSUME NEW T, NEW s \in Seq(T), NEW size \in Nat \ {0}
    PROVE  Len(strncpy0(s, size)) < size
BY DEF strncpy0

(* The parts of a line that the parser takes are texts, and the name of a   *)
(* section fits its buffer.                                                 *)
LEMMA LineTypes ==
    ASSUME TypeOK, NEW k \in 1 .. Len(reads)
    PROVE  /\ Start(k) \in Seq(Char)
           /\ IsSectionLine(k) => /\ SectionOf(k) \in Seq(Char)
                                  /\ Len(SectionOf(k)) < MAX_SECTION
           /\ IsPairLine(k) => NameOf(k) \in Seq(Char) /\ ValueOf(k) \in Seq(Char)
<1>1. reads[k] \in Seq(Char)
  BY DEF TypeOK
<1>2. WithoutBOM(k) \in Seq(Char)
  BY <1>1 DEF WithoutBOM
<1>3. Start(k) \in Seq(Char)
  <2>1. rstrip(WithoutBOM(k)) \in Seq(Char)
    BY <1>2, TextTypes
  <2> QED
    BY <2>1, TextTypes DEF Start
<1>4. ASSUME IsSectionLine(k)
      PROVE  SectionOf(k) \in Seq(Char) /\ Len(SectionOf(k)) < MAX_SECTION
  <2> DEFINE t == Tail(Start(k))
  <2>1. Start(k) # <<>>
    BY <1>4 DEF IsSectionLine, IsHeader, IsComment
  <2>2. t \in Seq(Char)
    BY <1>3, <2>1
  <2> HIDE DEF t
  <2>3. HeaderEnd(k) = find_chars_or_comment(t, {"]"})
    BY DEF HeaderEnd, t
  <2>4. HeaderEnd(k) \in 1 .. Len(t) + 1
    BY <2>2, <2>3, TextTypes
  <2>5. Before(t, HeaderEnd(k)) \in Seq(Char)
    BY <2>2, <2>4, TextTypes
  <2>6. MAX_SECTION \in Nat \ {0}
    BY ConfigAssumption
  <2>7. /\ strncpy0(Before(t, HeaderEnd(k)), MAX_SECTION) \in Seq(Char)
        /\ Len(strncpy0(Before(t, HeaderEnd(k)), MAX_SECTION)) < MAX_SECTION
    BY <2>5, <2>6, TextTypes, CopyFits
  <2> QED
    BY <2>7 DEF SectionOf, t
<1>5. NameEnd(k) \in 1 .. Len(Start(k)) + 1
  BY <1>3, TextTypes DEF NameEnd
<1>6. NameOf(k) \in Seq(Char)
  <2>1. Before(Start(k), NameEnd(k)) \in Seq(Char)
    BY <1>3, <1>5, TextTypes
  <2> QED
    BY <2>1, TextTypes DEF NameOf
<1>7. ValueOf(k) \in Seq(Char)
  <2> DEFINE rest == After(Start(k), NameEnd(k))
             v == Before(rest, find_chars_or_comment(rest, {}))
  <2>1. rest \in Seq(Char)
    BY <1>3, <1>5, TextTypes
  <2>2. v \in Seq(Char)
    <3> HIDE DEF rest
    <3>1. find_chars_or_comment(rest, {}) \in 1 .. Len(rest) + 1
      BY <2>1, TextTypes
    <3> QED
      BY <2>1, <3>1, TextTypes
  <2> HIDE DEF v
  <2>3. lskip(v) \in Seq(Char)
    BY <2>2, TextTypes
  <2>4. rstrip(lskip(v)) \in Seq(Char)
    BY <2>3, TextTypes
  <2> QED
    BY <2>4 DEF ValueOf, v
<1> QED
  BY <1>3, <1>4, <1>6, <1>7

(* Whatever the file holds, the parser keeps to its types: the list has     *)
(* devices only, and the line number it returns is that of a line it read.  *)
THEOREM TypeCorrect == Spec => []TypeOK
<1>1. Init => TypeOK
  <2> SUFFICES ASSUME Init PROVE TypeOK
    OBVIOUS
  <2>1. PICK file \in Files : reads = Reads(file, MaxLine)
    BY DEF Init
  <2>2. file \in Seq(Seq(Char)) /\ MaxLine \in Nat /\ MaxLine > 1
    BY ConfigAssumption
  <2>3. reads \in Seq(Seq(Char))
    BY <2>1, <2>2, ReadsType
  <2> QED
    BY <2>3 DEF Init, TypeOK
<1>2. TypeOK /\ [Next]_vars => TypeOK'
  <2> SUFFICES ASSUME TypeOK, [Next]_vars PROVE TypeOK'
    OBVIOUS
  <2> USE DEF TypeOK
  <2>1. CASE Open \/ OpenFails \/ EndOfFile \/ UNCHANGED vars
    BY <2>1 DEF Open, OpenFails, EndOfFile, vars
  <2>2. ASSUME ReadPiece
        PROVE  /\ lineno' \in 1 .. Len(reads) /\ lineno' = lineno + 1 /\ lineno \in Nat
               /\ reads' = reads /\ status' = status
    BY <2>2 DEF ReadPiece
  <2>3. ASSUME ReadPiece, NEW name, NEW value, gdevice_ini_handler(section, name, value)
        PROVE  pdevhead' \in Seq(Device)
    <3>1. pdevhead' = [WithNode(pdevhead, section) EXCEPT ![1] = SetField(@, name, value)]
      BY <2>3 DEF gdevice_ini_handler
    <3> QED
      BY <3>1, ListTypes
  <2>4. CASE Comment
    <3>1. ReadPiece /\ UNCHANGED <<section, prev_name, error, pdevhead>>
      BY <2>4 DEF Comment
    <3> QED
      BY <2>2, <3>1
  <2>5. CASE Continuation
    <3>1. ReadPiece /\ UNCHANGED <<section, prev_name, error>>
      BY <2>5 DEF Continuation
    <3>2. pdevhead' \in Seq(Device)
      BY <2>3, <2>5, <3>1 DEF Continuation
    <3> QED
      BY <2>2, <3>1, <3>2
  <2>6. CASE Section
    <3>1. /\ ReadPiece /\ IsSectionLine(lineno') /\ section' = SectionOf(lineno')
          /\ prev_name' = <<>> /\ UNCHANGED <<error, pdevhead>>
      BY <2>6 DEF Section
    <3>2. section' \in Seq(Char)
      <4>1. ASSUME NEW k \in 1 .. Len(reads), IsSectionLine(k)
            PROVE  SectionOf(k) \in Seq(Char)
        BY <4>1, LineTypes
      <4> QED
        BY <2>2, <3>1, <4>1
    <3> QED
      BY <2>2, <3>1, <3>2
  <2>7. CASE Pair
    <3>1. /\ ReadPiece /\ IsPairLine(lineno')
          /\ prev_name' = strncpy0(NameOf(lineno'), MAX_NAME)
          /\ UNCHANGED <<section, error>>
      BY <2>7 DEF Pair
    <3>2. pdevhead' \in Seq(Device)
      BY <2>3, <2>7, <3>1 DEF Pair
    <3>3. prev_name' \in Seq(Char)
      <4>1. MAX_NAME \in Nat \ {0}
        BY ConfigAssumption
      <4>2. ASSUME NEW k \in 1 .. Len(reads), IsPairLine(k)
            PROVE  strncpy0(NameOf(k), MAX_NAME) \in Seq(Char)
        <5>1. NameOf(k) \in Seq(Char)
          BY <4>2, LineTypes
        <5> QED
          BY <4>1, <5>1, TextTypes
      <4> QED
        BY <2>2, <3>1, <4>2
    <3> QED
      BY <2>2, <3>1, <3>2, <3>3
  <2>8. CASE BadLine
    <3>1. /\ ReadPiece /\ error' = IF error = 0 THEN lineno' ELSE error
          /\ UNCHANGED <<section, prev_name, pdevhead>>
      BY <2>8 DEF BadLine
    <3> QED
      BY <2>2, <3>1
  <2> QED
    BY <2>1, <2>4, <2>5, <2>6, <2>7, <2>8 DEF Next
<1> QED
  BY <1>1, <1>2, PTL DEF Spec

(* The parser sees every character of the file and writes past none of its  *)
(* three buffers, whatever their sizes: a line that is longer comes in      *)
(* pieces that fit and join to the line, and names are cut.                 *)
THEOREM BuffersSuffice == Spec => []TextIsRead
<1> DEFINE Fits == Len(section) < MAX_SECTION /\ Len(prev_name) < MAX_NAME
<1>1. Init => TextIsRead
  <2> SUFFICES ASSUME Init PROVE TextIsRead
    OBVIOUS
  <2>1. PICK file \in Files : reads = Reads(file, MaxLine)
    BY DEF Init
  <2>2. file \in Seq(Seq(Char)) /\ MaxLine \in Nat /\ MaxLine > 1
    BY ConfigAssumption
  <2>3. /\ FlattenSeq(reads) = FlattenSeq(file)
        /\ \A k \in DOMAIN reads : Len(reads[k]) < MaxLine
    BY <2>1, <2>2, ReadsKeepFile
  <2>4. Fits
    BY ConfigAssumption DEF Init
  <2> QED
    BY <2>3, <2>4 DEF TextIsRead
<1>2. TypeOK /\ TextIsRead /\ [Next]_vars => TextIsRead'
  <2> SUFFICES ASSUME TypeOK, TextIsRead, [Next]_vars PROVE TextIsRead'
    OBVIOUS
  <2>1. Fits
    BY DEF TextIsRead
  <2>2. reads' = reads
    BY DEF Next, vars, Open, OpenFails, EndOfFile, Comment, Continuation,
          Section, Pair, BadLine, ReadPiece
  <2>3. CASE Section
    <3>1. /\ lineno' \in 1 .. Len(reads) /\ IsSectionLine(lineno')
          /\ section' = SectionOf(lineno') /\ prev_name' = <<>>
      BY <2>2, <2>3 DEF Section, ReadPiece, TypeOK
    <3>2. ASSUME NEW k \in 1 .. Len(reads), IsSectionLine(k)
          PROVE  Len(SectionOf(k)) < MAX_SECTION
      BY <3>2, LineTypes
    <3>3. Len(section') < MAX_SECTION
      BY <3>1, <3>2
    <3>4. Len(prev_name') < MAX_NAME
      BY <3>1, ConfigAssumption
    <3> QED
      BY <2>2, <3>3, <3>4 DEF TextIsRead
  <2>4. CASE Pair
    <3>1. /\ lineno' \in 1 .. Len(reads) /\ IsPairLine(lineno')
          /\ prev_name' = strncpy0(NameOf(lineno'), MAX_NAME)
          /\ section' = section
      BY <2>2, <2>4 DEF Pair, ReadPiece, TypeOK
    <3>2. ASSUME NEW k \in 1 .. Len(reads), IsPairLine(k)
          PROVE  Len(strncpy0(NameOf(k), MAX_NAME)) < MAX_NAME
      <4>1. NameOf(k) \in Seq(Char) /\ MAX_NAME \in Nat \ {0}
        BY <3>2, LineTypes, ConfigAssumption
      <4> QED
        BY <4>1, CopyFits
    <3>3. Len(prev_name') < MAX_NAME
      BY <3>1, <3>2
    <3> QED
      BY <2>1, <2>2, <3>1, <3>3 DEF TextIsRead
  <2>5. CASE UNCHANGED <<section, prev_name>>
    BY <2>2, <2>5 DEF TextIsRead
  <2> QED
    BY <2>3, <2>4, <2>5 DEF Next, vars, Open, OpenFails, EndOfFile, Comment,
       Continuation, BadLine
<1> QED
  BY <1>1, <1>2, TypeCorrect, PTL DEF Spec

-----------------------------------------------------------------------------
(* The parser remembers a name exactly when one is in force.                *)
NameInForce == prev_name # <<>> <=> Named(lineno + 1)

ErrorSoFar ==
    \/ error = 0 /\ \A k \in 1 .. lineno : ~Bad(k)
    \/ /\ error \in 1 .. lineno /\ Bad(error)
       /\ \A k \in 1 .. lineno : Bad(k) => error <= k

ParserInv ==
    /\ lineno \in Nat
    /\ NameInForce
    /\ ErrorSoFar

-----------------------------------------------------------------------------
(* A name that is cut to the buffer is empty only if it was so before.      *)
LEMMA CutName ==
    ASSUME NEW s, NEW size \in Nat, size > 1
    PROVE  strncpy0(s, size) = <<>> => s = <<>>
<1> SUFFICES ASSUME strncpy0(s, size) = <<>>, s # <<>>
             PROVE  FALSE
  OBVIOUS
<1>1. strncpy0(s, size) = SubSeq(s, 1, size - 1)
  BY DEF strncpy0
<1>2. Len(SubSeq(s, 1, size - 1)) = size - 1
  OBVIOUS
<1>3. Len(<<>>) = 0
  OBVIOUS
<1> QED
  BY <1>1, <1>2, <1>3

(* The file does not change while it is read, nor what its lines mean.      *)
LEMMA LinesStay ==
    ASSUME reads' = reads, NEW k
    PROVE  Bad(k)' = Bad(k) /\ Named(k)' = Named(k)
<1>1. \A j : Start(j)' = Start(j) /\ Indented(j)' = Indented(j)
  BY DEF Start, WithoutBOM, Indented
<1>2. \A j : /\ IsComment(j)' = IsComment(j) /\ MayContinue(j)' = MayContinue(j)
             /\ IsHeader(j)' = IsHeader(j) /\ NameOf(j)' = NameOf(j)
             /\ NameEnd(j)' = NameEnd(j) /\ HeaderEnd(j)' = HeaderEnd(j)
  BY <1>1 DEF IsComment, MayContinue, IsHeader, NameOf, NameEnd, HeaderEnd
<1>3. \A j : IsSectionLine(j)' = IsSectionLine(j) /\ IsPairLine(j)' = IsPairLine(j)
  BY <1>1, <1>2 DEF IsSectionLine, IsPairLine
<1>4. \A j : EndsName(j)' = EndsName(j)
  BY <1>1, <1>2, <1>3 DEF EndsName
<1>5. Named(k)' = Named(k)
  BY <1>2, <1>3, <1>4 DEF Named
<1> QED
  BY <1>2, <1>3, <1>5 DEF Bad, Continues, NewSection, NewPair

(* Whether a name is in force after line k depends on line k and on         *)
(* whether one was in force before.                                         *)
LEMMA NamedNext ==
    ASSUME NEW k \in Nat \ {0}
    PROVE  Named(k + 1) <=> \/ IsPairLine(k) /\ NameOf(k) # <<>>
                            \/ Named(k) /\ ~EndsName(k)
<1>1. ASSUME Named(k + 1)
      PROVE  \/ IsPairLine(k) /\ NameOf(k) # <<>>
             \/ Named(k) /\ ~EndsName(k)
  <2>1. PICK j \in 1 .. k : /\ IsPairLine(j) /\ NameOf(j) # <<>>
                            /\ \A i \in j + 1 .. k : ~EndsName(i)
    BY <1>1 DEF Named
  <2>2. CASE j = k
    BY <2>1, <2>2
  <2>3. CASE j # k
    <3>1. /\ j \in 1 .. k - 1 /\ k \in j + 1 .. k
          /\ \A i \in j + 1 .. k - 1 : i \in j + 1 .. k
      BY <2>3
    <3> QED
      BY <2>1, <3>1 DEF Named
  <2> QED
    BY <2>2, <2>3
<1>2. ASSUME IsPairLine(k), NameOf(k) # <<>>
      PROVE  Named(k + 1)
  <2>1. k \in 1 .. (k + 1) - 1 /\ \A i \in k + 1 .. (k + 1) - 1 : FALSE
    OBVIOUS
  <2> QED
    BY <1>2, <2>1 DEF Named
<1>3. ASSUME Named(k), ~EndsName(k)
      PROVE  Named(k + 1)
  <2>1. PICK j \in 1 .. k - 1 : /\ IsPairLine(j) /\ NameOf(j) # <<>>
                                /\ \A i \in j + 1 .. k - 1 : ~EndsName(i)
    BY <1>3 DEF Named
  <2>2. /\ j \in 1 .. (k + 1) - 1
        /\ \A i \in j + 1 .. (k + 1) - 1 : i \in j + 1 .. k - 1 \/ i = k
    OBVIOUS
  <2> QED
    BY <1>3, <2>1, <2>2 DEF Named
<1> QED
  BY <1>1, <1>2, <1>3

(* One line: what the branch that is taken does to the name and the number. *)
LEMMA LineStep ==
    ASSUME ParserInv, ReadPiece, Comment \/ Continuation \/ Section \/ Pair \/ BadLine
    PROVE  ParserInv'
<1> DEFINE k == lineno + 1
<1>1. lineno' = k /\ k \in Nat \ {0} /\ reads' = reads /\ lineno \in Nat
  BY DEF ReadPiece, ParserInv
<1>2. prev_name # <<>> <=> Named(k)
  BY DEF ParserInv, NameInForce
<1>3. Named(k + 1) <=> \/ IsPairLine(k) /\ NameOf(k) # <<>>
                       \/ Named(k) /\ ~EndsName(k)
  BY <1>1, NamedNext
<1>4. /\ (prev_name' # <<>>) <=> Named(k + 1)
      /\ IF Bad(k) THEN error' = IF error = 0 THEN k ELSE error
                   ELSE error' = error
  <2>0. IsPairLine(k) => ~IsComment(k) /\ ~IsSectionLine(k)
    BY DEF IsPairLine, IsSectionLine
  <2>a. IsSectionLine(k) => ~IsComment(k)
    BY DEF IsSectionLine, IsHeader
  <2>b. MayContinue(k) => Indented(k) /\ ~IsComment(k)
    BY DEF MayContinue
  <2>c. ~IsComment(k) /\ Indented(k) => MayContinue(k)
    BY DEF MayContinue
  <2>1. CASE Comment
    <3>1. IsComment(k) /\ prev_name' = prev_name /\ error' = error
      BY <1>1, <2>1 DEF Comment
    <3> QED
      BY <1>2, <1>3, <2>0, <2>a, <3>1 DEF Bad, EndsName
  <2>2. CASE Continuation
    <3>1. /\ MayContinue(k) /\ prev_name # <<>>
          /\ prev_name' = prev_name /\ error' = error
      BY <1>1, <2>2 DEF Continuation
    <3> QED
      BY <1>2, <1>3, <2>b, <3>1 DEF Bad, Continues, EndsName
  <2>3. CASE Section
    <3>1. /\ ~(MayContinue(k) /\ prev_name # <<>>) /\ IsSectionLine(k)
          /\ prev_name' = <<>> /\ error' = error
      BY <1>1, <2>3 DEF Section, NotContinued
    <3> QED
      BY <1>2, <1>3, <2>0, <2>a, <2>c, <3>1
         DEF Bad, NewSection, Continues, EndsName
  <2>4. CASE Pair
    <3>1. /\ ~(MayContinue(k) /\ prev_name # <<>>) /\ IsPairLine(k)
          /\ prev_name' = strncpy0(NameOf(k), MAX_NAME) /\ error' = error
      BY <1>1, <2>4 DEF Pair, NotContinued
    <3>2. prev_name' = <<>> <=> NameOf(k) = <<>>
      <4>1. strncpy0(<<>>, MAX_NAME) = <<>>
        BY ConfigAssumption DEF strncpy0
      <4>2. MAX_NAME \in Nat /\ MAX_NAME > 1
        BY ConfigAssumption
      <4> QED
        BY <3>1, <4>1, <4>2, CutName
    <3> QED
      BY <1>2, <1>3, <2>0, <2>c, <3>1, <3>2
         DEF Bad, NewPair, Continues, EndsName
  <2>5. CASE BadLine
    <3>1. /\ ~(MayContinue(k) /\ prev_name # <<>>) /\ ~IsComment(k)
          /\ ~IsSectionLine(k) /\ ~IsPairLine(k)
          /\ prev_name' = prev_name /\ error' = IF error = 0 THEN k ELSE error
      BY <1>1, <2>5 DEF BadLine, NotContinued
    <3>2. Bad(k)
      BY <1>2, <3>1 DEF Bad, NewPair, NewSection, Continues
    <3>3. prev_name' # <<>> <=> Named(k + 1)
      BY <1>2, <1>3, <3>1 DEF EndsName
    <3> QED
      BY <3>1, <3>2, <3>3
  <2> QED
    BY <2>1, <2>2, <2>3, <2>4, <2>5
<1>5. NameInForce'
  <2>1. \A m : Named(m)' = Named(m)
    BY <1>1, LinesStay
  <2> QED
    BY <1>1, <1>4, <2>1 DEF NameInForce
<1>6. ErrorSoFar'
  BY <1>1, <1>4, LinesStay DEF ParserInv, ErrorSoFar
<1> QED
  BY <1>1, <1>5, <1>6 DEF ParserInv

-----------------------------------------------------------------------------
(* A file that is open, at its end or closed leaves the parser's state.     *)
LEMMA OtherStep ==
    ASSUME ParserInv, UNCHANGED <<reads, lineno, prev_name, error>>
    PROVE  ParserInv'
BY LinesStay DEF ParserInv, NameInForce, ErrorSoFar

(* The parser's name and number are right after every line.                 *)
LEMMA ParserInvariant == Spec => []ParserInv
<1>1. Init => ParserInv
  BY DEF Init, ParserInv, NameInForce, ErrorSoFar, Named
<1>2. ParserInv /\ [Next]_vars => ParserInv'
  <2> SUFFICES ASSUME ParserInv, [Next]_vars PROVE ParserInv'
    OBVIOUS
  <2>1. CASE Comment \/ Continuation \/ Section \/ Pair \/ BadLine
    BY <2>1, LineStep DEF Comment, Continuation, Section, Pair, BadLine
  <2>2. CASE Open \/ OpenFails \/ EndOfFile \/ UNCHANGED vars
    BY <2>2, OtherStep DEF Open, OpenFails, EndOfFile, vars
  <2> QED
    BY <2>1, <2>2 DEF Next
<1> QED
  BY <1>1, <1>2, PTL DEF Spec

(* ini_parse returns the number of the first line that means nothing, and 0 *)
(* only if every line means something, whatever the file.                   *)
THEOREM FirstBadLine == Spec => []ErrorIsFirstBadLine
<1>1. ParserInv => ErrorIsFirstBadLine
  <2> SUFFICES ASSUME ParserInv PROVE ErrorIsFirstBadLine
    OBVIOUS
  <2> DEFINE bad == {k \in 1 .. lineno : Bad(k)}
  <2>1. CASE error = 0 /\ \A k \in 1 .. lineno : ~Bad(k)
    BY <2>1 DEF ErrorIsFirstBadLine
  <2>2. CASE /\ error \in 1 .. lineno /\ Bad(error)
             /\ \A k \in 1 .. lineno : Bad(k) => error <= k
    <3>1. error \in bad /\ \A j \in bad : error <= j
      BY <2>2
    <3>2. \A k \in bad : (\A j \in bad : k <= j) => k = error
      BY <3>1
    <3>3. (CHOOSE k \in bad : \A j \in bad : k <= j) = error
      BY <3>1, <3>2
    <3> QED
      BY <3>1, <3>3 DEF ErrorIsFirstBadLine
  <2> QED
    BY <2>1, <2>2 DEF ParserInv, ErrorSoFar
<1> QED
  BY <1>1, ParserInvariant, PTL

-----------------------------------------------------------------------------
(* The place of f among the members of F, the greatest first.              *)
Rank(F, f) == Cardinality({g \in F : g >= f})

(* The last of some lines is one of them, and what it is when one more      *)
(* comes after them.                                                        *)
LEMMA LastIs ==
    ASSUME NEW n \in Nat, NEW S \in SUBSET (1 .. n), S # {}
    PROVE  LastOf(S) \in S /\ \A j \in S : j <= LastOf(S)
<1>1. \E k \in S : \A j \in S : j <= k
  <2>1. Max(S) \in S /\ \A k \in S : k <= Max(S)
    BY MaxBetween
  <2> QED
    BY <2>1
<1> QED
  BY <1>1 DEF LastOf

(* A line after all others is the last of them.                             *)
LEMMA LastNew ==
    ASSUME NEW k \in Nat \ {0}, NEW S \in SUBSET (1 .. k - 1)
    PROVE  LastOf(S \cup {k}) = k
<1>1. S \cup {k} \in SUBSET (1 .. k) /\ S \cup {k} # {}
  OBVIOUS
<1> DEFINE x == LastOf(S \cup {k})
<1>2. x \in S \cup {k} /\ \A j \in S \cup {k} : j <= x
  BY <1>1, LastIs
<1> HIDE DEF x
<1>3. k <= x /\ x \in 1 .. k
  BY <1>1, <1>2
<1>4. x = k
  BY <1>3
<1> QED
  BY <1>4 DEF x

(* One more line after those of a set makes at most one more device.        *)
LEMMA FirstsNew ==
    ASSUME NEW k \in Nat \ {0}, NEW S \in SUBSET (1 .. k - 1)
    PROVE  FirstsOf(S \cup {k}) =
             IF S # {} => SectionAt(LastOf(S)) # SectionAt(k)
             THEN FirstsOf(S) \cup {k} ELSE FirstsOf(S)
<1> DEFINE T == S \cup {k}
           IsFirst(X, m) == LET before == {j \in X : j < m}
                            IN  before # {} => SectionAt(LastOf(before)) # SectionAt(m)
<1>1. \A X : FirstsOf(X) = {m \in X : IsFirst(X, m)}
  BY DEF FirstsOf
<1>2. ASSUME NEW m \in S
      PROVE  IsFirst(T, m) <=> IsFirst(S, m)
  <2>1. {j \in T : j < m} = {j \in S : j < m}
    OBVIOUS
  <2> QED
    BY <2>1
<1>3. IsFirst(T, k) <=> (S # {} => SectionAt(LastOf(S)) # SectionAt(k))
  <2>1. {j \in T : j < k} = S
    <3>1. (\A j \in S : j < k) /\ ~(k < k)
      OBVIOUS
    <3> QED
      BY ONLY <3>1
  <2> QED
    BY <2>1
<1>4. k \notin S
  OBVIOUS
<1> HIDE DEF IsFirst
<1>5. FirstsOf(T) = {m \in T : IsFirst(T, m)} /\ FirstsOf(S) = {m \in S : IsFirst(S, m)}
  BY <1>1
<1> QED
  BY <1>2, <1>3, <1>4, <1>5

(* The lines about a device, when a line k comes after all others: they are *)
(* what they were, unless the device is the last one and k makes no new one.*)
LEMMA AboutNew ==
    ASSUME NEW k \in Nat \ {0}, NEW S \in SUBSET (1 .. k - 1), NEW F \in SUBSET S
    PROVE  /\ \A f \in F : About(f, F \cup {k}, S \cup {k}) = About(f, F, S)
           /\ About(k, F \cup {k}, S \cup {k}) = {k}
           /\ \A f \in F : About(f, F, S \cup {k}) =
                 IF \E g \in F : f < g THEN About(f, F, S) ELSE About(f, F, S) \cup {k}
<1>1. ASSUME NEW f \in F
      PROVE  About(f, F \cup {k}, S \cup {k}) = About(f, F, S)
  <2>1. ASSUME NEW m \in S
        PROVE  (\E g \in F \cup {k} : f < g /\ g <= m) <=> (\E g \in F : f < g /\ g <= m)
    <3>1. ~(k <= m)
      OBVIOUS
    <3> QED
      BY <3>1
  <2>2. \E g \in F \cup {k} : f < g /\ g <= k
    <3>1. f < k /\ k <= k
      OBVIOUS
    <3> QED
      BY <3>1
  <2>3. /\ About(f, F \cup {k}, S \cup {k}) =
              {m \in S \cup {k} : m >= f /\ ~\E g \in F \cup {k} : f < g /\ g <= m}
        /\ About(f, F, S) = {m \in S : m >= f /\ ~\E g \in F : f < g /\ g <= m}
    BY DEF About
  <2> DEFINE Late(m)  == \E g \in F \cup {k} : f < g /\ g <= m
             Early(m) == \E g \in F : f < g /\ g <= m
  <2>4. (\A m \in S : Late(m) <=> Early(m)) /\ Late(k)
    BY <2>1, <2>2
  <2>5. {m \in S \cup {k} : m >= f /\ ~Late(m)} = {m \in S : m >= f /\ ~Early(m)}
    <3> HIDE DEF Late, Early
    <3> QED
      BY ONLY <2>4
  <2> QED
    BY <2>3, <2>5
<1>2. About(k, F \cup {k}, S \cup {k}) = {k}
  <2>1. \A m \in S : ~(m >= k)
    OBVIOUS
  <2>2. k >= k /\ ~\E g \in F \cup {k} : k < g /\ g <= k
    OBVIOUS
  <2>3. About(k, F \cup {k}, S \cup {k}) =
            {m \in S \cup {k} : m >= k /\ ~\E g \in F \cup {k} : k < g /\ g <= m}
    BY DEF About
  <2> QED
    BY ONLY <2>1, <2>2, <2>3
<1>3. ASSUME NEW f \in F
      PROVE  About(f, F, S \cup {k}) =
                 IF \E g \in F : f < g THEN About(f, F, S) ELSE About(f, F, S) \cup {k}
  <2>1. \A g \in F : g <= k
    OBVIOUS
  <2>2. k >= f /\ ((\E g \in F : f < g /\ g <= k) <=> (\E g \in F : f < g))
    BY <2>1
  <2> QED
    BY <2>2 DEF About
<1> QED
  BY <1>1, <1>2, <1>3

(* Ranks: the last of the firsts has rank 1, the one before it rank 2.      *)
LEMMA RankFacts ==
    ASSUME NEW n \in Nat, NEW F \in SUBSET (1 .. n)
    PROVE  /\ IsFiniteSet(F) /\ Cardinality(F) \in Nat
           /\ \A f \in F : Rank(F, f) \in 1 .. Cardinality(F)
           /\ \A f, g \in F : f < g => Rank(F, g) < Rank(F, f)
           /\ \A f \in F : (\A g \in F : g <= f) <=> Rank(F, f) = 1
<1> DEFINE Up(f) == {g \in F : g >= f}
<1>1. IsFiniteSet(F) /\ Cardinality(F) \in Nat
  <2>1. IsFiniteSet(1 .. n)
    BY FS_Interval
  <2>2. IsFiniteSet(F)
    BY <2>1, FS_Subset
  <2> QED
    BY <2>2, FS_CardinalityType
<1>2. \A f : /\ IsFiniteSet(Up(f)) /\ Cardinality(Up(f)) \in Nat
             /\ Cardinality(Up(f)) <= Cardinality(F)
  <2> TAKE f
  <2>1. Up(f) \in SUBSET F
    OBVIOUS
  <2> HIDE DEF Up
  <2>2. IsFiniteSet(Up(f)) /\ Cardinality(Up(f)) <= Cardinality(F)
    BY <1>1, <2>1, FS_Subset
  <2> QED
    BY <2>2, FS_CardinalityType
<1>3. ASSUME NEW f \in F
      PROVE  Cardinality(Up(f)) # 0
  <2>1. f \in Up(f)
    OBVIOUS
  <2> HIDE DEF Up
  <2> QED
    BY <1>2, <2>1, FS_EmptySet
<1>4. \A f \in F : Rank(F, f) \in 1 .. Cardinality(F)
  <2> TAKE f \in F
  <2>1. Rank(F, f) = Cardinality(Up(f))
    BY DEF Rank
  <2> HIDE DEF Up
  <2> QED
    BY <1>1, <1>2, <1>3, <2>1
<1>5. ASSUME NEW f \in F, NEW g \in F, f < g
      PROVE  Rank(F, g) < Rank(F, f)
  <2>1. Up(g) \in SUBSET Up(f) /\ f \in Up(f) /\ f \notin Up(g)
    <3>1. f \in Nat /\ g \in Nat /\ f >= f /\ ~(f >= g)
      BY <1>5
    <3>2. \A h \in F : h >= g => h >= f
      BY <1>5, <3>1
    <3> QED
      BY <3>1, <3>2
  <2>2. Rank(F, f) = Cardinality(Up(f)) /\ Rank(F, g) = Cardinality(Up(g))
    BY DEF Rank
  <2> HIDE DEF Up
  <2>3. Cardinality(Up(g)) <= Cardinality(Up(f)) /\ Cardinality(Up(g)) # Cardinality(Up(f))
    BY <1>2, <2>1, FS_Subset
  <2>4. Cardinality(Up(g)) \in Nat /\ Cardinality(Up(f)) \in Nat
    BY <1>2
  <2> QED
    BY <2>2, <2>3, <2>4
<1>6. ASSUME NEW f \in F
      PROVE  (\A g \in F : g <= f) <=> Rank(F, f) = 1
  <2>1. ASSUME \A g \in F : g <= f
        PROVE  Rank(F, f) = 1
    <3>1. \A g \in F : g >= f <=> g = f
      BY <2>1
    <3>2. {g \in F : g >= f} = {f}
      BY <3>1
    <3> QED
      BY <3>2, FS_Singleton DEF Rank
  <2>2. ASSUME NEW g \in F, ~(g <= f), Rank(F, f) = 1
        PROVE  FALSE
    <3>1. f < g
      BY <2>2
    <3>2. Rank(F, g) < Rank(F, f)
      BY <1>5, <3>1
    <3>3. Rank(F, g) \in 1 .. Cardinality(F)
      BY <1>4
    <3> QED
      BY <1>1, <2>2, <3>2, <3>3
  <2> QED
    BY <2>1, <2>2
<1> QED
  BY <1>1, <1>4, <1>5, <1>6

(* A line that comes after all others takes the first place.                *)
LEMMA RankNew ==
    ASSUME NEW k \in Nat \ {0}, NEW F \in SUBSET (1 .. k - 1)
    PROVE  /\ Cardinality(F \cup {k}) = Cardinality(F) + 1
           /\ Rank(F \cup {k}, k) = 1
           /\ \A f \in F : Rank(F \cup {k}, f) = Rank(F, f) + 1
<1>1. IsFiniteSet(F) /\ k \notin F
  <2>1. k - 1 \in Nat /\ k \notin 1 .. k - 1
    OBVIOUS
  <2>2. IsFiniteSet(F)
    BY <2>1, RankFacts
  <2> QED
    BY <2>1, <2>2
<1>2. Cardinality(F \cup {k}) = Cardinality(F) + 1
  BY <1>1, FS_AddElement
<1>3. {g \in F \cup {k} : g >= k} = {k}
  <2>1. \A g \in F : g \in Nat /\ ~(g >= k)
    OBVIOUS
  <2>2. k >= k
    OBVIOUS
  <2> QED
    BY ONLY <2>1, <2>2
<1>4. Rank(F \cup {k}, k) = 1
  BY <1>3, FS_Singleton DEF Rank
<1>5. ASSUME NEW f \in F
      PROVE  Rank(F \cup {k}, f) = Rank(F, f) + 1
  <2> DEFINE U == {g \in F : g >= f}
  <2>1. {g \in F \cup {k} : g >= f} = U \cup {k}
    OBVIOUS
  <2>2. U \in SUBSET F /\ k \notin U
    BY <1>1
  <2>3. Rank(F, f) = Cardinality(U) /\ Rank(F \cup {k}, f) = Cardinality(U \cup {k})
    BY <2>1 DEF Rank
  <2> HIDE DEF U
  <2>4. IsFiniteSet(U)
    BY <1>1, <2>2, FS_Subset
  <2> QED
    BY <2>2, <2>3, <2>4, FS_AddElement
<1> QED
  BY <1>2, <1>4, <1>5

-----------------------------------------------------------------------------
(* The fields of a device when line k comes after the lines L about it.     *)
LEMMA SaidNew ==
    ASSUME NEW k \in Nat \ {0}, NEW L \in SUBSET (1 .. k - 1), NEW name
    PROVE  /\ Said(L, name) \in SUBSET (1 .. k - 1)
           /\ Said(L \cup {k}, name) =
                 IF NameSaid(k) = name THEN Said(L, name) \cup {k} ELSE Said(L, name)
BY DEF Said

(* A number, a word or a flag is what the last line that says it says.      *)
LEMMA NumberNew ==
    ASSUME NEW k \in Nat \ {0}, NEW L \in SUBSET (1 .. k - 1), NEW name, NEW table
    PROVE  Number(L \cup {k}, name, table) =
               IF NameSaid(k) = name
               THEN sscanf(ValueSaid(k), table, Number(L, name, table))
               ELSE Number(L, name, table)
<1> DEFINE Readable(m) == ValueSaid(m) # <<>> /\ ValueSaid(m)[1] \in DOMAIN table
           Old == {m \in Said(L, name) : Readable(m)}
           New == {m \in Said(L \cup {k}, name) : Readable(m)}
           Value(S) == IF S = {} THEN 0 ELSE table[ValueSaid(LastOf(S))[1]]
<1>1. /\ Number(L, name, table) = Value(Old)
      /\ Number(L \cup {k}, name, table) = Value(New)
  BY DEF Number
<1>2. sscanf(ValueSaid(k), table, Value(Old)) =
         IF Readable(k) THEN table[ValueSaid(k)[1]] ELSE Value(Old)
  BY DEF sscanf
<1>3. Old \in SUBSET (1 .. k - 1)
  BY SaidNew
<1>4. New = IF NameSaid(k) = name /\ Readable(k) THEN Old \cup {k} ELSE Old
  <2> DEFINE P == Said(L, name)
             Q == Said(L \cup {k}, name)
             c == NameSaid(k) = name
  <2>1. Q = IF c THEN P \cup {k} ELSE P
    BY SaidNew, ZenonT(30)
  <2> HIDE DEF Readable, P, Q, c
  <2>2. {m \in Q : Readable(m)} =
            IF c /\ Readable(k) THEN {m \in P : Readable(m)} \cup {k}
            ELSE {m \in P : Readable(m)}
    <3>1. CASE c /\ Readable(k)
      BY ONLY <2>1, <3>1
    <3>2. CASE c /\ ~Readable(k)
      BY ONLY <2>1, <3>2
    <3>3. CASE ~c
      BY ONLY <2>1, <3>3
    <3> QED
      BY ONLY <3>1, <3>2, <3>3
  <2> QED
    BY <2>2 DEF P, Q, c
<1>5. LastOf(Old \cup {k}) = k
  <2> HIDE DEF Old
  <2> QED
    BY <1>3, LastNew
<1>6. Value(Old \cup {k}) = table[ValueSaid(k)[1]]
  BY <1>5
<1> HIDE DEF Old, New, Value, Readable
<1> QED
  BY <1>1, <1>2, <1>4, <1>6

(* The same for a field that is one of two words.                           *)
LEMMA WordNew ==
    ASSUME NEW k \in Nat \ {0}, NEW L \in SUBSET (1 .. k - 1),
           NEW name, NEW zero, NEW one, zero # one
    PROVE  Word(L \cup {k}, name, zero, one) =
               IF NameSaid(k) = name
               THEN OneOf(ValueSaid(k), zero, one, Word(L, name, zero, one))
               ELSE Word(L, name, zero, one)
<1> DEFINE Known(m) == ValueSaid(m) \in {<<zero>>, <<one>>}
           Old == {m \in Said(L, name) : Known(m)}
           New == {m \in Said(L \cup {k}, name) : Known(m)}
           Value(S) == IF S # {} /\ ValueSaid(LastOf(S)) = <<one>> THEN 1 ELSE 0
<1>1. /\ Word(L, name, zero, one) = Value(Old)
      /\ Word(L \cup {k}, name, zero, one) = Value(New)
  BY DEF Word
<1>2. OneOf(ValueSaid(k), zero, one, Value(Old)) =
         IF Known(k) THEN (IF ValueSaid(k) = <<one>> THEN 1 ELSE 0) ELSE Value(Old)
  BY DEF OneOf
<1>3. Old \in SUBSET (1 .. k - 1)
  BY SaidNew
<1>4. New = IF NameSaid(k) = name /\ Known(k) THEN Old \cup {k} ELSE Old
  <2> DEFINE P == Said(L, name)
             Q == Said(L \cup {k}, name)
             c == NameSaid(k) = name
  <2>1. Q = IF c THEN P \cup {k} ELSE P
    BY SaidNew, ZenonT(30)
  <2> HIDE DEF Known, P, Q, c
  <2>2. {m \in Q : Known(m)} =
            IF c /\ Known(k) THEN {m \in P : Known(m)} \cup {k} ELSE {m \in P : Known(m)}
    <3>1. CASE c /\ Known(k)
      BY ONLY <2>1, <3>1
    <3>2. CASE c /\ ~Known(k)
      BY ONLY <2>1, <3>2
    <3>3. CASE ~c
      BY ONLY <2>1, <3>3
    <3> QED
      BY ONLY <3>1, <3>2, <3>3
  <2> QED
    BY <2>2 DEF P, Q, c
<1>5. LastOf(Old \cup {k}) = k
  <2> HIDE DEF Old
  <2> QED
    BY <1>3, LastNew
<1>6. Value(Old \cup {k}) = IF ValueSaid(k) = <<one>> THEN 1 ELSE 0
  BY <1>5
<1> HIDE DEF Old, New, Value, Known
<1> QED
  BY <1>1, <1>2, <1>4, <1>6

(* The same for a field that atoi reads.                                    *)
LEMMA FlagNew ==
    ASSUME NEW k \in Nat \ {0}, NEW L \in SUBSET (1 .. k - 1), NEW name
    PROVE  Flag(L \cup {k}, name) =
               IF NameSaid(k) = name THEN atoi(ValueSaid(k)) ELSE Flag(L, name)
<1>1. LastOf(Said(L, name) \cup {k}) = k
  BY SaidNew, LastNew
<1>2. \A S : S \cup {k} # {}
  OBVIOUS
<1>3. CASE NameSaid(k) = name
  <2>1. Said(L \cup {k}, name) = Said(L, name) \cup {k}
    BY <1>3, SaidNew
  <2> QED
    BY <1>1, <1>2, <1>3, <2>1 DEF Flag
<1>4. CASE NameSaid(k) # name
  <2>1. Said(L \cup {k}, name) = Said(L, name)
    BY <1>4, SaidNew, ZenonT(30)
  <2> QED
    BY <1>4, <2>1 DEF Flag
<1> QED
  BY <1>3, <1>4

(* A line that says something sets the field that it names, as the handler  *)
(* does.                                                                    *)
LEMMA DeviceNew ==
    ASSUME NEW k \in Nat \ {0}, NEW L \in SUBSET (1 .. k - 1), NEW f
    PROVE  DeviceFrom(f, L \cup {k}) =
               SetField(DeviceFrom(f, L), NameSaid(k), ValueSaid(k))
<1> DEFINE n == NameSaid(k)
           v == ValueSaid(k)
           d == DeviceFrom(f, L)
           e == DeviceFrom(f, L \cup {k})
<1>1. /\ e.dev_name = d.dev_name
      /\ e.key = IF n = <<"key">> THEN sscanf(v, HexOf, d.key) ELSE d.key
      /\ e.gpio_pin = IF n = <<"gpio_pin">> THEN sscanf(v, DecOf, d.gpio_pin)
                                            ELSE d.gpio_pin
      /\ e.gpio_mode = IF n = <<"gpio_mode">>
                       THEN OneOf(v, "INPUT", "OUTPUT", d.gpio_mode) ELSE d.gpio_mode
      /\ e.gpio_status = IF n = <<"gpio_status">>
                         THEN OneOf(v, "LOW", "HIGH", d.gpio_status) ELSE d.gpio_status
      /\ e.check_face_status = IF n = <<"check_face_status">> THEN atoi(v)
                               ELSE d.check_face_status
      /\ e.voice_set_status = IF n = <<"voice_set_status">> THEN atoi(v)
                              ELSE d.voice_set_status
  <2>1. "INPUT" # "OUTPUT" /\ "LOW" # "HIGH"
    OBVIOUS
  <2> QED
    BY <2>1, NumberNew, WordNew, FlagNew DEF DeviceFrom
<1>2. /\ d = [dev_name |-> d.dev_name, key |-> d.key, gpio_pin |-> d.gpio_pin,
              gpio_mode |-> d.gpio_mode, gpio_status |-> d.gpio_status,
              check_face_status |-> d.check_face_status,
              voice_set_status |-> d.voice_set_status]
      /\ e = [dev_name |-> e.dev_name, key |-> e.key, gpio_pin |-> e.gpio_pin,
              gpio_mode |-> e.gpio_mode, gpio_status |-> e.gpio_status,
              check_face_status |-> e.check_face_status,
              voice_set_status |-> e.voice_set_status]
  BY DEF DeviceFrom
<1> HIDE DEF n, v, d, e
<1>3. /\ \A a, b \in {"key", "gpio_pin", "gpio_mode", "gpio_status",
                      "check_face_status", "voice_set_status"} : <<a>> = <<b>> => a = b
  OBVIOUS
<1>4. e = SetField(d, n, v)
  <2>1. CASE n = <<"key">>
    BY <1>1, <1>2, <1>3, <2>1 DEF SetField
  <2>2. CASE n = <<"gpio_pin">>
    BY <1>1, <1>2, <1>3, <2>2 DEF SetField
  <2>3. CASE n = <<"gpio_mode">>
    BY <1>1, <1>2, <1>3, <2>3 DEF SetField
  <2>4. CASE n = <<"gpio_status">>
    BY <1>1, <1>2, <1>3, <2>4 DEF SetField
  <2>5. CASE n = <<"check_face_status">>
    BY <1>1, <1>2, <1>3, <2>5 DEF SetField
  <2>6. CASE n = <<"voice_set_status">>
    BY <1>1, <1>2, <1>3, <2>6 DEF SetField
  <2>7. CASE /\ n # <<"key">> /\ n # <<"gpio_pin">>
             /\ n # <<"gpio_mode">> /\ n # <<"gpio_status">>
             /\ n # <<"check_face_status">> /\ n # <<"voice_set_status">>
    BY <1>1, <1>2, <2>7 DEF SetField
  <2> QED
    BY <2>1, <2>2, <2>3, <2>4, <2>5, <2>6, <2>7
<1> QED
  BY <1>4 DEF n, v, d, e

(* A device about which nothing was said is a new node.                     *)
LEMMA DeviceNone ==
    ASSUME NEW f
    PROVE  DeviceFrom(f, {}) = NewDevice(SectionAt(f))
<1>1. \A name : Said({}, name) = {}
  BY DEF Said
<1>2. /\ \A name, table : Number({}, name, table) = 0
      /\ \A name, zero, one : Word({}, name, zero, one) = 0
      /\ \A name : Flag({}, name) = 0
  BY <1>1 DEF Number, Word, Flag
<1> QED
  BY <1>2 DEF DeviceFrom, NewDevice

-----------------------------------------------------------------------------
(* The list says what the lines S mean: one device per first line, the last *)
(* in front, and the section of the last statement is that of the device in *)
(* front.                                                                   *)
Builds(devs, S) ==
    LET F == FirstsOf(S)
    IN  /\ S # {} => F # {} /\ SectionAt(LastOf(F)) = SectionAt(LastOf(S))
        /\ Len(devs) = Cardinality(F)
        /\ \A i \in 1 .. Len(devs) : \E f \in F : Rank(F, f) = i
        /\ \A f \in F : devs[Rank(F, f)] = DeviceFrom(f, About(f, F, S))

(* The device in front is that of the last first line.                      *)
LEMMA FrontOf ==
    ASSUME NEW k \in Nat \ {0}, NEW S \in SUBSET (1 .. k - 1), S # {},
           NEW devs, Builds(devs, S)
    PROVE  /\ FirstsOf(S) \in SUBSET S
           /\ LastOf(FirstsOf(S)) \in FirstsOf(S)
           /\ \A g \in FirstsOf(S) : g <= LastOf(FirstsOf(S))
           /\ Rank(FirstsOf(S), LastOf(FirstsOf(S))) = 1
           /\ 1 \in 1 .. Len(devs) /\ Len(devs) \in Nat
           /\ devs[1].dev_name = SectionAt(LastOf(S))
<1> DEFINE F == FirstsOf(S)
           l == LastOf(F)
<1>1. F \in SUBSET S
  BY DEF FirstsOf
<1>2. /\ F # {} /\ SectionAt(l) = SectionAt(LastOf(S))
      /\ Len(devs) = Cardinality(F)
      /\ \A f \in F : devs[Rank(F, f)] = DeviceFrom(f, About(f, F, S))
  BY DEF Builds
<1> HIDE DEF F
<1>3. F \in SUBSET (1 .. k - 1) /\ k - 1 \in Nat
  BY <1>1
<1>4. l \in F /\ \A g \in F : g <= l
  BY <1>2, <1>3, LastIs
<1> HIDE DEF l
<1>5. /\ Rank(F, l) = 1 /\ Rank(F, l) \in 1 .. Cardinality(F)
      /\ Cardinality(F) \in Nat
  BY ONLY <1>3, <1>4, RankFacts
<1>6. devs[1] = DeviceFrom(l, About(l, F, S))
  BY <1>2, <1>4, <1>5
<1>7. devs[1].dev_name = SectionAt(l)
  BY <1>6 DEF DeviceFrom
<1> QED
  BY <1>1, <1>2, <1>4, <1>5, <1>7 DEF F, l

(* gdevice_ini_handler keeps the list what the lines mean.                  *)
LEMMA BuildsNew ==
    ASSUME NEW k \in Nat \ {0}, NEW S \in SUBSET (1 .. k - 1),
           NEW devs \in Seq(Device), SectionAt(k) \in Seq(Char), Builds(devs, S)
    PROVE  Builds([WithNode(devs, SectionAt(k)) EXCEPT
                      ![1] = SetField(@, NameSaid(k), ValueSaid(k))], S \cup {k})
<1> DEFINE F == FirstsOf(S)
           T == S \cup {k}
           G == FirstsOf(T)
           sec == SectionAt(k)
           set(d) == SetField(d, NameSaid(k), ValueSaid(k))
           w == WithNode(devs, sec)
           x == [w EXCEPT ![1] = set(@)]
           opens == S # {} => SectionAt(LastOf(S)) # sec
<1>1. /\ F \in SUBSET S
      /\ G = IF opens THEN F \cup {k} ELSE F
      /\ LastOf(T) = k /\ T # {}
  BY FirstsNew, LastNew DEF FirstsOf
<1>2. /\ S # {} => F # {} /\ SectionAt(LastOf(F)) = SectionAt(LastOf(S))
      /\ Len(devs) = Cardinality(F)
      /\ \A i \in 1 .. Len(devs) : \E f \in F : Rank(F, f) = i
      /\ \A f \in F : devs[Rank(F, f)] = DeviceFrom(f, About(f, F, S))
  BY DEF Builds
<1>3. /\ F \in SUBSET (1 .. k - 1) /\ k - 1 \in Nat
      /\ Cardinality(F) \in Nat
      /\ \A f \in F : Rank(F, f) \in 1 .. Cardinality(F)
  <2> HIDE DEF F
  <2>1. F \in SUBSET (1 .. k - 1) /\ k - 1 \in Nat
    BY ONLY <1>1, S \in SUBSET (1 .. k - 1), k \in Nat \ {0}
  <2> QED
    BY ONLY <2>1, RankFacts
<1>4. w \in Seq(Device) /\ w # <<>>
  BY ListTypes
<1>5. /\ Len(x) = Len(w) /\ 1 \in 1 .. Len(w) /\ x[1] = set(w[1])
      /\ \A i \in 2 .. Len(w) : x[i] = w[i]
  <2> HIDE DEF w, set
  <2>1. Len(w) \in Nat /\ Len(w) # 0 /\ DOMAIN w = 1 .. Len(w)
    BY <1>4
  <2> QED
    BY <1>4, <2>1
<1>6. \A L \in SUBSET (1 .. k - 1) :
         \A f : DeviceFrom(f, L \cup {k}) = set(DeviceFrom(f, L))
  BY DeviceNew
<1>7. SUFFICES /\ G # {} /\ SectionAt(LastOf(G)) = sec
               /\ Len(x) = Cardinality(G)
               /\ \A i \in 1 .. Len(x) : \E f \in G : Rank(G, f) = i
               /\ \A f \in G : x[Rank(G, f)] = DeviceFrom(f, About(f, G, T))
  BY <1>1 DEF Builds
<1>8. CASE opens
  <2>1. G = F \cup {k} /\ k \notin F
    BY <1>1, <1>3, <1>8
  <2>2. w = <<NewDevice(sec)>> \o devs
    <3>1. CASE S = {}
      <4>1. F = {}
        BY <1>1, <3>1
      <4>2. Len(devs) = 0
        BY <1>2, <4>1, FS_EmptySet
      <4>3. devs = <<>>
        BY <4>2
      <4> QED
        BY <4>3 DEF WithNode
    <3>2. CASE S # {}
      <4>1. 1 \in 1 .. Len(devs) /\ devs[1].dev_name = SectionAt(LastOf(S))
        BY <3>2, FrontOf
      <4>2. Head(devs) = devs[1]
        BY <4>1
      <4> QED
        BY <1>8, <3>2, <4>1, <4>2 DEF WithNode
    <3> QED
      BY <3>1, <3>2
  <2>3. /\ Len(w) = Len(devs) + 1 /\ w[1] = NewDevice(sec)
        /\ \A i \in 1 .. Len(devs) : w[i + 1] = devs[i]
    <3> DEFINE y == NewDevice(sec)
    <3>1. y \in Device
      BY DEF NewDevice, Device
    <3> HIDE DEF y
    <3>2. /\ Len(<<y>> \o devs) = Len(devs) + 1 /\ (<<y>> \o devs)[1] = y
          /\ \A i \in 1 .. Len(devs) : (<<y>> \o devs)[i + 1] = devs[i]
      BY ONLY <3>1, devs \in Seq(Device)
    <3> QED
      BY <2>2, <3>2 DEF y
  <2>4. /\ Cardinality(G) = Cardinality(F) + 1 /\ Rank(G, k) = 1
        /\ \A f \in F : Rank(G, f) = Rank(F, f) + 1
    <3> HIDE DEF F, G
    <3> QED
      BY <1>3, <2>1, RankNew
  <2>5. G # {} /\ SectionAt(LastOf(G)) = sec
    <3>1. LastOf(G) = k
      <4> HIDE DEF F, G
      <4> QED
        BY <1>3, <2>1, LastNew
    <3> QED
      BY <2>1, <3>1
  <2>6. Len(x) = Cardinality(G)
    BY <1>2, <1>5, <2>3, <2>4
  <2>7. ASSUME NEW i \in 1 .. Len(x)
        PROVE  \E f \in G : Rank(G, f) = i
    <3>1. CASE i = 1
      BY <2>1, <2>4, <3>1
    <3>2. CASE i # 1
      <4>1. i - 1 \in 1 .. Len(devs)
        BY <1>2, <1>3, <1>5, <2>3, <3>2
      <4>2. PICK f \in F : Rank(F, f) = i - 1
        BY <1>2, <4>1
      <4>3. f \in G /\ Rank(G, f) = i
        <5> HIDE DEF F, G
        <5>1. f \in G /\ Rank(G, f) = (i - 1) + 1
          BY ONLY <2>1, <2>4, <4>2
        <5> QED
          BY ONLY <5>1, <4>1
      <4> QED
        BY <4>3
    <3> QED
      BY <3>1, <3>2
  <2>8. ASSUME NEW f \in G
        PROVE  x[Rank(G, f)] = DeviceFrom(f, About(f, G, T))
    <3>1. CASE f = k
      <4>1. About(k, G, T) = {k}
        <5> HIDE DEF F, G
        <5>1. F \in SUBSET S
          BY <1>1
        <5>2. About(k, F \cup {k}, S \cup {k}) = {k}
          BY ONLY <5>1, k \in Nat \ {0}, S \in SUBSET (1 .. k - 1), AboutNew
        <5> QED
          BY <2>1, <5>2
      <4>2. DeviceFrom(k, {k}) = set(NewDevice(sec))
        <5>1. {} \in SUBSET (1 .. k - 1) /\ {} \cup {k} = {k}
          OBVIOUS
        <5>2. DeviceFrom(k, {} \cup {k}) = set(DeviceFrom(k, {}))
          BY <1>6, <5>1
        <5> QED
          BY <5>1, <5>2, DeviceNone
      <4> QED
        BY <1>5, <2>3, <2>4, <3>1, <4>1, <4>2
    <3>2. CASE f # k
      <4>1. f \in F
        BY <2>1, <3>2
      <4>2. About(f, G, T) = About(f, F, S)
        <5> HIDE DEF F, G
        <5>1. F \in SUBSET S
          BY <1>1
        <5>2. \A g \in F : About(g, F \cup {k}, S \cup {k}) = About(g, F, S)
          BY ONLY <5>1, k \in Nat \ {0}, S \in SUBSET (1 .. k - 1), AboutNew
        <5> QED
          BY <2>1, <4>1, <5>2
      <4>3. Rank(F, f) \in 1 .. Len(devs) /\ Rank(G, f) = Rank(F, f) + 1
        BY <1>2, <1>3, <2>4, <4>1
      <4>4. Rank(G, f) \in 2 .. Len(w)
        BY <1>2, <1>3, <2>3, <4>3, SMTT(30)
      <4>5. x[Rank(G, f)] = devs[Rank(F, f)]
        BY <1>5, <2>3, <4>3, <4>4
      <4> QED
        BY <1>2, <4>1, <4>2, <4>5
    <3> QED
      BY <3>1, <3>2
  <2> QED
    BY <2>5, <2>6, <2>7, <2>8
<1>9. CASE ~opens
  <2>1. G = F /\ S # {} /\ SectionAt(LastOf(S)) = sec
    BY <1>1, <1>9
  <2> DEFINE l == LastOf(F)
  <2>2. /\ l \in F /\ (\A g \in F : g <= l) /\ Rank(F, l) = 1
        /\ 1 \in 1 .. Len(devs) /\ Len(devs) \in Nat
        /\ devs[1].dev_name = sec
    BY <2>1, FrontOf
  <2>3. w = devs
    <3>1. devs # <<>> /\ Head(devs) = devs[1]
      BY <2>2
    <3> QED
      BY <2>2, <3>1 DEF WithNode
  <2>4. F # {} /\ SectionAt(l) = sec
    BY <1>2, <2>1, <2>2
  <2>5. Len(x) = Cardinality(F)
    BY <1>2, <1>5, <2>3
  <2>6. \A i \in 1 .. Len(x) : \E f \in F : Rank(F, f) = i
    BY <1>2, <1>5, <2>3
  <2>7. ASSUME NEW f \in F
        PROVE  x[Rank(F, f)] = DeviceFrom(f, About(f, F, T))
    <3>1. About(f, F, T) = IF \E g \in F : f < g THEN About(f, F, S)
                           ELSE About(f, F, S) \cup {k}
      <4> HIDE DEF F
      <4>1. F \in SUBSET S
        BY <1>1
      <4>2. \A g \in F : About(g, F, S \cup {k}) =
                IF \E h \in F : g < h THEN About(g, F, S) ELSE About(g, F, S) \cup {k}
        BY ONLY <4>1, k \in Nat \ {0}, S \in SUBSET (1 .. k - 1), AboutNew
      <4> QED
        BY <4>2
    <3>2. CASE f = l
      <4>1. ~\E g \in F : f < g
        BY <1>3, <2>2, <3>2
      <4>2. About(f, F, S) \in SUBSET (1 .. k - 1)
        BY DEF About
      <4>3. x[1] = set(DeviceFrom(f, About(f, F, S)))
        BY <1>2, <1>5, <2>2, <2>3, <3>2
      <4>4. DeviceFrom(f, About(f, F, S) \cup {k}) = set(DeviceFrom(f, About(f, F, S)))
        BY <1>6, <4>2
      <4> QED
        BY <2>2, <3>1, <3>2, <4>1, <4>3, <4>4
    <3>3. CASE f # l
      <4>1. f < l
        BY <1>3, <2>2, <3>3
      <4>2. Rank(F, f) # 1
        <5>1. ~(\A g \in F : g <= f)
          BY <1>3, <2>2, <4>1
        <5> HIDE DEF F
        <5> QED
          BY <1>3, <5>1, RankFacts
      <4>3. Rank(F, f) \in 2 .. Len(devs)
        BY <1>2, <1>3, <4>2
      <4>4. x[Rank(F, f)] = devs[Rank(F, f)]
        BY <1>5, <2>3, <4>3
      <4> QED
        BY <1>2, <2>2, <3>1, <4>1, <4>4
    <3> QED
      BY <3>2, <3>3
  <2> QED
    BY <2>1, <2>4, <2>5, <2>6, <2>7
<1> QED
  BY <1>8, <1>9

(* What ListIsReference says is what Builds says of the lines so far.       *)
LEMMA BuildsIsReference ==
    ASSUME TypeOK, Builds(pdevhead, Statements)
    PROVE  ListIsReference
<1> DEFINE S == Statements
           F == FirstsOf(S)
           n == Cardinality(F)
           Nth(i) == CHOOSE f \in F : Cardinality({g \in F : g >= f}) = i
           ref == [i \in 1 .. n |-> DeviceFrom(Nth(i), About(Nth(i), F, S))]
<1>1. F \in SUBSET (1 .. lineno) /\ lineno \in Nat
  BY DEF FirstsOf, Statements, TypeOK
<1>2. /\ Len(pdevhead) = n
      /\ \A i \in 1 .. Len(pdevhead) : \E f \in F : Rank(F, f) = i
      /\ \A f \in F : pdevhead[Rank(F, f)] = DeviceFrom(f, About(f, F, S))
  BY DEF Builds
<1>3. pdevhead = [i \in 1 .. n |-> pdevhead[i]]
  BY <1>2 DEF TypeOK
<1>4. ASSUME NEW i \in 1 .. n
      PROVE  pdevhead[i] = ref[i]
  <2>1. \E f \in F : Cardinality({g \in F : g >= f}) = i
    BY <1>2 DEF Rank
  <2>2. Nth(i) \in F /\ Cardinality({g \in F : g >= Nth(i)}) = i
    <3> HIDE DEF F
    <3> QED
      BY <2>1
  <2> HIDE DEF Nth, F
  <2>3. Rank(F, Nth(i)) = i
    BY <2>2 DEF Rank
  <2> QED
    BY <1>2, <2>2, <2>3
<1>5. pdevhead = ref
  <2>1. ref = [i \in 1 .. n |-> ref[i]]
    OBVIOUS
  <2> HIDE DEF ref, n
  <2> QED
    BY ONLY <1>3, <1>4, <2>1
<1> QED
  BY <1>5 DEF ListIsReference

-----------------------------------------------------------------------------
(* The inductive invariant: the section and the name that the parser        *)
(* carries are those that the lines say, and so is the list.                *)
PairsRead == {j \in 1 .. lineno : NewPair(j)}

SectionNow == section = SectionAt(lineno)

NameNow ==
    prev_name # <<>> =>
        /\ PairsRead # {}
        /\ prev_name = strncpy0(NameOf(LastOf(PairsRead)), MAX_NAME)

ListNow == Builds(pdevhead, Statements)

ReferenceInv == SectionNow /\ NameNow /\ ListNow

(* What the lines mean stays, too.                                          *)
LEMMA MeaningStays ==
    ASSUME reads' = reads
    PROVE  /\ \A k : NewSection(k)' = NewSection(k) /\ NewPair(k)' = NewPair(k)
                     /\ Continues(k)' = Continues(k)
           /\ \A k : SectionAt(k)' = SectionAt(k) /\ SectionOf(k)' = SectionOf(k)
           /\ \A k : NameOf(k)' = NameOf(k)
           /\ \A devs, S : Builds(devs, S)' = Builds(devs, S)
<1>1. \A j : Start(j)' = Start(j) /\ Indented(j)' = Indented(j)
  BY DEF Start, WithoutBOM, Indented
<1>2. \A j : /\ IsComment(j)' = IsComment(j) /\ MayContinue(j)' = MayContinue(j)
             /\ IsHeader(j)' = IsHeader(j) /\ NameOf(j)' = NameOf(j)
             /\ NameEnd(j)' = NameEnd(j) /\ HeaderEnd(j)' = HeaderEnd(j)
  BY <1>1 DEF IsComment, MayContinue, IsHeader, NameOf, NameEnd, HeaderEnd
<1>3. \A j : IsSectionLine(j)' = IsSectionLine(j) /\ IsPairLine(j)' = IsPairLine(j)
  BY <1>1, <1>2 DEF IsSectionLine, IsPairLine
<1>4. \A j : Named(j)' = Named(j)
  BY LinesStay
<1>5. \A k : NewSection(k)' = NewSection(k) /\ NewPair(k)' = NewPair(k)
             /\ Continues(k)' = Continues(k)
  BY <1>2, <1>3, <1>4 DEF NewSection, NewPair, Continues
<1>6. \A k : SectionOf(k)' = SectionOf(k) /\ ValueOf(k)' = ValueOf(k)
  BY <1>1, <1>2 DEF SectionOf, ValueOf
<1>7. \A k : SectionAt(k)' = SectionAt(k)
  BY <1>5, <1>6 DEF SectionAt
<1>8. \A k : NameSaid(k)' = NameSaid(k) /\ ValueSaid(k)' = ValueSaid(k)
  BY <1>1, <1>2, <1>5, <1>6 DEF NameSaid, ValueSaid
<1>9. \A L, name : Said(L, name)' = Said(L, name)
  BY <1>8 DEF Said
<1>10. \A L, name, table : Number(L, name, table)' = Number(L, name, table)
  BY <1>8, <1>9 DEF Number
<1>11. \A L, name, zero, one : Word(L, name, zero, one)' = Word(L, name, zero, one)
  BY <1>8, <1>9 DEF Word
<1>12. \A L, name : Flag(L, name)' = Flag(L, name)
  BY <1>8, <1>9 DEF Flag
<1>13. \A f, L : DeviceFrom(f, L)' = DeviceFrom(f, L)
  BY <1>7, <1>10, <1>11, <1>12 DEF DeviceFrom
<1>14. \A S : FirstsOf(S)' = FirstsOf(S)
  BY <1>7 DEF FirstsOf
<1>15. \A devs, S : Builds(devs, S)' = Builds(devs, S)
  BY <1>7, <1>13, <1>14 DEF Builds
<1> QED
  BY <1>2, <1>5, <1>6, <1>7, <1>15

(* The sets of lines after line k, from those before it.                    *)
LEMMA LinesNew ==
    ASSUME ReadPiece, lineno \in Nat
    PROVE  LET k == lineno + 1
           IN  /\ k \in Nat \ {0} /\ lineno' = k /\ reads' = reads
               /\ Statements \in SUBSET (1 .. k - 1)
               /\ Statements' = IF NewPair(k) \/ Continues(k)
                                THEN Statements \cup {k} ELSE Statements
               /\ PairsRead \in SUBSET (1 .. k - 1)
               /\ PairsRead' = IF NewPair(k) THEN PairsRead \cup {k} ELSE PairsRead
               /\ SectionAt(k) = IF NewSection(k) THEN SectionOf(k) ELSE SectionAt(lineno)
<1> DEFINE k == lineno + 1
<1>1. k \in Nat \ {0} /\ lineno' = k /\ reads' = reads
  BY DEF ReadPiece
<1>2. 1 .. k = (1 .. lineno) \cup {k} /\ k - 1 = lineno
  OBVIOUS
<1>3. Statements' = {j \in 1 .. k : NewPair(j) \/ Continues(j)}
  <2>1. Statements' = {j \in 1 .. lineno' : NewPair(j)' \/ Continues(j)'}
    BY DEF Statements
  <2> QED
    BY <1>1, <2>1, MeaningStays
<1>4. PairsRead' = {j \in 1 .. k : NewPair(j)}
  <2>1. PairsRead' = {j \in 1 .. lineno' : NewPair(j)'}
    BY DEF PairsRead
  <2> QED
    BY <1>1, <2>1, MeaningStays
<1>5. SectionAt(k) = IF NewSection(k) THEN SectionOf(k) ELSE SectionAt(lineno)
  <2> DEFINE Old == {j \in 1 .. lineno : NewSection(j)}
             New == {j \in 1 .. k : NewSection(j)}
  <2>1. New = IF NewSection(k) THEN Old \cup {k} ELSE Old
    <3>1. CASE NewSection(k)
      BY ONLY <1>2, <3>1
    <3>2. CASE ~NewSection(k)
      BY ONLY <1>2, <3>2
    <3> QED
      BY <3>1, <3>2
  <2>2. Old \in SUBSET (1 .. k - 1)
    BY <1>2
  <2>3. /\ SectionAt(k) = IF New = {} THEN <<>> ELSE SectionOf(LastOf(New))
        /\ SectionAt(lineno) = IF Old = {} THEN <<>> ELSE SectionOf(LastOf(Old))
    BY DEF SectionAt
  <2> HIDE DEF Old, New
  <2>4. LastOf(Old \cup {k}) = k
    BY <1>1, <2>2, LastNew
  <2>5. Old \cup {k} # {}
    OBVIOUS
  <2> QED
    BY <2>1, <2>3, <2>4, <2>5
<1>6. /\ Statements \in SUBSET (1 .. k - 1)
      /\ PairsRead \in SUBSET (1 .. k - 1)
  BY <1>2 DEF Statements, PairsRead
<1>7. Statements' = IF NewPair(k) \/ Continues(k) THEN Statements \cup {k} ELSE Statements
  <2>1. CASE NewPair(k) \/ Continues(k)
    BY ONLY <1>2, <1>3, <2>1 DEF Statements
  <2>2. CASE ~(NewPair(k) \/ Continues(k))
    BY ONLY <1>2, <1>3, <2>2 DEF Statements
  <2> QED
    BY <2>1, <2>2
<1>8. PairsRead' = IF NewPair(k) THEN PairsRead \cup {k} ELSE PairsRead
  <2>1. CASE NewPair(k)
    BY ONLY <1>2, <1>4, <2>1 DEF PairsRead
  <2>2. CASE ~NewPair(k)
    BY ONLY <1>2, <1>4, <2>2 DEF PairsRead
  <2> QED
    BY <2>1, <2>2
<1> QED
  BY <1>1, <1>5, <1>6, <1>7, <1>8

(* A line that the parser does not hand to gdevice_ini_handler.             *)
LEMMA SilentLine ==
    ASSUME TypeOK, ReferenceInv, ReadPiece, NEW k, k = lineno + 1,
           ~NewPair(k), ~Continues(k), pdevhead' = pdevhead,
           section' = SectionAt(k), prev_name' \in {<<>>, prev_name}
    PROVE  ReferenceInv'
<1>1. /\ lineno' = k /\ reads' = reads
      /\ Statements' = Statements /\ PairsRead' = PairsRead
  BY LinesNew DEF TypeOK
<1>2. SectionNow'
  BY <1>1, MeaningStays DEF SectionNow
<1>3. NameNow'
  BY <1>1, MeaningStays DEF ReferenceInv, NameNow
<1>4. ListNow'
  BY <1>1, MeaningStays DEF ReferenceInv, ListNow
<1> QED
  BY <1>2, <1>3, <1>4 DEF ReferenceInv

(* A line that it hands to it, with the section, the name and the value     *)
(* that the line says.                                                      *)
LEMMA StatementLine ==
    ASSUME TypeOK, ReferenceInv, ReadPiece, NEW k, k = lineno + 1,
           NewPair(k) \/ Continues(k), ~NewSection(k),
           section' = section,
           gdevice_ini_handler(section, NameSaid(k), ValueSaid(k)),
           NameNow'
    PROVE  ReferenceInv'
<1>1. /\ k \in Nat \ {0} /\ lineno' = k /\ reads' = reads
      /\ Statements \in SUBSET (1 .. k - 1)
      /\ Statements' = Statements \cup {k}
      /\ SectionAt(k) = SectionAt(lineno)
  BY LinesNew DEF TypeOK
<1>2. section = SectionAt(k)
  BY <1>1 DEF ReferenceInv, SectionNow
<1>3. pdevhead' = [WithNode(pdevhead, SectionAt(k)) EXCEPT
                      ![1] = SetField(@, NameSaid(k), ValueSaid(k))]
  BY <1>2 DEF gdevice_ini_handler
<1>4. /\ SectionAt(k) \in Seq(Char) /\ pdevhead \in Seq(Device)
      /\ Builds(pdevhead, Statements)
  BY <1>2 DEF TypeOK, ReferenceInv, ListNow
<1>5. Builds(pdevhead', Statements \cup {k})
  BY <1>1, <1>3, <1>4, BuildsNew
<1>6. ListNow'
  BY <1>1, <1>5, MeaningStays DEF ListNow
<1>7. SectionNow'
  BY <1>1, <1>2, MeaningStays DEF SectionNow
<1> QED
  BY <1>6, <1>7 DEF ReferenceInv

(* Every branch of the parser's loop keeps the invariant.                   *)
LEMMA ReferenceStep ==
    ASSUME TypeOK, ParserInv, ReferenceInv,
           Comment \/ Continuation \/ Section \/ Pair \/ BadLine
    PROVE  ReferenceInv'
<1> DEFINE k == lineno + 1
<1>1. ReadPiece
  BY DEF Comment, Continuation, Section, Pair, BadLine
<1>2. /\ k \in Nat \ {0} /\ lineno' = k /\ reads' = reads
      /\ PairsRead \in SUBSET (1 .. k - 1)
      /\ PairsRead' = IF NewPair(k) THEN PairsRead \cup {k} ELSE PairsRead
      /\ SectionAt(k) = IF NewSection(k) THEN SectionOf(k) ELSE SectionAt(lineno)
  BY <1>1, LinesNew DEF TypeOK
<1>3. prev_name # <<>> <=> Named(k)
  BY DEF ParserInv, NameInForce
<1>4. section = SectionAt(lineno)
  BY DEF ReferenceInv, SectionNow
<1>5. /\ IsPairLine(k) => ~IsComment(k) /\ ~IsSectionLine(k)
      /\ IsSectionLine(k) => ~IsComment(k)
      /\ MayContinue(k) => ~IsComment(k)
  BY DEF IsPairLine, IsSectionLine, IsHeader, MayContinue
<1> HIDE DEF k
<1>6. CASE Comment
  <2>1. /\ IsComment(k) /\ section' = section /\ prev_name' = prev_name
        /\ pdevhead' = pdevhead
    BY <1>2, <1>6 DEF Comment
  <2>2. ~NewPair(k) /\ ~Continues(k) /\ ~NewSection(k)
    BY <1>5, <2>1 DEF NewPair, Continues, NewSection
  <2> QED
    BY <1>1, <1>2, <1>4, <2>1, <2>2, SilentLine DEF k
<1>7. CASE Continuation
  <2>1. /\ MayContinue(k) /\ prev_name # <<>>
        /\ gdevice_ini_handler(section, prev_name, Start(k))
        /\ section' = section /\ prev_name' = prev_name
    BY <1>2, <1>7 DEF Continuation
  <2>2. Continues(k) /\ ~NewPair(k) /\ ~NewSection(k)
    BY <1>3, <2>1 DEF Continues, NewPair, NewSection
  <2>3. NameSaid(k) = prev_name /\ ValueSaid(k) = Start(k)
    <3>1. {j \in 1 .. k : NewPair(j)} = PairsRead
      <4>1. 1 .. k = (1 .. lineno) \cup {k}
        BY DEF k, ParserInv
      <4> QED
        BY ONLY <2>2, <4>1 DEF PairsRead
    <3>2. prev_name = strncpy0(NameOf(LastOf(PairsRead)), MAX_NAME)
      BY <2>1 DEF ReferenceInv, NameNow
    <3> QED
      BY <2>2, <3>1, <3>2 DEF NameSaid, ValueSaid
  <2>4. NameNow'
    BY <1>2, <2>1, <2>2, MeaningStays DEF ReferenceInv, NameNow
  <2> QED
    BY <1>1, <2>1, <2>2, <2>3, <2>4, StatementLine DEF k
<1>8. CASE Section
  <2>1. /\ ~(MayContinue(k) /\ prev_name # <<>>) /\ IsSectionLine(k)
        /\ section' = SectionOf(k) /\ prev_name' = <<>> /\ pdevhead' = pdevhead
    BY <1>2, <1>8 DEF Section, NotContinued
  <2>2. ~NewPair(k) /\ ~Continues(k) /\ NewSection(k)
    BY <1>3, <1>5, <2>1 DEF NewPair, Continues, NewSection
  <2> QED
    BY <1>1, <1>2, <2>1, <2>2, SilentLine DEF k
<1>9. CASE Pair
  <2>1. /\ ~(MayContinue(k) /\ prev_name # <<>>) /\ IsPairLine(k)
        /\ prev_name' = strncpy0(NameOf(k), MAX_NAME)
        /\ gdevice_ini_handler(section, NameOf(k), ValueOf(k))
        /\ section' = section
    BY <1>2, <1>9 DEF Pair, NotContinued
  <2>2. NewPair(k) /\ ~Continues(k) /\ ~NewSection(k)
    BY <1>3, <1>5, <2>1 DEF NewPair, Continues, NewSection
  <2>3. NameSaid(k) = NameOf(k) /\ ValueSaid(k) = ValueOf(k)
    BY <2>2 DEF NameSaid, ValueSaid
  <2>4. NameNow'
    <3>1. PairsRead' = PairsRead \cup {k} /\ LastOf(PairsRead \cup {k}) = k
      BY <1>2, <2>2, LastNew
    <3>2. PairsRead' # {} /\ NameOf(LastOf(PairsRead))' = NameOf(k)
      BY <1>2, <3>1, MeaningStays
    <3> QED
      BY <2>1, <3>2 DEF NameNow
  <2> QED
    BY <1>1, <2>1, <2>2, <2>3, <2>4, StatementLine DEF k
<1>10. CASE BadLine
  <2>1. /\ ~(MayContinue(k) /\ prev_name # <<>>)
        /\ ~IsSectionLine(k) /\ ~IsPairLine(k)
        /\ section' = section /\ prev_name' = prev_name /\ pdevhead' = pdevhead
    BY <1>2, <1>10 DEF BadLine, NotContinued
  <2>2. ~NewPair(k) /\ ~Continues(k) /\ ~NewSection(k)
    BY <1>3, <2>1 DEF NewPair, Continues, NewSection
  <2> QED
    BY <1>1, <1>2, <1>4, <2>1, <2>2, SilentLine DEF k
<1> QED
  BY <1>6, <1>7, <1>8, <1>9, <1>10

(* The list of devices is at every line of every file what the lines before *)
(* mean: a section that comes back, a continued value, a line or a name     *)
(* that is cut, a bad line.                                                 *)
THEOREM ListFollowsFile == Spec => []ListIsReference
<1>1. Init => ReferenceInv
  <2> SUFFICES ASSUME Init PROVE ReferenceInv
    OBVIOUS
  <2>1. lineno = 0 /\ section = <<>> /\ prev_name = <<>> /\ pdevhead = <<>>
    BY DEF Init
  <2>2. Statements = {}
    BY <2>1 DEF Statements
  <2>3. SectionNow
    BY <2>1 DEF SectionNow, SectionAt
  <2>4. NameNow
    BY <2>1 DEF NameNow
  <2>5. Builds(<<>>, {})
    <3>1. FirstsOf({}) = {} /\ Len(<<>>) = 0 /\ Cardinality({}) = 0
      BY FS_EmptySet DEF FirstsOf
    <3>2. 1 .. Len(<<>>) = {}
      BY <3>1
    <3>3. /\ {} # {} => /\ FirstsOf({}) # {}
                        /\ SectionAt(LastOf(FirstsOf({}))) = SectionAt(LastOf({}))
          /\ Len(<<>>) = Cardinality(FirstsOf({}))
          /\ \A i \in 1 .. Len(<<>>) : \E f \in FirstsOf({}) : Rank(FirstsOf({}), f) = i
          /\ \A f \in FirstsOf({}) : <<>>[Rank(FirstsOf({}), f)] =
                                        DeviceFrom(f, About(f, FirstsOf({}), {}))
      BY ONLY <3>1, <3>2
    <3> QED
      BY <3>3 DEF Builds
  <2> QED
    BY <2>1, <2>2, <2>3, <2>4, <2>5 DEF ReferenceInv, ListNow
<1>2. TypeOK /\ ParserInv /\ ReferenceInv /\ [Next]_vars => ReferenceInv'
  <2> SUFFICES ASSUME TypeOK, ParserInv, ReferenceInv, [Next]_vars
               PROVE  ReferenceInv'
    OBVIOUS
  <2>1. CASE Comment \/ Continuation \/ Section \/ Pair \/ BadLine
    BY <2>1, ReferenceStep
  <2>2. CASE Open \/ OpenFails \/ EndOfFile \/ UNCHANGED vars
    <3>1. UNCHANGED <<reads, lineno, section, prev_name, pdevhead>>
      BY <2>2 DEF Open, OpenFails, EndOfFile, vars
    <3>2. Statements' = Statements /\ PairsRead' = PairsRead
      BY <3>1, MeaningStays DEF Statements, PairsRead
    <3> QED
      BY <3>1, <3>2, MeaningStays DEF ReferenceInv, SectionNow, NameNow, ListNow
  <2> QED
    BY <2>1, <2>2 DEF Next
<1>3. TypeOK /\ ReferenceInv => ListIsReference
  BY BuildsIsReference DEF ReferenceInv, ListNow
<1> QED
  BY <1>1, <1>2, <1>3, TypeCorrect, ParserInvariant, PTL DEF Spec
===============================================================================
