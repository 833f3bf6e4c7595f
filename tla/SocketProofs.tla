----------------------------- MODULE SocketProofs -----------------------------
(***************************************************************************)
(* Proofs about the socket server, for any number of connections and every  *)
(* way in which the network cuts what the clients write.                    *)
(***************************************************************************)
EXTENDS SocketInterface, SequenceTheorems, TLAPS

(* What the proof of the order assumes of the clients: no two commands hold *)
(* a third between them.                                                    *)
NoFalseFrame == \A p, q \in Commands : ~(p[2] = 170 /\ q[1] = 170)

(* The bytes s are bytes of the frames of w, beginning after the first off. *)
IsRest(s, w, off) ==
    /\ off + Len(s) <= 6 * Len(w)
    /\ \A i \in 1 .. Len(s) :
          \E g \in 1 .. Len(w), r \in 1 .. 6 :
             /\ 6 * (g - 1) + r = off + i
             /\ s[i] = FrameOf(w[g])[r]

(* The messages m are frames of w in order, all within the first off bytes. *)
AreTaken(m, w, off, f) ==
    /\ IsOrder(f)
    /\ \A i \in 1 .. Len(m) : m[i] = FrameOf(w[f[i]]) /\ 6 * f[i] <= off

(* A frame of w that was read after those.                                  *)
IsNext(b, n, w, off, f) ==
    /\ n = 6
    /\ \E g \in 1 .. Len(w) : /\ SubSeq(b, 1, n) = FrameOf(w[g])
                              /\ 6 * g <= off
                              /\ \A i \in DOMAIN f : f[i] < g

Orders(c) == [1 .. Len(forwarded[c]) -> 1 .. Len(written[c])]

InPlace(c, off, f) ==
    /\ IsRest(stream[c], written[c], off)
    /\ peer[c] \in {"none", "open"} =>
          off + Len(stream[c]) = 6 * Len(written[c])
    /\ AreTaken(forwarded[c], written[c], off, f)
    /\ pc = "send" /\ current = c => IsNext(buffer, n_read, written[c], off, f)

StreamsInPlace ==
    \A c \in Connections : \E off \in Nat : \E f \in Orders(c) : InPlace(c, off, f)

Served == pc \in {"recv", "send"} => current \in Connections

SocketInv == TypeOK /\ Served /\ StreamsInPlace

-----------------------------------------------------------------------------
(* Facts about frames, buffers and streams.                                 *)

LEMMA FrameBytes ==
    ASSUME NEW p \in Commands
    PROVE  /\ FrameOf(p) \in Seq(Byte) /\ Len(FrameOf(p)) = 6
           /\ FrameOf(p)[1] = 170 /\ FrameOf(p)[2] = 85
           /\ FrameOf(p)[3] = p[1] /\ FrameOf(p)[4] = p[2]
           /\ FrameOf(p)[5] = 85 /\ FrameOf(p)[6] = 170
           /\ p[1] \in Byte /\ p[2] \in Byte
BY SocketAssumption DEF FrameOf, Byte

(* Counting through frames of six bytes is unique.                          *)
LEMMA SamePlace ==
    ASSUME NEW a \in Int, NEW g \in Nat, NEW h \in Nat,
           NEW r \in 1 .. 6, NEW t \in 1 .. 6, NEW i \in 0 .. 6,
           6 * (g - 1) + r = a, 6 * (h - 1) + t = a + i
    PROVE  /\ r + i <= 6 => h = g /\ t = r + i
           /\ r + i > 6 => h = g + 1 /\ t = r + i - 6
OBVIOUS

(* Six bytes of a stream that pass the test for a frame are a frame that    *)
(* was written.                                                             *)
LEMMA FrameInStream ==
    ASSUME NoFalseFrame, NEW s \in Seq(Byte), NEW w \in Seq(Commands),
           NEW off \in Nat, IsRest(s, w, off), Len(s) >= 6,
           s[1] = 170, s[2] = 85, s[5] = 85, s[6] = 170
    PROVE  \E g \in 1 .. Len(w) : /\ off = 6 * (g - 1)
                                  /\ \A i \in 1 .. 6 : s[i] = FrameOf(w[g])[i]
<1>0. /\ Len(s) \in Nat /\ Len(w) \in Nat
      /\ \A g \in 1 .. Len(w) : w[g] \in Commands
      /\ \A i \in 1 .. 6 : i \in 1 .. Len(s)
  OBVIOUS
<1>a. \A i \in 1 .. Len(s) :
         \E g \in 1 .. Len(w), r \in 1 .. 6 :
            6 * (g - 1) + r = off + i /\ s[i] = FrameOf(w[g])[r]
  BY DEF IsRest
<1>b. \A i \in 1 .. 6 :
         \E g \in 1 .. Len(w), r \in 1 .. 6 :
            6 * (g - 1) + r = off + i /\ s[i] = FrameOf(w[g])[r]
  BY ONLY <1>0, <1>a, Zenon
<1>c. 1 \in 1 .. 6 /\ 2 \in 1 .. 6 /\ 5 \in 1 .. 6 /\ 6 \in 1 .. 6
  OBVIOUS
<1>1. PICK g \in 1 .. Len(w), r \in 1 .. 6 :
           6 * (g - 1) + r = off + 1 /\ s[1] = FrameOf(w[g])[r]
  BY ONLY <1>b, <1>c, Zenon
(* Where the other bytes are.                                               *)
<1>2. ASSUME NEW i \in 1 .. 6
      PROVE  /\ r + (i - 1) <= 6 => s[i] = FrameOf(w[g])[r + (i - 1)]
             /\ r + (i - 1) > 6 => /\ g + 1 \in 1 .. Len(w)
                                   /\ s[i] = FrameOf(w[g + 1])[r + (i - 1) - 6]
  <2>1. PICK h \in 1 .. Len(w), t \in 1 .. 6 :
             6 * (h - 1) + t = off + i /\ s[i] = FrameOf(w[h])[t]
    BY ONLY <1>b, i \in 1 .. 6, Zenon
  <2>2. /\ off + 1 \in Int /\ g \in Nat /\ h \in Nat /\ i - 1 \in 0 .. 6
        /\ 6 * (g - 1) + r = off + 1
        /\ 6 * (h - 1) + t = (off + 1) + (i - 1)
    BY ONLY <1>0, <1>1, <2>1, off \in Nat, i \in 1 .. 6, g \in 1 .. Len(w),
            h \in 1 .. Len(w), r \in 1 .. 6, t \in 1 .. 6
  <2>3. /\ r + (i - 1) <= 6 => h = g /\ t = r + (i - 1)
        /\ r + (i - 1) > 6 => h = g + 1 /\ t = r + (i - 1) - 6
    BY ONLY <2>2, SamePlace, r \in 1 .. 6, t \in 1 .. 6
  <2> QED
    BY ONLY <2>1, <2>3, h \in 1 .. Len(w), Zenon
<1>3. w[g] \in Commands
  BY <1>0
<1>4. r = 1
  <2>1. CASE r = 2
    BY ONLY <1>1, <1>3, <2>1, FrameBytes, s[1] = 170, SMTT(30)
  <2>2. CASE r = 3
    <3>1. g + 1 \in 1 .. Len(w) /\ s[5] = FrameOf(w[g + 1])[1]
      BY ONLY <1>2, <1>c, <2>2
    <3>2. w[g + 1] \in Commands
      BY <1>0, <3>1
    <3>3. FrameOf(w[g + 1])[1] = 170
      BY ONLY <3>2, FrameBytes, SMTT(30)
    <3> QED
      BY ONLY <3>1, <3>3, s[5] = 85
  <2>3. CASE r = 4
    <3>1. g + 1 \in 1 .. Len(w) /\ s[6] = FrameOf(w[g + 1])[3]
      BY ONLY <1>2, <1>c, <2>3
    <3>2. w[g + 1] \in Commands
      BY <1>0, <3>1
    <3>3. w[g][2] = 170 /\ w[g + 1][1] = 170
      <4>1. FrameOf(w[g])[4] = 170 /\ FrameOf(w[g + 1])[3] = 170
        BY ONLY <1>1, <2>3, <3>1, s[1] = 170, s[6] = 170
      <4>2. FrameOf(w[g])[4] = w[g][2] /\ FrameOf(w[g + 1])[3] = w[g + 1][1]
        BY ONLY <1>3, <3>2, FrameBytes
      <4> QED
        BY ONLY <4>1, <4>2
    <3> QED
      BY ONLY <1>3, <3>2, <3>3, NoFalseFrame DEF NoFalseFrame
  <2>4. CASE r = 5
    BY ONLY <1>1, <1>3, <2>4, FrameBytes, s[1] = 170, SMTT(60)
  <2>5. CASE r = 6
    <3>1. g + 1 \in 1 .. Len(w) /\ s[2] = FrameOf(w[g + 1])[1]
      BY ONLY <1>2, <1>c, <2>5
    <3>2. w[g + 1] \in Commands
      BY <1>0, <3>1
    <3>3. FrameOf(w[g + 1])[1] = 170
      BY ONLY <3>2, FrameBytes, SMTT(30)
    <3> QED
      BY ONLY <3>1, <3>3, s[2] = 85
  <2> QED
    BY ONLY <2>1, <2>2, <2>3, <2>4, <2>5, r \in 1 .. 6
<1>5. \A i \in 1 .. 6 : s[i] = FrameOf(w[g])[i]
  <2>1. \A i \in 1 .. 6 : r + (i - 1) <= 6 /\ r + (i - 1) = i
    BY ONLY <1>4
  <2> QED
    BY ONLY <1>2, <2>1
<1>6. off = 6 * (g - 1)
  BY ONLY <1>1, <1>4, off \in Nat, g \in 1 .. Len(w), <1>0
<1> QED
  BY ONLY <1>5, <1>6, g \in 1 .. Len(w), Zenon

(* A frame is written behind the rest of those before.                      *)
LEMMA RestGrows ==
    ASSUME NEW s \in Seq(Byte), NEW w \in Seq(Commands), NEW p \in Commands,
           NEW off \in Nat, IsRest(s, w, off), off + Len(s) = 6 * Len(w)
    PROVE  /\ IsRest(s \o FrameOf(p), Append(w, p), off)
           /\ off + Len(s \o FrameOf(p)) = 6 * Len(Append(w, p))
<1> DEFINE bytes == FrameOf(p)
           t == s \o bytes
           v == Append(w, p)
<1>0. Len(s) \in Nat /\ Len(w) \in Nat
  OBVIOUS
<1>1. /\ bytes \in Seq(Byte) /\ Len(bytes) = 6
  BY FrameBytes
<1>2. /\ t \in Seq(Byte) /\ Len(t) = Len(s) + 6
      /\ \A i \in 1 .. Len(s) + 6 :
            t[i] = IF i <= Len(s) THEN s[i] ELSE bytes[i - Len(s)]
  <2>1. t = s \o bytes
    OBVIOUS
  <2> HIDE DEF bytes, t
  <2>2. /\ s \o bytes \in Seq(Byte)
        /\ Len(s \o bytes) = Len(s) + Len(bytes)
        /\ \A i \in 1 .. Len(s) + Len(bytes) : (s \o bytes)[i] =
              IF i <= Len(s) THEN s[i] ELSE bytes[i - Len(s)]
    BY ONLY <1>1, s \in Seq(Byte), ConcatProperties
  <2> QED
    BY ONLY <1>1, <2>1, <2>2, Zenon
<1>3. /\ v \in Seq(Commands) /\ Len(v) = Len(w) + 1
      /\ \A g \in 1 .. Len(w) : v[g] = w[g]
      /\ v[Len(w) + 1] = p
  BY AppendProperties
<1> HIDE DEF t, v
<1>4. off + Len(t) = 6 * Len(v)
  <2>1. Len(t) = Len(s) + 6 /\ Len(v) = Len(w) + 1
    BY ONLY <1>2, <1>3, Zenon
  <2> QED
    BY ONLY <1>0, <2>1, off \in Nat, off + Len(s) = 6 * Len(w)
<1>5. ASSUME NEW i \in 1 .. Len(t)
      PROVE  \E g \in 1 .. Len(v), r \in 1 .. 6 :
                 6 * (g - 1) + r = off + i /\ t[i] = FrameOf(v[g])[r]
  <2>1. CASE i <= Len(s)
    <3>0. i \in 1 .. Len(s) /\ i \in 1 .. Len(s) + 6
      BY ONLY <1>0, <1>2, <2>1, i \in 1 .. Len(t)
    <3>1. PICK g \in 1 .. Len(w), r \in 1 .. 6 :
               6 * (g - 1) + r = off + i /\ s[i] = FrameOf(w[g])[r]
      BY ONLY <3>0, IsRest(s, w, off), Zenon DEF IsRest
    <3>2. g \in 1 .. Len(v) /\ v[g] = w[g] /\ t[i] = s[i]
      BY ONLY <1>0, <1>2, <1>3, <2>1, <3>0, g \in 1 .. Len(w)
    <3> QED
      BY ONLY <3>1, <3>2, r \in 1 .. 6
  <2>2. CASE i > Len(s)
    <3> DEFINE g == Len(w) + 1
               r == i - Len(s)
    <3>1. g \in 1 .. Len(v) /\ r \in 1 .. 6
      <4>1. Len(t) = Len(s) + 6 /\ Len(v) = Len(w) + 1
        BY ONLY <1>2, <1>3, Zenon
      <4> QED
        BY ONLY <1>0, <4>1, <2>2, i \in 1 .. Len(t), SMTT(30)
    <3>2. 6 * (g - 1) + r = off + i
      BY ONLY <1>0, off \in Nat, off + Len(s) = 6 * Len(w), i \in Nat
    <3>3. t[i] = FrameOf(v[g])[r]
      BY ONLY <1>0, <1>2, <1>3, <2>2, i \in 1 .. Len(t)
    <3> HIDE DEF g, r
    <3> QED
      BY ONLY <3>1, <3>2, <3>3
  <2> QED
    BY ONLY <1>0, <1>2, <2>1, <2>2, i \in 1 .. Len(t)
<1>6. IsRest(t, v, off)
  <2>1. off + Len(t) <= 6 * Len(v)
    BY ONLY <1>0, <1>2, <1>3, <1>4, off \in Nat
  <2> QED
    BY ONLY <1>5, <2>1 DEF IsRest
<1> QED
  BY ONLY <1>4, <1>6 DEF t, v

(* Bytes that are read, or lost with their client.                          *)
LEMMA RestShrinks ==
    ASSUME NEW s \in Seq(Byte), NEW w \in Seq(Commands), NEW off \in Nat,
           IsRest(s, w, off), NEW n \in 0 .. Len(s)
    PROVE  /\ SubSeq(s, 1, n) \in Seq(Byte) /\ Len(SubSeq(s, 1, n)) = n
           /\ \A i \in 1 .. n : SubSeq(s, 1, n)[i] = s[i]
           /\ SubSeq(s, n + 1, Len(s)) \in Seq(Byte)
           /\ Len(SubSeq(s, n + 1, Len(s))) = Len(s) - n
           /\ IsRest(SubSeq(s, 1, n), w, off)
           /\ IsRest(SubSeq(s, n + 1, Len(s)), w, off + n)
<1> DEFINE a == SubSeq(s, 1, n)
           b == SubSeq(s, n + 1, Len(s))
<1>0. Len(s) \in Nat /\ Len(w) \in Nat /\ n \in Nat /\ n <= Len(s)
  OBVIOUS
<1>1. \A i \in 1 .. Len(s) : s[i] \in Byte
  OBVIOUS
<1>2. /\ a \in Seq(Byte) /\ Len(a) = n
      /\ \A i \in 1 .. n : a[i] = s[i]
      /\ b \in Seq(Byte) /\ Len(b) = Len(s) - n
      /\ \A i \in 1 .. Len(s) - n : b[i] = s[n + i]
  <2>1. \A i \in 1 .. n : s[i] \in Byte
    BY <1>0, <1>1
  <2>2. \A i \in n + 1 .. Len(s) : s[i] \in Byte
    BY <1>0, <1>1
  <2> QED
    BY <1>0, <2>1, <2>2, SubSeqProperties
<1> HIDE DEF a, b
<1>3. /\ off + Len(s) <= 6 * Len(w)
      /\ \A i \in 1 .. Len(s) :
            \E g \in 1 .. Len(w), r \in 1 .. 6 :
               6 * (g - 1) + r = off + i /\ s[i] = FrameOf(w[g])[r]
  BY DEF IsRest
<1>4. IsRest(a, w, off)
  <2>1. off + Len(a) <= 6 * Len(w)
    BY ONLY <1>0, <1>2, <1>3, off \in Nat
  <2>2. \A i \in 1 .. Len(a) : i \in 1 .. Len(s) /\ a[i] = s[i]
    BY ONLY <1>0, <1>2
  <2> QED
    BY ONLY <1>3, <2>1, <2>2, Zenon DEF IsRest
<1>5. IsRest(b, w, off + n)
  <2>1. (off + n) + Len(b) <= 6 * Len(w)
    BY ONLY <1>0, <1>2, <1>3, off \in Nat
  <2>2. \A i \in 1 .. Len(b) : /\ n + i \in 1 .. Len(s)
                               /\ b[i] = s[n + i]
                               /\ (off + n) + i = off + (n + i)
    BY ONLY <1>0, <1>2, off \in Nat, SMTT(30)
  <2> QED
    <3>1. ASSUME NEW i \in 1 .. Len(b)
          PROVE  \E g \in 1 .. Len(w), r \in 1 .. 6 :
                    6 * (g - 1) + r = (off + n) + i /\ b[i] = FrameOf(w[g])[r]
      <4>1. PICK g \in 1 .. Len(w), r \in 1 .. 6 :
                 6 * (g - 1) + r = off + (n + i) /\ s[n + i] = FrameOf(w[g])[r]
        BY ONLY <1>3, <2>2, i \in 1 .. Len(b), Zenon
      <4>2. b[i] = s[n + i] /\ (off + n) + i = off + (n + i)
        BY ONLY <2>2, i \in 1 .. Len(b), Zenon
      <4> QED
        BY ONLY <4>1, <4>2, Zenon
    <3> QED
      BY ONLY <2>1, <3>1, Zenon DEF IsRest
<1> QED
  BY ONLY <1>2, <1>4, <1>5 DEF a, b

(* The buffer after a read of n bytes.                                      *)
ReadOf(s, n) == Overlay(Cleared, SubSeq(s, 1, n))

(* The buffer b holds the frame of w that begins after the first off bytes. *)
HoldsFrame(b, w, off) ==
    \E g \in 1 .. Len(w) : SubSeq(b, 1, 6) = FrameOf(w[g]) /\ off = 6 * (g - 1)

(* A read that passes the test read six bytes, and they are a frame.        *)
LEMMA FrameRead ==
    ASSUME NoFalseFrame, NEW s \in Seq(Byte), NEW w \in Seq(Commands),
           NEW off \in Nat, IsRest(s, w, off), NEW n \in 1 .. 6, n <= Len(s),
           IsFrame(ReadOf(s, n))
    PROVE  n = 6 /\ HoldsFrame(ReadOf(s, n), w, off)
<1> DEFINE m == SubSeq(s, 1, n)
           b == ReadOf(s, n)
<1>0. Len(s) \in Nat /\ n \in 0 .. Len(s)
  OBVIOUS
<1>1. Len(m) = n /\ \A i \in 1 .. n : m[i] = s[i]
  BY ONLY <1>0, RestShrinks, s \in Seq(Byte), w \in Seq(Commands), off \in Nat,
          IsRest(s, w, off)
<1>2. b = Overlay(Cleared, m) /\ IsFrame(b)
  BY DEF ReadOf
<1> HIDE DEF m, b
<1>3. \A i \in 1 .. 6 : b[i] = IF i <= n THEN s[i] ELSE 0
  BY ONLY <1>1, <1>2, n \in 1 .. 6 DEF Overlay, Cleared
<1>4. b[1] = 170 /\ b[2] = 85 /\ b[5] = 85 /\ b[6] = 170
  BY ONLY <1>2 DEF IsFrame
<1>5. n = 6
  BY ONLY <1>3, <1>4, n \in 1 .. 6
<1>6. s[1] = 170 /\ s[2] = 85 /\ s[5] = 85 /\ s[6] = 170
  BY ONLY <1>3, <1>4, <1>5
<1>7. PICK g \in 1 .. Len(w) : /\ off = 6 * (g - 1)
                               /\ \A i \in 1 .. 6 : s[i] = FrameOf(w[g])[i]
  BY <1>5, <1>6, FrameInStream
<1>8. SubSeq(b, 1, 6) = FrameOf(w[g])
  <2>1. w[g] \in Commands
    OBVIOUS
  <2>2. /\ FrameOf(w[g]) \in Seq(Byte) /\ Len(FrameOf(w[g])) = 6
    BY ONLY <2>1, FrameBytes
  <2>3. \A i \in 1 .. 6 : b[i] = FrameOf(w[g])[i]
    BY ONLY <1>3, <1>5, <1>7
  <2>4. \A i \in 1 .. 6 : b[i] \in Byte
    <3>1. \A i \in 1 .. 6 : FrameOf(w[g])[i] \in Byte
      BY ONLY <2>2
    <3> QED
      BY ONLY <2>3, <3>1
  <2>5. b \in Seq(Byte) /\ Len(b) = 6
    <3>1. b \in [1 .. 6 -> Byte]
      BY ONLY <1>2, <2>4 DEF Overlay
    <3>2. b \in Seq(Byte)
      BY ONLY <3>1, SeqDef
    <3>3. DOMAIN b = 1 .. 6 /\ DOMAIN b = 1 .. Len(b) /\ Len(b) \in Nat
      BY ONLY <3>1, <3>2, LenProperties
    <3> QED
      BY ONLY <3>2, <3>3
  <2>6. /\ SubSeq(b, 1, 6) \in Seq(Byte) /\ Len(SubSeq(b, 1, 6)) = 6
        /\ \A i \in 1 .. 6 : SubSeq(b, 1, 6)[i] = b[i]
    BY ONLY <2>4, <2>5, SubSeqProperties
  <2>7. SubSeq(b, 1, 6) = FrameOf(w[g])
    BY ONLY <2>2, <2>3, <2>6, SeqEqual
  <2> QED
    BY ONLY <2>7
<1> QED
  BY ONLY <1>5, <1>7, <1>8, g \in 1 .. Len(w) DEF b, HoldsFrame

-----------------------------------------------------------------------------
(* The steps.                                                               *)

(* What the proofs use of the type invariant.                               *)
LEMMA Types ==
    ASSUME TypeOK, NEW c \in Connections
    PROVE  /\ stream[c] \in Seq(Byte) /\ Len(stream[c]) \in Nat
           /\ written[c] \in Seq(Commands) /\ Len(written[c]) \in Nat
           /\ forwarded[c] \in Seq(Seq(Byte)) /\ Len(forwarded[c]) \in Nat
BY SMTT(30) DEF TypeOK

(* A connection none of whose variables change stays in place.              *)
LEMMA Untouched ==
    ASSUME StreamsInPlace, NEW c \in Connections,
           stream'[c] = stream[c], written'[c] = written[c],
           forwarded'[c] = forwarded[c],
           peer'[c] \in {"none", "open"} => peer[c] \in {"none", "open"},
           pc' = "send" /\ current' = c =>
               pc = "send" /\ current = c /\ buffer' = buffer /\ n_read' = n_read
    PROVE  \E off \in Nat : \E f \in Orders(c)' : InPlace(c, off, f)'
<1>1. PICK off \in Nat, f \in Orders(c) : InPlace(c, off, f)
  BY DEF StreamsInPlace
<1>2. Orders(c)' = Orders(c)
  BY DEF Orders
<1>3. InPlace(c, off, f)'
  <2>1. /\ IsRest(stream'[c], written'[c], off)
        /\ AreTaken(forwarded'[c], written'[c], off, f)
    BY <1>1 DEF InPlace
  <2>2. peer'[c] \in {"none", "open"} =>
           off + Len(stream'[c]) = 6 * Len(written'[c])
    BY <1>1 DEF InPlace
  <2>3. pc' = "send" /\ current' = c =>
           IsNext(buffer', n_read', written'[c], off, f)
    BY <1>1 DEF InPlace
  <2> QED
    BY <2>1, <2>2, <2>3 DEF InPlace, IsRest, AreTaken, IsNext, IsOrder
<1> QED
  BY <1>1, <1>2, <1>3

(* Steps of the server that neither read nor send, the end of a connection, *)
(* the receiver and a client that connects or closes.                       *)
LEMMA QuietStep ==
    ASSUME SocketInv,
           \/ Accept \/ AcceptFails \/ RecvEnd \/ SendFails \/ TakeMessage
           \/ \E c \in Connections : Connect(c) \/ Close(c)
           \/ UNCHANGED vars
    PROVE  Served' /\ StreamsInPlace'
<1> USE DEF SocketInv
<1>1. /\ UNCHANGED <<stream, written, forwarded>>
      /\ \A c \in Connections :
            /\ peer'[c] \in {"none", "open"} => peer[c] \in {"none", "open"}
            /\ pc' = "send" /\ current' = c =>
                  pc = "send" /\ current = c /\ buffer' = buffer /\ n_read' = n_read
  <2>1. CASE Accept \/ AcceptFails \/ RecvEnd \/ SendFails \/ TakeMessage
    BY <2>1 DEF Accept, AcceptFails, RecvEnd, SendFails, TakeMessage
  <2>2. CASE \E c \in Connections : Connect(c) \/ Close(c)
    BY <2>2 DEF Connect, Close, thread, TypeOK
  <2>3. CASE UNCHANGED vars
    BY <2>3 DEF vars
  <2> QED
    BY <2>1, <2>2, <2>3
<1>2. StreamsInPlace'
  BY <1>1, Untouched DEF StreamsInPlace
<1>3. Served'
  <2>1. CASE Accept
    <3>1. Head(backlog) \in Connections
      <4>1. backlog \in Seq(Connections) /\ backlog # <<>>
        BY <2>1 DEF Accept, TypeOK
      <4> QED
        BY ONLY <4>1, HeadTailProperties
    <3> QED
      BY <2>1, <3>1 DEF Accept, Served
  <2>2. CASE AcceptFails \/ RecvEnd \/ SendFails \/ TakeMessage
    BY <2>2 DEF AcceptFails, RecvEnd, SendFails, TakeMessage, Served
  <2>3. CASE \E c \in Connections : Connect(c) \/ Close(c)
    BY <2>3 DEF Connect, Close, thread, Served
  <2>4. CASE UNCHANGED vars
    BY <2>4 DEF vars, Served
  <2> QED
    BY <2>1, <2>2, <2>3, <2>4
<1> QED
  BY <1>2, <1>3

LEMMA WriteStep ==
    ASSUME SocketInv, NEW d \in Connections, NEW p \in Commands, Write(d, p)
    PROVE  Served' /\ StreamsInPlace'
<1>1. /\ TypeOK /\ peer[d] = "open"
      /\ written' = [written EXCEPT ![d] = Append(@, p)]
      /\ stream' = [stream EXCEPT ![d] = @ \o FrameOf(p)]
      /\ UNCHANGED <<pc, current, buffer, n_read, forwarded, peer>>
  BY DEF SocketInv, Write, thread
<1>2. Served'
  BY <1>1 DEF SocketInv, Served
<1>3. ASSUME NEW c \in Connections, c # d
      PROVE  \E off \in Nat : \E f \in Orders(c)' : InPlace(c, off, f)'
  <2>1. stream'[c] = stream[c] /\ written'[c] = written[c]
    BY <1>1, <1>3 DEF TypeOK
  <2> QED
    BY <1>1, <2>1, Untouched DEF SocketInv
<1>4. \E off \in Nat : \E f \in Orders(d)' : InPlace(d, off, f)'
  <2>1. PICK off \in Nat, f \in Orders(d) : InPlace(d, off, f)
    BY DEF SocketInv, StreamsInPlace
  <2>2. /\ stream[d] \in Seq(Byte) /\ written[d] \in Seq(Commands)
        /\ Len(written[d]) \in Nat /\ Len(forwarded[d]) \in Nat
    BY <1>1, Types
  <2>3. /\ written'[d] = Append(written[d], p)
        /\ stream'[d] = stream[d] \o FrameOf(p)
    BY <1>1 DEF TypeOK
  <2>4. /\ Len(written'[d]) = Len(written[d]) + 1
        /\ \A i \in 1 .. Len(written[d]) : written'[d][i] = written[d][i]
    BY ONLY <2>2, <2>3, p \in Commands, AppendProperties
  <2>5. f \in Orders(d)'
    BY <1>1, <2>2, <2>4 DEF Orders
  <2>6. /\ IsRest(stream'[d], written'[d], off)
        /\ off + Len(stream'[d]) = 6 * Len(written'[d])
    <3>1. /\ IsRest(stream[d], written[d], off)
          /\ off + Len(stream[d]) = 6 * Len(written[d])
      BY <1>1, <2>1 DEF InPlace
    <3>2. /\ IsRest(stream[d] \o FrameOf(p), Append(written[d], p), off)
          /\ off + Len(stream[d] \o FrameOf(p)) = 6 * Len(Append(written[d], p))
      <4>1. \A s \in Seq(Byte), w \in Seq(Commands) :
               IsRest(s, w, off) /\ off + Len(s) = 6 * Len(w) =>
                  /\ IsRest(s \o FrameOf(p), Append(w, p), off)
                  /\ off + Len(s \o FrameOf(p)) = 6 * Len(Append(w, p))
        BY ONLY RestGrows, p \in Commands, off \in Nat
      <4> QED
        BY ONLY <2>2, <3>1, <4>1
    <3> QED
      BY ONLY <2>3, <3>2, Zenon
  <2>7. AreTaken(forwarded'[d], written'[d], off, f)
    BY <1>1, <2>1, <2>4 DEF InPlace, AreTaken, Orders
  <2>8. pc' = "send" /\ current' = d =>
           IsNext(buffer', n_read', written'[d], off, f)
    <3> SUFFICES ASSUME pc' = "send", current' = d
                 PROVE  IsNext(buffer', n_read', written'[d], off, f)
      OBVIOUS
    <3>1. IsNext(buffer, n_read, written[d], off, f)
      BY <1>1, <2>1 DEF InPlace
    <3>2. PICK g \in 1 .. Len(written[d]) :
               /\ SubSeq(buffer, 1, n_read) = FrameOf(written[d][g])
               /\ 6 * g <= off
               /\ \A i \in DOMAIN f : f[i] < g
      BY ONLY <3>1 DEF IsNext
    <3>3. g \in 1 .. Len(written'[d]) /\ written'[d][g] = written[d][g]
      BY ONLY <2>2, <2>4, g \in 1 .. Len(written[d])
    <3>4. n_read' = 6 /\ SubSeq(buffer', 1, n_read') = FrameOf(written'[d][g])
      BY <1>1, <3>1, <3>2, <3>3 DEF IsNext
    <3> QED
      BY ONLY <3>2, <3>3, <3>4, Zenon DEF IsNext
  <2>9. InPlace(d, off, f)'
    BY <2>6, <2>7, <2>8 DEF InPlace, IsRest, AreTaken, IsNext, IsOrder
  <2> QED
    BY <2>5, <2>9
<1> QED
  BY <1>2, <1>3, <1>4 DEF StreamsInPlace

LEMMA VanishStep ==
    ASSUME SocketInv, NEW d \in Connections, Vanish(d)
    PROVE  Served' /\ StreamsInPlace'
<1>1. PICK n \in 0 .. Len(stream[d]) :
           stream' = [stream EXCEPT ![d] = SubSeq(@, 1, n)]
  BY DEF Vanish
<1>2. /\ TypeOK /\ peer' = [peer EXCEPT ![d] = "vanished"]
      /\ UNCHANGED <<pc, current, buffer, n_read, forwarded, written>>
  BY DEF SocketInv, Vanish, thread
<1>3. Served'
  BY <1>2 DEF SocketInv, Served
<1>4. ASSUME NEW c \in Connections, c # d
      PROVE  \E off \in Nat : \E f \in Orders(c)' : InPlace(c, off, f)'
  <2>1. stream'[c] = stream[c] /\ peer'[c] = peer[c]
    BY <1>1, <1>2, <1>4 DEF TypeOK
  <2> QED
    BY <1>2, <2>1, Untouched DEF SocketInv
<1>5. \E off \in Nat : \E f \in Orders(d)' : InPlace(d, off, f)'
  <2>1. PICK off \in Nat, f \in Orders(d) : InPlace(d, off, f)
    BY DEF SocketInv, StreamsInPlace
  <2>2. /\ stream'[d] = SubSeq(stream[d], 1, n)
        /\ peer'[d] = "vanished"
    BY <1>1, <1>2 DEF TypeOK
  <2>3. IsRest(stream'[d], written[d], off)
    BY <1>2, <2>1, <2>2, Types, RestShrinks DEF InPlace
  <2>4. f \in Orders(d)'
    BY <1>2 DEF Orders
  <2>5. InPlace(d, off, f)'
    BY <1>2, <2>1, <2>2, <2>3 DEF InPlace, IsRest, AreTaken, IsNext, IsOrder
  <2> QED
    BY <2>4, <2>5
<1> QED
  BY <1>3, <1>4, <1>5 DEF StreamsInPlace

LEMMA RecvStep ==
    ASSUME NoFalseFrame, SocketInv, NEW n \in 1 .. 6, Recv(n)
    PROVE  Served' /\ StreamsInPlace'
<1> DEFINE d == current
           s == stream[d]
<1>1. /\ TypeOK /\ d \in Connections /\ pc = "recv" /\ n <= Len(s)
      /\ n_read' = n
      /\ stream' = [stream EXCEPT ![d] = SubSeq(s, n + 1, Len(s))]
      /\ buffer' = Overlay(Cleared, SubSeq(s, 1, n))
      /\ pc' = IF IsFrame(buffer') THEN "send" ELSE "recv"
      /\ UNCHANGED <<current, peer, written, forwarded>>
  BY DEF SocketInv, Served, Recv, RecvInto, CanReturn
<1>2. Served'
  BY <1>1 DEF Served
<1>3. ASSUME NEW c \in Connections, c # d
      PROVE  \E off \in Nat : \E f \in Orders(c)' : InPlace(c, off, f)'
  <2>1. stream'[c] = stream[c]
    BY <1>1, <1>3 DEF TypeOK
  <2> QED
    BY <1>1, <1>3, <2>1, Untouched DEF SocketInv
<1>4. \E off \in Nat : \E f \in Orders(d)' : InPlace(d, off, f)'
  <2>1. PICK off \in Nat, f \in Orders(d) : InPlace(d, off, f)
    BY <1>1 DEF SocketInv, StreamsInPlace
  <2>2. /\ s \in Seq(Byte) /\ Len(s) \in Nat
        /\ written[d] \in Seq(Commands) /\ Len(written[d]) \in Nat
        /\ Len(forwarded[d]) \in Nat
    BY <1>1, Types
  <2>3. stream'[d] = SubSeq(s, n + 1, Len(s))
    BY <1>1 DEF TypeOK
  <2>4. IsRest(s, written[d], off) /\ AreTaken(forwarded[d], written[d], off, f)
    BY <2>1 DEF InPlace
  <2> HIDE DEF s, d
  <2>5. n \in 0 .. Len(s)
    BY <1>1, <2>2
  <2>6. /\ IsRest(stream'[d], written[d], off + n)
        /\ Len(stream'[d]) = Len(s) - n
    <3>1. /\ IsRest(SubSeq(s, n + 1, Len(s)), written[d], off + n)
          /\ Len(SubSeq(s, n + 1, Len(s))) = Len(s) - n
      BY ONLY <2>2, <2>4, <2>5, RestShrinks, off \in Nat
    <3> QED
      BY ONLY <2>3, <3>1, Zenon
  <2>7. peer[d] \in {"none", "open"} =>
           (off + n) + Len(stream'[d]) = 6 * Len(written[d])
    <3>1. peer[d] \in {"none", "open"} => off + Len(s) = 6 * Len(written[d])
      BY <2>1 DEF InPlace, s
    <3> QED
      BY ONLY <2>2, <2>6, <3>1, off \in Nat, n \in Nat
  <2>8. AreTaken(forwarded[d], written[d], off + n, f)
    <3>1. \A i \in 1 .. Len(forwarded[d]) : f[i] \in Nat
      BY <2>1, <2>2 DEF Orders
    <3> QED
      BY ONLY <2>4, <3>1, off \in Nat, n \in 1 .. 6 DEF AreTaken
  <2>9. ASSUME IsFrame(buffer')
        PROVE  IsNext(buffer', n, written[d], off + n, f)
    <3>1. n = 6 /\ HoldsFrame(buffer', written[d], off)
      <4>1. buffer' = ReadOf(s, n) /\ n <= Len(s)
        BY <1>1 DEF s, ReadOf
      <4>2. IsFrame(ReadOf(s, n))
        BY ONLY <2>9, <4>1
      <4>3. n = 6 /\ HoldsFrame(ReadOf(s, n), written[d], off)
        BY ONLY <2>2, <2>4, <4>1, <4>2, NoFalseFrame, off \in Nat, n \in 1 .. 6, FrameRead
      <4> QED
        BY ONLY <4>1, <4>3
    <3>2. PICK g \in 1 .. Len(written[d]) :
               /\ SubSeq(buffer', 1, n) = FrameOf(written[d][g])
               /\ off = 6 * (g - 1)
      BY ONLY <3>1 DEF HoldsFrame
    <3>3. \A i \in DOMAIN f : f[i] \in Nat /\ 6 * f[i] <= off
      <4>1. f \in [1 .. Len(forwarded[d]) -> 1 .. Len(written[d])]
        BY <2>1 DEF Orders
      <4>2. \A i \in 1 .. Len(forwarded[d]) : 6 * f[i] <= off
        BY ONLY <2>4 DEF AreTaken
      <4>3. \A i \in 1 .. Len(forwarded[d]) : f[i] \in Nat
        BY ONLY <2>2, <4>1
      <4>4. DOMAIN f = 1 .. Len(forwarded[d])
        BY ONLY <4>1, Zenon
      <4> QED
        BY ONLY <4>2, <4>3, <4>4, Zenon
    <3>4. 6 * g <= off + n /\ \A i \in DOMAIN f : f[i] < g
      BY ONLY <2>2, <3>1, <3>2, <3>3, g \in 1 .. Len(written[d])
    <3> QED
      BY ONLY <3>1, <3>2, <3>4, g \in 1 .. Len(written[d]) DEF IsNext
  <2>10. InPlace(d, off + n, f)'
    <3>1. d' = d /\ written' = written /\ forwarded' = forwarded /\ peer' = peer
          /\ n_read' = n /\ (pc' = "send" => IsFrame(buffer'))
      BY <1>1 DEF d
    <3> QED
      BY <2>6, <2>7, <2>8, <2>9, <3>1, ZenonT(30)
         DEF InPlace, IsRest, AreTaken, IsNext, IsOrder
  <2>11. f \in Orders(d)' /\ off + n \in Nat
    BY <1>1, <2>1 DEF Orders, d
  <2> QED
    BY <2>10, <2>11
<1> QED
  BY <1>1, <1>2, <1>3, <1>4 DEF StreamsInPlace

LEMMA SendStep ==
    ASSUME SocketInv, Send
    PROVE  Served' /\ StreamsInPlace'
<1> DEFINE d == current
<1>1. /\ TypeOK /\ d \in Connections /\ pc = "send" /\ pc' = "recv"
      /\ forwarded' = [forwarded EXCEPT ![d] = Append(@, Message)]
      /\ UNCHANGED <<current, peer, stream, written>>
  BY DEF SocketInv, Served, Send
<1>2. Served'
  BY <1>1 DEF Served
<1>3. ASSUME NEW c \in Connections, c # d
      PROVE  \E off \in Nat : \E f \in Orders(c)' : InPlace(c, off, f)'
  <2>1. forwarded'[c] = forwarded[c]
    BY <1>1, <1>3 DEF TypeOK
  <2> QED
    BY <1>1, <2>1, Untouched DEF SocketInv
<1>4. \E off \in Nat : \E f \in Orders(d)' : InPlace(d, off, f)'
  <2>1. PICK off \in Nat, f \in Orders(d) : InPlace(d, off, f)
    BY <1>1 DEF SocketInv, StreamsInPlace
  <2> DEFINE len == Len(forwarded[d])
             w == written[d]
  <2>2. len \in Nat /\ Len(w) \in Nat /\ forwarded[d] \in Seq(Seq(Byte))
    BY <1>1, Types
  <2>3. IsNext(buffer, n_read, w, off, f)
    BY <1>1, <2>1 DEF InPlace
  <2>4. PICK g \in 1 .. Len(w) :
             /\ Message = FrameOf(w[g]) /\ 6 * g <= off
             /\ \A i \in DOMAIN f : f[i] < g
    BY ONLY <2>3 DEF IsNext, Message
  <2>5. f \in [1 .. len -> 1 .. Len(w)] /\ AreTaken(forwarded[d], w, off, f)
    BY <2>1 DEF Orders, InPlace
  <2>6. forwarded'[d] = Append(forwarded[d], Message)
    BY <1>1 DEF TypeOK
  <2>7. /\ Len(forwarded'[d]) = len + 1
        /\ \A i \in 1 .. len : forwarded'[d][i] = forwarded[d][i]
        /\ forwarded'[d][len + 1] = FrameOf(w[g])
    <3>1. Message \in Seq(Byte)
      <4>1. w[g] \in Commands
        BY <1>1, Types
      <4> QED
        BY ONLY <2>4, <4>1, FrameBytes
    <3> QED
      BY ONLY <2>2, <2>4, <2>6, <3>1, AppendProperties
  <2>8. PICK h \in [1 .. len + 1 -> 1 .. Len(w)] :
             h = [i \in 1 .. len + 1 |-> IF i <= len THEN f[i] ELSE g]
    <3>1. [i \in 1 .. len + 1 |-> IF i <= len THEN f[i] ELSE g]
             \in [1 .. len + 1 -> 1 .. Len(w)]
      BY ONLY <2>2, <2>5, g \in 1 .. Len(w)
    <3> QED
      BY ONLY <3>1, Zenon
  <2>9. /\ \A i \in 1 .. len : i \in 1 .. len + 1 /\ h[i] = f[i]
        /\ h[len + 1] = g
    BY ONLY <2>2, <2>8
  <2> HIDE DEF len, w, d
  <2>10. IsOrder(h)
    <3>1. \A i, j \in 1 .. len : i < j => f[i] < f[j]
      BY ONLY <2>5 DEF AreTaken, IsOrder
    <3>2. \A i \in 1 .. len : f[i] < g
      BY ONLY <2>4, <2>5
    <3>3. \A i, j \in 1 .. len + 1 : i < j => i \in 1 .. len
                                            /\ (j \in 1 .. len \/ j = len + 1)
      BY ONLY <2>2
    <3> QED
      BY ONLY <2>8, <2>9, <3>1, <3>2, <3>3 DEF IsOrder
  <2>11. AreTaken(forwarded'[d], w, off, h)
    <3>1. \A i \in 1 .. len : /\ forwarded[d][i] = FrameOf(w[f[i]])
                              /\ 6 * f[i] <= off
      BY ONLY <2>5 DEF AreTaken, len
    <3>2. \A i \in 1 .. len + 1 : i \in 1 .. len \/ i = len + 1
      BY ONLY <2>2
    <3> QED
      BY ONLY <2>4, <2>7, <2>9, <2>10, <3>1, <3>2 DEF AreTaken
  <2>12. InPlace(d, off, h)'
    <3>1. /\ d' = d /\ stream' = stream /\ written' = written /\ peer' = peer
          /\ pc' = "recv" /\ w = written[d]
      BY <1>1 DEF d, w
    <3>2. /\ IsRest(stream[d], written[d], off)
          /\ peer[d] \in {"none", "open"} =>
                off + Len(stream[d]) = 6 * Len(written[d])
      BY <2>1 DEF InPlace
    <3> QED
      BY ONLY <2>11, <3>1, <3>2 DEF InPlace, IsRest, AreTaken, IsNext, IsOrder
  <2>13. h \in Orders(d)'
    BY <1>1, <2>7, <2>8 DEF Orders, w, d
  <2> QED
    BY ONLY <2>12, <2>13, off \in Nat, Zenon
<1> QED
  BY <1>1, <1>2, <1>3, <1>4 DEF StreamsInPlace

-----------------------------------------------------------------------------
(* The types.                                                               *)

LEMMA StepTypes ==
    ASSUME TypeOK, Served, [Next]_vars
    PROVE  TypeOK'
<1> USE DEF TypeOK
<1>1. CASE Accept
  <2>1. backlog \in Seq(Connections) /\ backlog # <<>>
    BY <1>1 DEF Accept
  <2>2. Head(backlog) \in Connections /\ Tail(backlog) \in Seq(Connections)
        /\ Len(Tail(backlog)) <= Backlog + 1
    <3>1. Len(backlog) \in Nat /\ Len(backlog) <= Backlog + 1
      OBVIOUS
    <3> QED
      BY ONLY <2>1, <3>1, HeadTailProperties DEF Backlog
  <2>3. fds' \in 0 .. MaxFds
    BY <1>1, SocketAssumption DEF Accept
  <2> QED
    BY <1>1, <2>2, <2>3 DEF Accept
<1>2. CASE AcceptFails
  BY <1>2 DEF AcceptFails
<1>3. ASSUME NEW n \in 1 .. 6, Recv(n)
      PROVE  TypeOK'
  <2>1. /\ pc = "recv" /\ current \in Connections /\ n <= Len(stream[current])
        /\ n_read' = n
        /\ stream' = [stream EXCEPT ![current] = SubSeq(@, n + 1, Len(@))]
        /\ buffer' = Overlay(Cleared, SubSeq(stream[current], 1, n))
        /\ pc' \in {"send", "recv"}
        /\ UNCHANGED <<whole, current, fds, queue, failures, backlog, peer, written,
                       forwarded>>
    BY <1>3 DEF Recv, RecvInto, CanReturn, Served
  <2>2. stream[current] \in Seq(Byte) /\ Len(stream[current]) \in Nat
    BY <2>1
  <2>3. /\ SubSeq(stream[current], 1, n) \in Seq(Byte)
        /\ Len(SubSeq(stream[current], 1, n)) = n
        /\ SubSeq(stream[current], n + 1, Len(stream[current])) \in Seq(Byte)
    BY ONLY <2>1, <2>2, n \in 1 .. 6, SubSeqProperties
  <2>4. buffer' \in [1 .. 6 -> Byte]
    <3> DEFINE m == SubSeq(stream[current], 1, n)
               byte(i) == IF i <= Len(m) THEN m[i] ELSE Cleared[i]
    <3>1. m \in Seq(Byte) /\ Len(m) = n
      BY ONLY <2>3
    <3>2. buffer' = [i \in 1 .. 6 |-> byte(i)]
      BY ONLY <2>1, Zenon DEF Overlay
    <3> HIDE DEF m
    <3>3. ASSUME NEW i \in 1 .. 6 PROVE byte(i) \in Byte
      <4>1. CASE i <= Len(m)
        BY ONLY <3>1, <4>1, i \in 1 .. 6, n \in 1 .. 6
      <4>2. CASE ~(i <= Len(m))
        BY ONLY <4>2, i \in 1 .. 6 DEF Cleared, Byte
      <4> QED
        BY <4>1, <4>2, Zenon
    <3> HIDE DEF byte
    <3> QED
      BY ONLY <3>2, <3>3, Zenon
  <2>5. stream' \in [Connections -> Seq(Byte)]
    BY <2>1, <2>3
  <2> QED
    BY <2>1, <2>4, <2>5
<1>4. CASE RecvEnd
  <2>1. Cleared \in [1 .. 6 -> Byte]
    BY DEF Cleared, Byte
  <2> QED
    BY <1>4, <2>1 DEF RecvEnd
<1>5. CASE Send \/ TakeMessage
  <2>1. Message \in Seq(Byte)
    <3>1. \A i \in 1 .. n_read : buffer[i] \in Byte
      BY SMTT(30)
    <3> QED
      BY <3>1, SubSeqProperties DEF Message
  <2>2. CASE Send
    <3>1. /\ queue' \in Seq(Seq(Byte)) /\ Len(queue') <= QueueMax
      BY <2>1, <2>2, AppendProperties, SocketAssumption DEF Send
    <3>2. forwarded' \in [Connections -> Seq(Seq(Byte))]
      BY <2>1, <2>2, AppendProperties DEF Send
    <3> QED
      BY <2>2, <3>1, <3>2 DEF Send
  <2>3. CASE TakeMessage
    <3>1. queue' \in Seq(Seq(Byte)) /\ Len(queue') <= QueueMax
      BY <2>3, HeadTailProperties, SocketAssumption DEF TakeMessage
    <3> QED
      BY <2>3, <3>1 DEF TakeMessage
  <2> QED
    BY <1>5, <2>2, <2>3
<1>6. CASE SendFails
  BY <1>6, SocketAssumption DEF SendFails
<1>7. ASSUME NEW c \in Connections, ClientStep(c)
      PROVE  TypeOK'
  <2>1. CASE Connect(c)
    <3>1. backlog' \in Seq(Connections) /\ Len(backlog') <= Backlog + 1
      BY <2>1, AppendProperties DEF Connect, Backlog
    <3> QED
      BY <2>1, <3>1 DEF Connect, thread
  <2>2. ASSUME NEW p \in Commands, Write(c, p)
        PROVE  TypeOK'
    <3>1. /\ stream[c] \o FrameOf(p) \in Seq(Byte)
          /\ Append(written[c], p) \in Seq(Commands)
      BY FrameBytes, ConcatProperties, AppendProperties
    <3> QED
      BY <2>2, <3>1 DEF Write, thread
  <2>3. CASE Close(c)
    BY <2>3 DEF Close, thread
  <2>4. CASE Vanish(c)
    <3>1. \A n \in 0 .. Len(stream[c]) : SubSeq(stream[c], 1, n) \in Seq(Byte)
      BY SubSeqProperties
    <3> QED
      BY <2>4, <3>1 DEF Vanish, thread
  <2> QED
    BY <1>7, <2>1, <2>2, <2>3, <2>4 DEF ClientStep
<1>8. CASE UNCHANGED vars
  BY <1>8 DEF vars
<1> QED
  BY <1>1, <1>2, <1>3, <1>4, <1>5, <1>6, <1>7, <1>8 DEF Next, SocketStep

(* The connection that is served is one that was accepted.                  *)
LEMMA ServedStep ==
    ASSUME TypeOK, Served, [Next]_vars
    PROVE  Served'
<1>1. CASE Accept
  <2>1. Head(backlog) \in Connections
    <3>1. backlog \in Seq(Connections) /\ backlog # <<>>
      BY <1>1 DEF Accept, TypeOK
    <3> QED
      BY ONLY <3>1, HeadTailProperties
  <2> QED
    BY <1>1, <2>1 DEF Accept, Served
<1>2. CASE \/ AcceptFails \/ RecvEnd \/ Send \/ SendFails \/ TakeMessage
           \/ \E n \in 1 .. 6 : Recv(n)
  BY <1>2 DEF AcceptFails, RecvEnd, Send, SendFails, TakeMessage, Recv, RecvInto,
              Served
<1>3. CASE \E c \in Connections : ClientStep(c)
  BY <1>3 DEF ClientStep, Connect, Write, Close, Vanish, thread, Served
<1>4. CASE UNCHANGED vars
  BY <1>4 DEF vars, Served
<1> QED
  BY <1>1, <1>2, <1>3, <1>4 DEF Next, SocketStep

(* The variables always have their types: what is forwarded are messages of *)
(* the buffer, the queue never exceeds its size, and no more descriptors    *)
(* are taken than the process has.                                          *)
THEOREM TypeCorrect == Spec => []TypeOK
<1>1. Init => TypeOK /\ Served
  BY SocketAssumption DEF Init, TypeOK, Served, Cleared, Byte, None, Backlog
<1>2. TypeOK /\ Served /\ [Next]_vars => (TypeOK /\ Served)'
  BY StepTypes, ServedStep
<1> QED
  BY <1>1, <1>2, PTL DEF Spec

-----------------------------------------------------------------------------
LEMMA SocketInit == Init => SocketInv
<1> SUFFICES ASSUME Init
             PROVE  SocketInv
  OBVIOUS
<1>1. TypeOK /\ Served
  BY SocketAssumption DEF Init, TypeOK, Served, Cleared, Byte, None, Backlog
<1>2. StreamsInPlace
  <2> SUFFICES ASSUME NEW c \in Connections
               PROVE  \E off \in Nat : \E f \in Orders(c) : InPlace(c, off, f)
    BY DEF StreamsInPlace
  <2>1. /\ stream[c] = <<>> /\ written[c] = <<>> /\ forwarded[c] = <<>>
        /\ pc = "accept"
    BY DEF Init
  <2> DEFINE f == [i \in 1 .. 0 |-> 1]
  <2>2. f \in Orders(c)
    BY <2>1 DEF Orders
  <2>3. InPlace(c, 0, f)
    BY <2>1 DEF InPlace, IsRest, AreTaken, IsOrder
  <2> QED
    BY <2>2, <2>3
<1> QED
  BY <1>1, <1>2 DEF SocketInv

LEMMA SocketStepKeeps ==
    ASSUME NoFalseFrame, SocketInv, [Next]_vars
    PROVE  SocketInv'
<1>1. TypeOK'
  BY StepTypes DEF SocketInv
<1>2. Served' /\ StreamsInPlace'
  <2>1. CASE \/ Accept \/ AcceptFails \/ RecvEnd \/ SendFails \/ TakeMessage
             \/ \E c \in Connections : Connect(c) \/ Close(c)
             \/ UNCHANGED vars
    BY <2>1, QuietStep
  <2>2. ASSUME NEW n \in 1 .. 6, Recv(n)
        PROVE  Served' /\ StreamsInPlace'
    BY <2>2, RecvStep
  <2>3. CASE Send
    BY <2>3, SendStep
  <2>4. ASSUME NEW c \in Connections, Vanish(c)
        PROVE  Served' /\ StreamsInPlace'
    BY <2>4, VanishStep
  <2>5. ASSUME NEW c \in Connections, NEW p \in Commands, Write(c, p)
        PROVE  Served' /\ StreamsInPlace'
    BY <2>5, WriteStep
  <2> QED
    BY <2>1, <2>2, <2>3, <2>4, <2>5 DEF Next, SocketStep, ClientStep
<1> QED
  BY <1>1, <1>2 DEF SocketInv

LEMMA InPlaceInOrder == SocketInv => ForwardedInOrder
<1> SUFFICES ASSUME SocketInv, NEW c \in Connections
             PROVE  \E f \in [DOMAIN forwarded[c] -> DOMAIN written[c]] :
                       /\ IsOrder(f)
                       /\ \A i \in DOMAIN f : forwarded[c][i] = WrittenFrames(c)[f[i]]
  BY DEF ForwardedInOrder
<1>1. PICK off \in Nat, f \in Orders(c) : InPlace(c, off, f)
  BY DEF SocketInv, StreamsInPlace
<1>2. /\ DOMAIN forwarded[c] = 1 .. Len(forwarded[c])
      /\ DOMAIN written[c] = 1 .. Len(written[c])
  BY Types DEF SocketInv
<1>3. f \in [DOMAIN forwarded[c] -> DOMAIN written[c]]
  BY <1>1, <1>2 DEF Orders
<1>4. IsOrder(f) /\ \A i \in DOMAIN forwarded[c] :
                       forwarded[c][i] = FrameOf(written[c][f[i]])
  BY <1>1, <1>2 DEF InPlace, AreTaken
<1>5. \A i \in DOMAIN f : forwarded[c][i] = WrittenFrames(c)[f[i]]
  BY <1>3, <1>4 DEF WrittenFrames
<1> QED
  BY <1>3, <1>4, <1>5

(* Whatever the network and the clients do, the messages that a connection  *)
(* puts into the queue are whole frames of its client, each at most once    *)
(* and in the order of writing.                                             *)
THEOREM SentInOrder ==
    ASSUME NoFalseFrame
    PROVE  Spec => []ForwardedInOrder
<1>1. SocketInv /\ [Next]_vars => SocketInv'
  BY SocketStepKeeps
<1> QED
  BY <1>1, SocketInit, InPlaceInOrder, PTL DEF Spec
-----------------------------------------------------------------------------
(* Nothing is lost while frames arrive whole.                               *)

(* The frame in the buffer, sent on next, if it is of connection c.         *)
Held(c) == IF pc = "send" /\ current = c THEN 1 ELSE 0

Taken(c) == Len(forwarded[c]) + Held(c)

(* What was sent on is what was written first, the buffer holds the next    *)
(* frame, and the rest is on the way, in whole frames.                      *)
WholeInPlace(c) ==
    /\ \E k \in Nat : /\ Len(stream[c]) = 6 * k
                      /\ peer[c] # "vanished" => Taken(c) + k = Len(written[c])
    /\ IsRest(stream[c], written[c], 6 * Taken(c))
    /\ \A i \in 1 .. Len(forwarded[c]) : forwarded[c][i] = FrameOf(written[c][i])
    /\ Held(c) = 1 => Message = FrameOf(written[c][Taken(c)])

WholeInv == whole /\ failures = 0 => \A c \in Connections : WholeInPlace(c)

(* Counting through whole frames is unique.                                 *)
LEMMA PlaceOf ==
    ASSUME NEW g \in Nat, NEW t \in Nat, NEW r \in 1 .. 6, NEW i \in 1 .. 6,
           6 * (g - 1) + r = 6 * t + i
    PROVE  g = t + 1 /\ r = i
OBVIOUS

(* The next frame of a stream of whole frames.                              *)
LEMMA NextFrame ==
    ASSUME NEW s \in Seq(Byte), NEW w \in Seq(Commands), NEW t \in Nat,
           IsRest(s, w, 6 * t), 6 <= Len(s)
    PROVE  /\ t + 1 \in 1 .. Len(w)
           /\ \A i \in 1 .. 6 : s[i] = FrameOf(w[t + 1])[i]
<1>0. Len(s) \in Nat /\ Len(w) \in Nat /\ 6 * t + Len(s) <= 6 * Len(w)
  BY DEF IsRest
<1>1. t + 1 \in 1 .. Len(w)
  BY ONLY <1>0, t \in Nat, 6 <= Len(s)
<1>2. ASSUME NEW i \in 1 .. 6 PROVE s[i] = FrameOf(w[t + 1])[i]
  <2>1. i \in 1 .. Len(s)
    BY ONLY <1>0, i \in 1 .. 6, 6 <= Len(s)
  <2>2. PICK g \in 1 .. Len(w), r \in 1 .. 6 :
             6 * (g - 1) + r = 6 * t + i /\ s[i] = FrameOf(w[g])[r]
    BY ONLY <2>1, IsRest(s, w, 6 * t), Zenon DEF IsRest
  <2>3. g = t + 1 /\ r = i
    <3>1. g \in Nat /\ 6 * (g - 1) + r = 6 * t + i
      BY <1>0, <2>2
    <3> QED
      BY ONLY <3>1, PlaceOf, r \in 1 .. 6, t \in Nat, i \in 1 .. 6
  <2> QED
    BY ONLY <2>2, <2>3, Zenon
<1> QED
  BY ONLY <1>1, <1>2

(* A read of that frame passes the test, and the message will be the frame. *)
LEMMA WholeFrameRead ==
    ASSUME NEW s \in Seq(Byte), NEW w \in Seq(Commands), NEW t \in Nat,
           IsRest(s, w, 6 * t), 6 <= Len(s)
    PROVE  /\ t + 1 \in 1 .. Len(w)
           /\ IsFrame(ReadOf(s, 6))
           /\ SubSeq(ReadOf(s, 6), 1, 6) = FrameOf(w[t + 1])
<1> DEFINE b == ReadOf(s, 6)
           m == SubSeq(s, 1, 6)
           frame == FrameOf(w[t + 1])
<1>1. t + 1 \in 1 .. Len(w) /\ \A i \in 1 .. 6 : s[i] = frame[i]
  BY NextFrame
<1>2. /\ frame \in Seq(Byte) /\ Len(frame) = 6
      /\ frame[1] = 170 /\ frame[2] = 85 /\ frame[5] = 85 /\ frame[6] = 170
  <2>1. w[t + 1] \in Commands
    BY <1>1
  <2> QED
    BY <2>1, FrameBytes, SMTT(30)
<1>3. /\ Len(m) = 6 /\ \A i \in 1 .. 6 : m[i] = s[i]
  <2>1. 6 \in 0 .. Len(s)
    OBVIOUS
  <2> QED
    BY ONLY <2>1, RestShrinks, s \in Seq(Byte), w \in Seq(Commands), 6 * t \in Nat,
            IsRest(s, w, 6 * t), t \in Nat
<1>4. b = Overlay(Cleared, m)
  BY DEF ReadOf
<1> HIDE DEF b, m, frame
<1>5. \A i \in 1 .. 6 : b[i] = frame[i]
  BY ONLY <1>1, <1>3, <1>4 DEF Overlay
<1>6. \A i \in 1 .. 6 : frame[i] \in Byte
  <2>1. \A i \in 1 .. Len(frame) : frame[i] \in Byte
    BY ONLY <1>2, ElementOfSeq
  <2> QED
    BY ONLY <1>2, <2>1, Zenon
<1>7. b \in Seq(Byte) /\ Len(b) = 6
  <2>1. b \in [1 .. 6 -> Byte]
    BY ONLY <1>4, <1>5, <1>6 DEF Overlay
  <2>2. b \in Seq(Byte)
    BY ONLY <2>1, SeqDef
  <2>3. DOMAIN b = 1 .. 6 /\ DOMAIN b = 1 .. Len(b) /\ Len(b) \in Nat
    BY ONLY <2>1, <2>2, LenProperties
  <2> QED
    BY ONLY <2>2, <2>3
<1>8. /\ SubSeq(b, 1, 6) \in Seq(Byte) /\ Len(SubSeq(b, 1, 6)) = 6
      /\ \A i \in 1 .. 6 : SubSeq(b, 1, 6)[i] = b[i]
  <2>1. \A i \in 1 .. 6 : b[i] \in Byte
    BY ONLY <1>5, <1>6
  <2> QED
    BY ONLY <1>7, <2>1, SubSeqProperties
<1>9. SubSeq(b, 1, 6) = frame
  BY ONLY <1>2, <1>5, <1>8, SeqEqual
<1>10. IsFrame(b)
  BY ONLY <1>2, <1>5 DEF IsFrame
<1> QED
  BY ONLY <1>1, <1>9, <1>10 DEF b, frame

(* The frames taken from a stream so far.                                   *)
LEMMA TakenType ==
    ASSUME TypeOK, NEW c \in Connections
    PROVE  /\ Held(c) \in {0, 1} /\ Taken(c) \in Nat
           /\ Len(forwarded[c]) <= Taken(c)
           /\ Held(c) = 1 => Taken(c) >= 1
<1>1. Held(c) \in {0, 1}
  BY DEF Held
<1> DEFINE n == Len(forwarded[c])
<1>2. n \in Nat
  BY Types
<1>3. Taken(c) = n + Held(c)
  BY DEF Taken
<1> HIDE DEF n
<1>4. Taken(c) \in Nat /\ n <= Taken(c) /\ (Held(c) = 1 => Taken(c) >= 1)
  BY ONLY <1>1, <1>2, <1>3
<1> QED
  BY ONLY <1>1, <1>4 DEF n

(* A connection none of whose variables change stays in place.              *)
LEMMA WholeUntouched ==
    ASSUME NEW c \in Connections, WholeInPlace(c),
           stream'[c] = stream[c], written'[c] = written[c],
           forwarded'[c] = forwarded[c],
           peer[c] = "vanished" => peer'[c] = "vanished",
           Held(c)' = Held(c),
           Held(c) = 1 => buffer' = buffer /\ n_read' = n_read
    PROVE  WholeInPlace(c)'
<1>1. Taken(c)' = Taken(c)
  BY DEF Taken
<1>2. Held(c) = 1 => Message' = Message
  BY DEF Message
<1>3. \E k \in Nat : /\ Len(stream'[c]) = 6 * k
                     /\ peer'[c] # "vanished" => Taken(c)' + k = Len(written'[c])
  BY <1>1 DEF WholeInPlace
<1>4. IsRest(stream'[c], written'[c], 6 * Taken(c)')
  BY <1>1 DEF WholeInPlace
<1> QED
  BY <1>2, <1>3, <1>4, <1>1 DEF WholeInPlace, IsRest

(* Accepting, the end of a connection, the receiver and a client that       *)
(* connects or closes leave every connection in place; an mq_send that      *)
(* fails ends the claim.                                                    *)
LEMMA WholeQuietStep ==
    ASSUME TypeOK, WholeInv,
           \/ Accept \/ AcceptFails \/ RecvEnd \/ SendFails \/ TakeMessage
           \/ \E c \in Connections : Connect(c) \/ Close(c)
           \/ UNCHANGED vars
    PROVE  WholeInv'
<1>1. CASE SendFails
  BY <1>1 DEF SendFails, WholeInv, TypeOK
<1>2. CASE ~SendFails
  <2>1. /\ UNCHANGED <<whole, failures, stream, written, forwarded>>
        /\ \A c \in Connections :
              /\ peer[c] = "vanished" => peer'[c] = "vanished"
              /\ Held(c)' = Held(c)
              /\ Held(c) = 1 => buffer' = buffer /\ n_read' = n_read
    <3>1. CASE Accept \/ AcceptFails \/ RecvEnd \/ TakeMessage
      BY <3>1 DEF Accept, AcceptFails, RecvEnd, TakeMessage, Held
    <3>2. CASE \E c \in Connections : Connect(c) \/ Close(c)
      BY <3>2 DEF Connect, Close, thread, TypeOK, Held
    <3>3. CASE UNCHANGED vars
      BY <3>3 DEF vars, Held
    <3> QED
      BY <1>2, <3>1, <3>2, <3>3
  <2> QED
    BY <2>1, WholeUntouched DEF WholeInv
<1> QED
  BY <1>1, <1>2

(* A client that writes adds a frame to what is on the way.                 *)
LEMMA WholeWriteStep ==
    ASSUME TypeOK, WholeInv, NEW d \in Connections, NEW p \in Commands, Write(d, p)
    PROVE  WholeInv'
<1>1. /\ peer[d] = "open"
      /\ written' = [written EXCEPT ![d] = Append(@, p)]
      /\ stream' = [stream EXCEPT ![d] = @ \o FrameOf(p)]
      /\ UNCHANGED <<whole, failures, pc, current, buffer, n_read, forwarded, peer>>
  BY DEF Write, thread
<1> SUFFICES ASSUME whole, failures = 0, NEW c \in Connections
             PROVE  WholeInPlace(c)'
  BY <1>1 DEF WholeInv
<1>2. WholeInPlace(c)
  BY DEF WholeInv
<1>3. Held(c)' = Held(c) /\ Taken(c)' = Taken(c)
  BY <1>1 DEF Held, Taken
<1>4. CASE c # d
  <2>1. stream'[c] = stream[c] /\ written'[c] = written[c]
    BY <1>1, <1>4 DEF TypeOK
  <2> QED
    BY <1>1, <1>2, <1>3, <2>1, WholeUntouched
<1>5. CASE c = d
  <2> DEFINE s == stream[c]
             w == written[c]
             t == Taken(c)
  <2>1. /\ s \in Seq(Byte) /\ w \in Seq(Commands) /\ Len(w) \in Nat
        /\ Len(forwarded[c]) \in Nat /\ t \in Nat
    BY Types, TakenType
  <2>2. PICK k \in Nat : Len(s) = 6 * k /\ t + k = Len(w)
    BY <1>1, <1>2, <1>5 DEF WholeInPlace
  <2>3. IsRest(s, w, 6 * t)
    BY <1>2 DEF WholeInPlace
  <2>4. written'[c] = Append(w, p) /\ stream'[c] = s \o FrameOf(p)
    BY <1>1, <1>5 DEF TypeOK
  <2>5. /\ \A i \in 1 .. Len(forwarded[c]) : forwarded[c][i] = FrameOf(w[i])
        /\ Held(c) = 1 => Message = FrameOf(w[t])
    BY <1>2 DEF WholeInPlace
  <2>h. Len(forwarded[c]) <= t /\ (Held(c) = 1 => t >= 1)
    BY TakenType
  <2> HIDE DEF s, w, t
  <2>6. 6 * t \in Nat /\ 6 * t + Len(s) = 6 * Len(w)
    BY ONLY <2>1, <2>2
  <2>7. /\ IsRest(s \o FrameOf(p), Append(w, p), 6 * t)
        /\ 6 * t + Len(s \o FrameOf(p)) = 6 * Len(Append(w, p))
    <3> DEFINE off == 6 * t
    <3>1. off \in Nat /\ off + Len(s) = 6 * Len(w) /\ IsRest(s, w, off)
      BY <2>3, <2>6
    <3> HIDE DEF off
    <3>2. /\ IsRest(s \o FrameOf(p), Append(w, p), off)
          /\ off + Len(s \o FrameOf(p)) = 6 * Len(Append(w, p))
      BY ONLY <2>1, <3>1, RestGrows, p \in Commands
    <3> QED
      BY <3>2 DEF off
  <2>8. /\ Len(Append(w, p)) = Len(w) + 1
        /\ \A i \in 1 .. Len(w) : Append(w, p)[i] = w[i]
    BY ONLY <2>1, AppendProperties, p \in Commands
  <2>9. /\ \A i \in 1 .. Len(forwarded[c]) : i \in 1 .. Len(w)
        /\ Held(c) = 1 => t \in 1 .. Len(w)
    BY ONLY <2>1, <2>2, <2>h
  <2>10. /\ \A i \in 1 .. Len(forwarded[c]) : forwarded[c][i] = FrameOf(Append(w, p)[i])
         /\ Held(c) = 1 => Message = FrameOf(Append(w, p)[t])
    BY ONLY <2>5, <2>8, <2>9, Zenon
  <2> DEFINE n == k + 1
  <2>11. n \in Nat /\ Len(s \o FrameOf(p)) = 6 * n /\ t + n = Len(Append(w, p))
    BY ONLY <2>1, <2>2, <2>7, <2>8
  <2> HIDE DEF n
  <2>12. /\ Taken(c)' = t /\ forwarded' = forwarded /\ Message' = Message
         /\ Held(c)' = Held(c)
    BY <1>1, <1>3 DEF t, Message
  <2>13. \E j \in Nat : /\ Len(stream'[c]) = 6 * j
                        /\ peer'[c] # "vanished" => Taken(c)' + j = Len(written'[c])
    BY ONLY <2>4, <2>11, <2>12, Zenon
  <2>14. IsRest(stream'[c], written'[c], 6 * Taken(c)')
    BY ONLY <2>4, <2>7, <2>12, Zenon
  <2>15. /\ \A i \in 1 .. Len(forwarded'[c]) :
                forwarded'[c][i] = FrameOf(written'[c][i])
         /\ Held(c)' = 1 => Message' = FrameOf(written'[c][Taken(c)'])
    BY ONLY <2>4, <2>10, <2>12, Zenon
  <2> QED
    BY <2>13, <2>14, <2>15 DEF WholeInPlace, IsRest
<1> QED
  BY <1>4, <1>5

(* A client that vanishes takes whole frames with it.                       *)
LEMMA WholeVanishStep ==
    ASSUME TypeOK, WholeInv, NEW d \in Connections, Vanish(d)
    PROVE  WholeInv'
<1>1. /\ peer' = [peer EXCEPT ![d] = "vanished"]
      /\ UNCHANGED <<whole, failures, pc, current, buffer, n_read, forwarded, written>>
  BY DEF Vanish, thread
<1> SUFFICES ASSUME whole, failures = 0, NEW c \in Connections
             PROVE  WholeInPlace(c)'
  BY <1>1 DEF WholeInv
<1>2. WholeInPlace(c)
  BY DEF WholeInv
<1>3. Held(c)' = Held(c) /\ Taken(c)' = Taken(c) /\ Message' = Message
  BY <1>1 DEF Held, Taken, Message
<1>4. PICK n \in 0 .. Len(stream[d]) :
           n % 6 = 0 /\ stream' = [stream EXCEPT ![d] = SubSeq(@, 1, n)]
  BY DEF Vanish
<1>5. CASE c # d
  <2>1. stream'[c] = stream[c] /\ peer'[c] = peer[c]
    BY <1>1, <1>4, <1>5 DEF TypeOK
  <2> QED
    BY <1>1, <1>2, <1>3, <2>1, WholeUntouched
<1>6. CASE c = d
  <2> DEFINE s == stream[c]
             w == written[c]
             t == Taken(c)
             off == 6 * t
  <2>1. /\ s \in Seq(Byte) /\ w \in Seq(Commands) /\ t \in Nat /\ off \in Nat
        /\ Len(s) \in Nat
    BY Types, TakenType
  <2>2. IsRest(s, w, off)
    BY <1>2 DEF WholeInPlace
  <2>3. /\ n \in 0 .. Len(s) /\ stream'[c] = SubSeq(s, 1, n)
        /\ peer'[c] = "vanished" /\ written'[c] = w /\ Taken(c)' = t
    BY <1>1, <1>3, <1>4, <1>6 DEF TypeOK
  <2>4. off = 6 * Taken(c)'
    BY <1>3
  <2> HIDE DEF s, w, t, off
  <2>5. IsRest(stream'[c], w, off) /\ Len(stream'[c]) = n
    <3>1. Len(SubSeq(s, 1, n)) = n /\ IsRest(SubSeq(s, 1, n), w, off)
      BY ONLY <2>1, <2>2, <2>3, RestShrinks
    <3> QED
      BY ONLY <2>3, <3>1, Zenon
  <2>6. \E k \in Nat : n = 6 * k
    <3>1. n \in Nat /\ n \div 6 \in Nat /\ n = 6 * (n \div 6)
      BY ONLY <1>4, <2>1, <2>3
    <3> QED
      BY ONLY <3>1, Zenon
  <2>7. \E k \in Nat : /\ Len(stream'[c]) = 6 * k
                       /\ peer'[c] # "vanished" => Taken(c)' + k = Len(written'[c])
    BY ONLY <2>3, <2>5, <2>6, Zenon
  <2>8. IsRest(stream'[c], written'[c], 6 * Taken(c)')
    BY ONLY <2>3, <2>4, <2>5, Zenon
  <2> QED
    BY <1>1, <1>2, <1>3, <2>7, <2>8 DEF WholeInPlace, IsRest
<1> QED
  BY <1>5, <1>6

(* A read of a whole frame moves it from the stream to the buffer.          *)
LEMMA WholeRecvStep ==
    ASSUME TypeOK, Served, WholeInv, NEW n \in 1 .. 6, Recv(n)
    PROVE  WholeInv'
<1> DEFINE d == current
<1>1. /\ d \in Connections /\ pc = "recv" /\ n <= Len(stream[d])
      /\ whole => n = 6
      /\ n_read' = n
      /\ stream' = [stream EXCEPT ![d] = SubSeq(@, n + 1, Len(@))]
      /\ buffer' = ReadOf(stream[d], n)
      /\ pc' = IF IsFrame(buffer') THEN "send" ELSE "recv"
      /\ UNCHANGED <<whole, failures, current, peer, written, forwarded>>
  BY DEF Served, Recv, RecvInto, CanReturn, ReadOf
<1> SUFFICES ASSUME whole, failures = 0, NEW c \in Connections
             PROVE  WholeInPlace(c)'
  BY <1>1 DEF WholeInv
<1>2. WholeInPlace(c)
  BY DEF WholeInv
<1>3. CASE c # d
  <2>1. stream'[c] = stream[c] /\ Held(c)' = Held(c) /\ Held(c) = 0
    BY <1>1, <1>3 DEF TypeOK, Held
  <2> QED
    BY <1>1, <1>2, <2>1, WholeUntouched
<1>4. CASE c = d
  <2> DEFINE s == stream[c]
             w == written[c]
             t == Taken(c)
             rest == SubSeq(s, 6 + 1, Len(s))
  <2>1. /\ s \in Seq(Byte) /\ Len(s) \in Nat /\ w \in Seq(Commands)
        /\ Len(w) \in Nat /\ t \in Nat /\ Len(forwarded[c]) \in Nat
    BY Types, TakenType
  <2>2. /\ n = 6 /\ 6 <= Len(s) /\ stream'[c] = rest
        /\ buffer' = ReadOf(s, 6) /\ n_read' = 6
    BY <1>1, <1>4 DEF TypeOK
  <2>3. IsRest(s, w, 6 * t)
    BY <1>2 DEF WholeInPlace
  <2>4. PICK k \in Nat : /\ Len(s) = 6 * k
                         /\ peer[c] # "vanished" => t + k = Len(w)
    BY <1>2 DEF WholeInPlace
  <2>5. t = Len(forwarded[c])
    BY <1>1, <2>1 DEF Taken, Held
  <2>6. \A i \in 1 .. Len(forwarded[c]) : forwarded[c][i] = FrameOf(w[i])
    BY <1>2 DEF WholeInPlace
  <2>r. rest = SubSeq(s, 6 + 1, Len(s))
    OBVIOUS
  <2>t. Taken(c)' = Len(forwarded[c]) + Held(c)'
    BY <1>1 DEF Taken
  <2> HIDE DEF s, w, t, rest
  <2>7. /\ t + 1 \in 1 .. Len(w) /\ IsFrame(ReadOf(s, 6))
        /\ SubSeq(ReadOf(s, 6), 1, 6) = FrameOf(w[t + 1])
    BY ONLY <2>1, <2>2, <2>3, WholeFrameRead
  <2>8. Held(c)' = 1 /\ Taken(c)' = t + 1
    <3>1. IsFrame(buffer')
      BY ONLY <2>2, <2>7, Zenon
    <3>2. pc' = "send" /\ current' = c
      BY ONLY <1>1, <1>4, <3>1, Zenon DEF d
    <3>3. Held(c)' = 1
      BY ONLY <3>2 DEF Held
    <3> QED
      BY ONLY <2>1, <2>5, <2>t, <3>3
  <2>9. Message' = FrameOf(w[t + 1])
    <3>1. Message' = SubSeq(buffer', 1, n_read')
      BY DEF Message
    <3> QED
      BY ONLY <2>2, <2>7, <3>1, Zenon
  <2>10. IsRest(rest, w, 6 * (t + 1)) /\ Len(rest) = Len(s) - 6
    <3> DEFINE off == 6 * t
    <3>1. off \in Nat /\ IsRest(s, w, off) /\ 6 \in 0 .. Len(s)
      BY <2>1, <2>2, <2>3
    <3> HIDE DEF off
    <3>2. /\ Len(SubSeq(s, 6 + 1, Len(s))) = Len(s) - 6
          /\ IsRest(SubSeq(s, 6 + 1, Len(s)), w, off + 6)
      BY ONLY <2>1, <3>1, RestShrinks
    <3>3. off + 6 = 6 * (t + 1)
      BY <2>1 DEF off
    <3> QED
      BY ONLY <2>r, <3>2, <3>3, Zenon
  <2>11. \E j \in Nat : /\ Len(stream'[c]) = 6 * j
                        /\ peer'[c] # "vanished" => Taken(c)' + j = Len(written'[c])
    <3> DEFINE j == k - 1
    <3>1. j \in Nat /\ Len(rest) = 6 * j
          /\ (peer[c] # "vanished" => (t + 1) + j = Len(w))
      BY ONLY <2>1, <2>2, <2>4, <2>10
    <3> HIDE DEF j
    <3>2. peer' = peer /\ written'[c] = w /\ stream'[c] = rest
      BY <1>1, <2>2 DEF w
    <3> QED
      BY ONLY <2>8, <3>1, <3>2, Zenon
  <2>12. written'[c] = w /\ forwarded' = forwarded
    BY <1>1 DEF w
  <2>13. IsRest(stream'[c], written'[c], 6 * Taken(c)')
    BY ONLY <2>2, <2>8, <2>10, <2>12, Zenon
  <2>14. /\ \A i \in 1 .. Len(forwarded'[c]) :
                forwarded'[c][i] = FrameOf(written'[c][i])
         /\ Held(c)' = 1 => Message' = FrameOf(written'[c][Taken(c)'])
    BY ONLY <2>6, <2>8, <2>9, <2>12, Zenon
  <2> QED
    BY <2>11, <2>13, <2>14 DEF WholeInPlace, IsRest
<1> QED
  BY <1>3, <1>4

(* An mq_send moves the frame from the buffer to what was sent on.          *)
LEMMA WholeSendStep ==
    ASSUME TypeOK, Served, WholeInv, Send
    PROVE  WholeInv'
<1> DEFINE d == current
<1>1. /\ d \in Connections /\ pc = "send" /\ pc' = "recv"
      /\ forwarded' = [forwarded EXCEPT ![d] = Append(@, Message)]
      /\ UNCHANGED <<whole, failures, current, buffer, n_read, peer, stream, written>>
  BY DEF Served, Send
<1> SUFFICES ASSUME whole, failures = 0, NEW c \in Connections
             PROVE  WholeInPlace(c)'
  BY <1>1 DEF WholeInv
<1>2. WholeInPlace(c)
  BY DEF WholeInv
<1>3. CASE c # d
  <2>1. forwarded'[c] = forwarded[c] /\ Held(c)' = Held(c)
    BY <1>1, <1>3 DEF TypeOK, Held
  <2> QED
    BY <1>1, <1>2, <2>1, WholeUntouched
<1>4. CASE c = d
  <2> DEFINE w == written[c]
             t == Taken(c)
             old == forwarded[c]
             new == forwarded'[c]
  <2>1. /\ w \in Seq(Commands) /\ Len(w) \in Nat
        /\ old \in Seq(Seq(Byte)) /\ Len(old) \in Nat
    BY Types
  <2>2. Held(c) = 1 /\ Held(c)' = 0 /\ t = Len(old) + 1
    BY <1>1, <1>4, <2>1 DEF Taken, Held
  <2>3. new = Append(old, Message)
    BY <1>1, <1>4 DEF TypeOK
  <2>4. /\ IsRest(stream[c], w, 6 * t) /\ Message = FrameOf(w[t])
        /\ \A i \in 1 .. Len(old) : old[i] = FrameOf(w[i])
    BY <1>2, <2>2 DEF WholeInPlace
  <2>5. Message \in Seq(Byte)
    <3>1. 6 * t + Len(stream[c]) <= 6 * Len(w)
      BY <2>4 DEF IsRest
    <3>2. Len(stream[c]) \in Nat
      BY Types
    <3> HIDE DEF w, t, old
    <3> DEFINE len == Len(stream[c])
    <3>3. len \in Nat /\ 6 * t + len <= 6 * Len(w)
      BY <3>1, <3>2
    <3> HIDE DEF len
    <3>4. t \in 1 .. Len(w)
      BY ONLY <2>1, <2>2, <3>3
    <3>5. w[t] \in Commands
      BY ONLY <2>1, <3>4, ElementOfSeq
    <3> QED
      BY ONLY <2>4, <3>5, FrameBytes
  <2>t. Taken(c)' = Len(new) + Held(c)'
    BY DEF Taken
  <2> HIDE DEF w, t, old, new
  <2>6. /\ Len(new) = Len(old) + 1
        /\ \A i \in 1 .. Len(old) : new[i] = old[i]
        /\ new[Len(old) + 1] = Message
    BY ONLY <2>1, <2>3, <2>5, AppendProperties
  <2>7. Taken(c)' = t
    BY ONLY <2>1, <2>2, <2>6, <2>t
  <2>8. ASSUME NEW i \in 1 .. Len(new) PROVE new[i] = FrameOf(w[i])
    <3>1. i \in 1 .. Len(old) \/ i = t
      BY ONLY <2>1, <2>2, <2>6, i \in 1 .. Len(new)
    <3> QED
      BY ONLY <2>2, <2>4, <2>6, <3>1, Zenon
  <2>9. stream' = stream /\ written' = written /\ peer' = peer /\ w = written[c]
    BY <1>1 DEF w
  <2>10. \E k \in Nat : /\ Len(stream'[c]) = 6 * k
                        /\ peer'[c] # "vanished" => Taken(c)' + k = Len(written'[c])
    BY <1>2, <2>7, <2>9 DEF WholeInPlace, t
  <2>11. IsRest(stream'[c], written'[c], 6 * Taken(c)')
    BY ONLY <2>4, <2>7, <2>9, Zenon
  <2>12. \A i \in 1 .. Len(forwarded'[c]) : forwarded'[c][i] = FrameOf(written'[c][i])
    BY ONLY <2>8, <2>9, Zenon DEF new
  <2>13. Held(c)' = 1 => Message' = FrameOf(written'[c][Taken(c)'])
    <3>1. Held(c)' # 1
      BY ONLY <2>2
    <3> QED
      BY ONLY <3>1, Zenon
  <2> QED
    BY ONLY <2>10, <2>11, <2>12, <2>13, Zenon DEF WholeInPlace, IsRest
<1> QED
  BY <1>3, <1>4

(* At first nothing was written.                                            *)
LEMMA WholeInit == Init => WholeInv
<1> SUFFICES ASSUME Init, NEW c \in Connections PROVE WholeInPlace(c)
  BY DEF WholeInv
<1>1. /\ stream[c] = <<>> /\ written[c] = <<>> /\ forwarded[c] = <<>>
      /\ Held(c) = 0
  BY DEF Init, Held
<1>2. Len(stream[c]) = 0 /\ Len(written[c]) = 0 /\ Len(forwarded[c]) = 0
  BY <1>1
<1>3. Taken(c) = 0
  BY <1>1, <1>2 DEF Taken
<1>4. Len(stream[c]) = 6 * 0 /\ Taken(c) + 0 = Len(written[c])
  BY <1>2, <1>3
<1> QED
  BY <1>1, <1>2, <1>3, <1>4 DEF WholeInPlace, IsRest

(* Every step keeps the frames where they are said to be.                   *)
LEMMA WholeStep ==
    ASSUME TypeOK, Served, WholeInv, [Next]_vars
    PROVE  WholeInv'
<1>1. CASE \/ Accept \/ AcceptFails \/ RecvEnd \/ SendFails \/ TakeMessage
           \/ \E c \in Connections : Connect(c) \/ Close(c)
           \/ UNCHANGED vars
  BY <1>1, WholeQuietStep
<1>2. ASSUME NEW n \in 1 .. 6, Recv(n) PROVE WholeInv'
  BY <1>2, WholeRecvStep
<1>3. CASE Send
  BY <1>3, WholeSendStep
<1>4. ASSUME NEW c \in Connections, Vanish(c) PROVE WholeInv'
  BY <1>4, WholeVanishStep
<1>5. ASSUME NEW c \in Connections, NEW p \in Commands, Write(c, p)
      PROVE  WholeInv'
  BY <1>5, WholeWriteStep
<1> QED
  BY <1>1, <1>2, <1>3, <1>4, <1>5 DEF Next, SocketStep, ClientStep

(* The invariant gives the property.                                        *)
LEMMA WholeMeansNothingLost == TypeOK /\ WholeInv => NothingLost
<1> SUFFICES ASSUME TypeOK, WholeInv, whole, failures = 0, NEW c \in Connections
             PROVE  /\ Len(forwarded[c]) + UnderWay(c) <= Len(written[c])
                    /\ \A i \in DOMAIN forwarded[c] :
                          forwarded[c][i] = WrittenFrames(c)[i]
                    /\ peer[c] # "vanished" =>
                          Len(forwarded[c]) + UnderWay(c) = Len(written[c])
  BY DEF NothingLost
<1> DEFINE sent == Len(forwarded[c])
           all == Len(written[c])
           len == Len(stream[c])
<1>1. WholeInPlace(c)
  BY DEF WholeInv
<1>2. /\ sent \in Nat /\ all \in Nat /\ len \in Nat
      /\ DOMAIN forwarded[c] = 1 .. sent /\ DOMAIN written[c] = 1 .. all
  BY Types
<1>3. Held(c) \in {0, 1} /\ Taken(c) = sent + Held(c)
  BY TakenType DEF Taken
<1>4. PICK k \in Nat : len = 6 * k /\ (peer[c] # "vanished" => Taken(c) + k = all)
  BY <1>1 DEF WholeInPlace
<1>5. 6 * Taken(c) + len <= 6 * all
  BY <1>1 DEF WholeInPlace, IsRest
<1>6. \A i \in 1 .. sent : forwarded[c][i] = FrameOf(written[c][i])
  BY <1>1 DEF WholeInPlace
<1>7. UnderWay(c) = Held(c) + len \div 6
  BY DEF UnderWay, Held
<1> HIDE DEF sent, all, len
<1>8. UnderWay(c) = Held(c) + k
  <2>1. len \div 6 = k
    BY ONLY <1>4
  <2> QED
    BY ONLY <1>7, <2>1, Zenon
<1>9. /\ sent + UnderWay(c) = Taken(c) + k
      /\ Taken(c) + k <= all
  BY ONLY <1>2, <1>3, <1>4, <1>5, <1>8, SMTT(30)
<1>10. \A i \in 1 .. sent : i \in 1 .. all
  BY ONLY <1>2, <1>3, <1>4, <1>9
<1>11. \A i \in 1 .. sent : forwarded[c][i] = WrittenFrames(c)[i]
  BY <1>2, <1>6, <1>10 DEF WrittenFrames
<1> QED
  BY <1>2, <1>4, <1>9, <1>11 DEF sent, all

(* Nothing of what a client writes is lost or overtaken between its write   *)
(* and the queue, if frames arrive whole and no mq_send fails: recv(), the  *)
(* frame test and mq_send of socket_control_get.                            *)
THEOREM AllIsSentOn == Spec => []NothingLost
<1>1. Init => TypeOK /\ Served
  BY SocketAssumption DEF Init, TypeOK, Served, Cleared, Byte, None, Backlog
<1>2. TypeOK /\ Served /\ [Next]_vars => (TypeOK /\ Served)'
  BY StepTypes, ServedStep
<1>3. TypeOK /\ Served /\ WholeInv /\ [Next]_vars => WholeInv'
  BY WholeStep
<1> QED
  BY <1>1, <1>2, <1>3, WholeInit, WholeMeansNothingLost, PTL DEF Spec
===============================================================================
