------------------------------ MODULE VoiceProofs ------------------------------
(***************************************************************************)
(* Proofs about the voice link, for every way in which the serial line is   *)
(* cut, every set of commands and every size of the queue.                  *)
(***************************************************************************)
EXTENDS VoiceToReceive, SequenceTheorems, TLAPS

(* What is on the line is the rest of what was spoken: its i-th byte is     *)
(* byte r of the f-th frame, counted through.                               *)
LineIsRest ==
    \A i \in 1 .. Len(line) :
        \E f \in 1 .. Len(frames), r \in 1 .. 6 :
            /\ 6 * (f - 1) + r = 6 * Len(frames) - Len(line) + i
            /\ line[i] = FrameOf(frames[f])[r]

(* A message passed the frame test as far as it goes, and if it has a key   *)
(* it is a prefix of the frame of one of the pairs.                         *)
IsMessage(m, pairs) ==
    /\ m \in Seq(Byte) /\ Len(m) \in 1 .. 6
    /\ m[1] = 170
    /\ Len(m) >= 2 => m[2] = 85
    /\ Len(m) >= 5 => m[5] = 85
    /\ Len(m) = 6 => m[6] = 170
    /\ Len(m) >= 3 => \E p \in pairs : m = SubSeq(FrameOf(p), 1, Len(m))

QueueInv == \A i \in DOMAIN queue : IsMessage(queue[i], PairsSpoken)

Keys == {p[1] : p \in PairsSpoken}

(* A short message leaves byte 6 of receive_get's buffer at 0 and keeps a   *)
(* frame a frame, so the buffer passes the test from the first whole        *)
(* message on, which also brought a key.                                    *)
ReceiverInv ==
    /\ whole => IsFrame(received) /\ shared[3] \in Keys
    /\ ~whole => received[6] = 0

VoiceInv ==
    /\ TypeOK
    /\ LineIsRest
    /\ QueueInv
    /\ ReceiverInv
    /\ HandedKeysSpoken

-----------------------------------------------------------------------------
(* Facts about frames and buffers.                                          *)

(* The six bytes of a frame, of which only the first and the last are 0xAA. *)
LEMMA FrameBytes ==
    ASSUME NEW p \in Spoken
    PROVE  /\ FrameOf(p) \in Seq(Byte) /\ Len(FrameOf(p)) = 6
           /\ FrameOf(p)[1] = 170 /\ FrameOf(p)[2] = 85
           /\ FrameOf(p)[3] = p[1] /\ FrameOf(p)[4] = p[2]
           /\ FrameOf(p)[5] = 85 /\ FrameOf(p)[6] = 170
           /\ p[1] \in Byte /\ p[1] # 170 /\ p[2] \in Byte /\ p[2] # 170
BY VoiceAssumption DEF FrameOf, Byte

LEMMA FrameMiddle ==
    ASSUME NEW p \in Spoken
    PROVE  /\ FrameOf(p)[2] # 170 /\ FrameOf(p)[3] # 170
           /\ FrameOf(p)[4] # 170 /\ FrameOf(p)[5] # 170
<1>1. /\ FrameOf(p)[2] = 85 /\ FrameOf(p)[3] = p[1]
      /\ FrameOf(p)[4] = p[2] /\ FrameOf(p)[5] = 85
      /\ p[1] # 170 /\ p[2] # 170
  BY ONLY p \in Spoken, FrameBytes
<1> QED
  BY ONLY <1>1

(* A buffer after a read or a copy: the new bytes, then the old ones.       *)
LEMMA OverlayBytes ==
    ASSUME NEW b \in Seq(Byte), Len(b) = 6, NEW m \in Seq(Byte)
    PROVE  /\ Overlay(b, m) \in Seq(Byte) /\ Len(Overlay(b, m)) = 6
           /\ \A i \in 1 .. 6 :
                 Overlay(b, m)[i] = IF i <= Len(m) THEN m[i] ELSE b[i]
<1>1. ASSUME NEW i \in 1 .. 6
      PROVE  (IF i <= Len(m) THEN m[i] ELSE b[i]) \in Byte
  <2>0. i \in 1 .. Len(b)
    OBVIOUS
  <2>1. b[i] \in Byte
    BY <2>0, ElementOfSeq
  <2>2. CASE i <= Len(m)
    <3>1. i \in 1 .. Len(m)
      BY <2>2
    <3> QED
      BY <2>2, <3>1
  <2>3. CASE ~(i <= Len(m))
    BY <2>1, <2>3
  <2> QED
    BY <2>2, <2>3
<1>2. Overlay(b, m) \in [1 .. 6 -> Byte]
  BY <1>1 DEF Overlay
<1> QED
  BY <1>2 DEF Overlay

(* The bytes that one read returns, and those that stay.                    *)
LEMMA Piece ==
    ASSUME NEW s \in Seq(Byte), NEW n \in 1 .. 6, n <= Len(s)
    PROVE  /\ SubSeq(s, 1, n) \in Seq(Byte) /\ Len(SubSeq(s, 1, n)) = n
           /\ \A i \in 1 .. n : SubSeq(s, 1, n)[i] = s[i]
           /\ SubSeq(s, n + 1, Len(s)) \in Seq(Byte)
           /\ Len(SubSeq(s, n + 1, Len(s))) = Len(s) - n
           /\ \A i \in 1 .. Len(s) - n :
                 SubSeq(s, n + 1, Len(s))[i] = s[n + i]
<1>1. Len(s) \in Nat
  OBVIOUS
<1>2. \A i \in 1 .. n : s[i] \in Byte
  BY <1>1
<1>3. \A i \in n + 1 .. Len(s) : s[i] \in Byte
  BY <1>1
<1> QED
  BY <1>1, <1>2, <1>3, SubSeqProperties, SMTT(30)

(* Two sequences that begin with the same bytes have the same prefix.       *)
LEMMA SamePrefix ==
    ASSUME NEW s \in Seq(Byte), NEW t \in Seq(Byte), NEW n \in 1 .. 6,
           n <= Len(s), n <= Len(t), \A i \in 1 .. n : s[i] = t[i]
    PROVE  SubSeq(s, 1, n) = SubSeq(t, 1, n)
<1>1. /\ SubSeq(s, 1, n) \in Seq(Byte) /\ Len(SubSeq(s, 1, n)) = n
      /\ \A i \in 1 .. n : SubSeq(s, 1, n)[i] = s[i]
  BY Piece
<1>2. /\ SubSeq(t, 1, n) \in Seq(Byte) /\ Len(SubSeq(t, 1, n)) = n
      /\ \A i \in 1 .. n : SubSeq(t, 1, n)[i] = t[i]
  BY Piece
<1> QED
  BY <1>1, <1>2, SeqEqual

(* Counting through frames of six bytes is unique.                          *)
LEMMA SamePlace ==
    ASSUME NEW a \in Int, NEW f \in Nat, NEW h \in Nat,
           NEW r \in 1 .. 6, NEW t \in 1 .. 6, NEW i \in 0 .. 6, r + i <= 6,
           6 * (f - 1) + r = a, 6 * (h - 1) + t = a + i
    PROVE  h = f /\ t = r + i
OBVIOUS

LEMMA NextPlace ==
    ASSUME NEW a \in Int, NEW f \in Nat, NEW h \in Nat, NEW t \in 1 .. 6,
           6 * (f - 1) + 6 = a, 6 * (h - 1) + t = a + 1
    PROVE  t = 1
OBVIOUS

(* The bytes 0xAA 0x55 are next to each other only where a frame begins, so *)
(* what is read from there on is a prefix of that frame.                    *)
LEMMA PrefixOfFrame ==
    ASSUME TypeOK, LineIsRest, NEW n \in 3 .. 6, n <= Len(line),
           line[1] = 170, line[2] = 85
    PROVE  \E p \in PairsSpoken : SubSeq(line, 1, n) = SubSeq(FrameOf(p), 1, n)
<1>0. /\ Len(line) \in Nat /\ Len(frames) \in Nat /\ line \in Seq(Byte)
      /\ \A f \in 1 .. Len(frames) : frames[f] \in Spoken
      /\ \A i \in 1 .. n : i \in 1 .. Len(line)
      /\ 1 \in 1 .. Len(line) /\ 2 \in 1 .. Len(line)
  BY DEF TypeOK
<1> DEFINE spoken == 6 * Len(frames) - Len(line)
<1>p. spoken \in Int
  BY <1>0
<1>a. \A i \in 1 .. Len(line) :
         \E f \in 1 .. Len(frames), r \in 1 .. 6 :
            /\ 6 * (f - 1) + r = spoken + i
            /\ line[i] = FrameOf(frames[f])[r]
  BY DEF LineIsRest
<1> HIDE DEF spoken
<1>b. 1 \in 1 .. Len(line) /\ 2 \in 1 .. Len(line)
  BY <1>0
<1>1. PICK f \in 1 .. Len(frames), r \in 1 .. 6 :
           /\ 6 * (f - 1) + r = spoken + 1
           /\ line[1] = FrameOf(frames[f])[r]
  BY ONLY <1>a, <1>b, Zenon
<1>2. PICK g \in 1 .. Len(frames), q \in 1 .. 6 :
           /\ 6 * (g - 1) + q = spoken + 2
           /\ line[2] = FrameOf(frames[g])[q]
  BY ONLY <1>a, <1>b, Zenon
<1>3. r = 1
  <2>0. frames[f] \in Spoken /\ frames[g] \in Spoken
    BY <1>0
  <2> DEFINE bytes == FrameOf(frames[f])
  <2>b. bytes[2] # 170 /\ bytes[3] # 170 /\ bytes[4] # 170 /\ bytes[5] # 170
    BY ONLY <2>0, FrameMiddle
  <2> HIDE DEF bytes
  <2>1. r \in {1, 6}
    <3>1. bytes[r] = 170
      BY ONLY <1>1, line[1] = 170, Zenon DEF bytes
    <3> QED
      BY ONLY <2>b, <3>1, r \in 1 .. 6
  <2>2. r # 6
    <3> SUFFICES ASSUME r = 6 PROVE FALSE
      OBVIOUS
    <3>1. /\ spoken + 1 \in Int /\ f \in Nat /\ g \in Nat
          /\ 6 * (f - 1) + 6 = spoken + 1
          /\ 6 * (g - 1) + q = (spoken + 1) + 1
      BY <1>p, <1>0, <1>1, <1>2
    <3>2. q = 1
      BY <3>1, NextPlace
    <3> QED
      BY <1>2, <2>0, <3>2, FrameBytes, SMTT(30)
  <2> QED
    BY <2>1, <2>2
<1>4. ASSUME NEW i \in 1 .. n PROVE line[i] = FrameOf(frames[f])[i]
  <2>1. PICK h \in 1 .. Len(frames), t \in 1 .. 6 :
             /\ 6 * (h - 1) + t = spoken + i
             /\ line[i] = FrameOf(frames[h])[t]
    BY <1>0, <1>a, SMTT(30)
  <2>2. /\ spoken + 1 \in Int /\ f \in Nat /\ h \in Nat
        /\ i - 1 \in 0 .. 6 /\ 1 + (i - 1) <= 6
        /\ 6 * (f - 1) + 1 = spoken + 1
        /\ 6 * (h - 1) + t = (spoken + 1) + (i - 1)
    BY <1>p, <1>0, <1>1, <1>3, <2>1, SMTT(30)
  <2>3. h = f /\ t = 1 + (i - 1)
    BY <2>2, SamePlace, SMTT(30)
  <2> QED
    BY <2>1, <2>3
<1>5. FrameOf(frames[f]) \in Seq(Byte) /\ Len(FrameOf(frames[f])) = 6
  BY <1>0, FrameBytes
<1>6. SubSeq(line, 1, n) = SubSeq(FrameOf(frames[f]), 1, n)
  BY <1>0, <1>4, <1>5, SamePrefix
<1>7. frames[f] \in PairsSpoken
  BY <1>0 DEF PairsSpoken, TypeOK
<1> QED
  BY <1>6, <1>7

-----------------------------------------------------------------------------
(* The steps.                                                               *)

(* What has been spoken is never taken back.                                *)
LEMMA SpokenStays ==
    ASSUME frames \in Seq(Spoken), NEW p \in Spoken, frames' = Append(frames, p)
    PROVE  PairsSpoken \subseteq PairsSpoken' /\ Keys \subseteq Keys'
<1>1. /\ Len(frames') = Len(frames) + 1 /\ Len(frames) \in Nat
      /\ \A i \in 1 .. Len(frames) : frames'[i] = frames[i]
      /\ DOMAIN frames = 1 .. Len(frames) /\ DOMAIN frames' = 1 .. Len(frames')
  BY AppendProperties
<1> QED
  BY <1>1 DEF PairsSpoken, Keys

LEMMA MessageStays ==
    ASSUME NEW S, NEW T, S \subseteq T, NEW m, IsMessage(m, S)
    PROVE  IsMessage(m, T)
BY DEF IsMessage

LEMMA SpeakStep ==
    ASSUME VoiceInv, NEW p \in Spoken, Speak(p)
    PROVE  VoiceInv'
<1>1. /\ frames' = Append(frames, p) /\ line' = line \o FrameOf(p)
      /\ frames \in Seq(Spoken) /\ line \in Seq(Byte)
      /\ UNCHANGED <<pieces, buffer, queue, received, whole, shared, handed>>
  BY DEF Speak, VoiceInv, TypeOK
<1>2. PairsSpoken \subseteq PairsSpoken' /\ Keys \subseteq Keys'
  BY ONLY <1>1, SpokenStays
<1>3. /\ FrameOf(p) \in Seq(Byte) /\ Len(FrameOf(p)) = 6
  BY FrameBytes
<1> DEFINE bytes == FrameOf(p)
<1>4. /\ line' \in Seq(Byte) /\ Len(line') = Len(line) + 6
      /\ \A i \in 1 .. Len(line') :
            line'[i] = IF i <= Len(line) THEN line[i] ELSE bytes[i - Len(line)]
  <2>1. line' = line \o bytes /\ bytes \in Seq(Byte) /\ Len(bytes) = 6
    BY <1>1, <1>3
  <2>2. line \in Seq(Byte) /\ Len(line) \in Nat
    BY <1>1
  <2> HIDE DEF bytes
  <2>3. /\ line \o bytes \in Seq(Byte)
        /\ Len(line \o bytes) = Len(line) + Len(bytes)
        /\ \A i \in 1 .. Len(line) + Len(bytes) : (line \o bytes)[i] =
              IF i <= Len(line) THEN line[i] ELSE bytes[i - Len(line)]
    BY ONLY <2>1, <2>2, ConcatProperties
  <2> QED
    BY ONLY <2>1, <2>3, Zenon
<1>5. /\ frames' \in Seq(Spoken) /\ Len(frames') = Len(frames) + 1
      /\ \A f \in 1 .. Len(frames) : frames'[f] = frames[f]
      /\ frames'[Len(frames) + 1] = p
  BY <1>1, AppendProperties
<1>6. TypeOK'
  BY <1>1, <1>4, <1>5 DEF VoiceInv, TypeOK
<1>7. LineIsRest'
  <2> SUFFICES ASSUME NEW i \in 1 .. Len(line')
               PROVE  \E f \in 1 .. Len(frames'), r \in 1 .. 6 :
                          /\ 6 * (f - 1) + r = 6 * Len(frames') - Len(line') + i
                          /\ line'[i] = FrameOf(frames'[f])[r]
    BY DEF LineIsRest
  <2>0. Len(line) \in Nat /\ Len(frames) \in Nat
    BY <1>1
  <2>1. CASE i <= Len(line)
    <3>1. PICK f \in 1 .. Len(frames), r \in 1 .. 6 :
               /\ 6 * (f - 1) + r = 6 * Len(frames) - Len(line) + i
               /\ line[i] = FrameOf(frames[f])[r]
      <4>1. i \in 1 .. Len(line)
        BY <2>0, <2>1
      <4> QED
        BY <4>1 DEF VoiceInv, LineIsRest
    <3>2. /\ f \in 1 .. Len(frames') /\ line'[i] = FrameOf(frames'[f])[r]
      BY <1>4, <1>5, <2>0, <2>1, <3>1
    <3>3. 6 * (f - 1) + r = 6 * Len(frames') - Len(line') + i
      <4>1. Len(line') = Len(line) + 6 /\ Len(frames') = Len(frames) + 1
        BY <1>4, <1>5
      <4> QED
        BY ONLY <2>0, <3>1, <4>1, i \in Nat, f \in Nat, r \in Nat
    <3> QED
      BY <3>2, <3>3
  <2>2. CASE i > Len(line)
    <3> DEFINE f == Len(frames) + 1
               r == i - Len(line)
    <3>1. f \in 1 .. Len(frames') /\ r \in 1 .. 6
      BY <1>4, <1>5, <2>0, <2>2, SMTT(30)
    <3>2. 6 * (f - 1) + r = 6 * Len(frames') - Len(line') + i
      BY <1>4, <1>5, <2>0
    <3>3. line'[i] = FrameOf(frames'[f])[r]
      BY <1>4, <1>5, <2>0, <2>2
    <3> HIDE DEF f, r
    <3> QED
      BY ONLY <3>1, <3>2, <3>3
  <2>3. i <= Len(line) \/ i > Len(line)
    BY ONLY <2>0, i \in Nat
  <2> QED
    BY ONLY <2>1, <2>2, <2>3, Zenon
<1>8. QueueInv'
  BY <1>1, <1>2, MessageStays DEF VoiceInv, QueueInv
<1>9. ReceiverInv' /\ HandedKeysSpoken'
  BY <1>1, <1>2 DEF VoiceInv, ReceiverInv, HandedKeysSpoken, Keys
<1> QED
  BY <1>6, <1>7, <1>8, <1>9 DEF VoiceInv

(* The message of one read: bytes of the line that passed the test.         *)
LEMMA ReadMessage ==
    ASSUME TypeOK, LineIsRest, NEW n \in 1 .. 6, n <= Len(line),
           buffer' = Overlay(buffer, SubSeq(line, 1, n)), IsFrame(buffer')
    PROVE  IsMessage(SubSeq(buffer', 1, n), PairsSpoken)
<1> DEFINE m == SubSeq(line, 1, n)
<1>0. /\ buffer \in Seq(Byte) /\ Len(buffer) = 6 /\ line \in Seq(Byte)
  BY DEF TypeOK
<1>1. /\ m \in Seq(Byte) /\ Len(m) = n
      /\ \A i \in 1 .. n : m[i] = line[i]
  BY <1>0, Piece
<1>2. /\ buffer' \in Seq(Byte) /\ Len(buffer') = 6
      /\ \A i \in 1 .. 6 : buffer'[i] = IF i <= n THEN m[i] ELSE buffer[i]
  <2>1. buffer' = Overlay(buffer, m)
    OBVIOUS
  <2> HIDE DEF m
  <2> QED
    BY ONLY <1>0, <1>1, <2>1, OverlayBytes
<1>3. SubSeq(buffer', 1, n) = m
  <2>1. \A i \in 1 .. n : buffer'[i] = line[i]
    BY <1>1, <1>2, SMTT(30)
  <2> QED
    BY ONLY <1>0, <1>2, <2>1, SamePrefix, n \in 1 .. 6, n <= Len(line)
<1>4. /\ m[1] = 170
      /\ n >= 2 => m[2] = 85
      /\ n >= 5 => m[5] = 85
      /\ n = 6 => m[6] = 170
  <2> HIDE DEF m
  <2> QED
    BY <1>2 DEF IsFrame
<1>5. ASSUME n >= 3 PROVE \E p \in PairsSpoken : m = SubSeq(FrameOf(p), 1, n)
  <2>1. n \in 3 .. 6 /\ line[1] = 170 /\ line[2] = 85
    BY <1>1, <1>4, <1>5
  <2> QED
    BY <2>1, PrefixOfFrame
<1> HIDE DEF m
<1> QED
  BY <1>1, <1>3, <1>4, <1>5 DEF IsMessage

LEMMA ReadStep ==
    ASSUME VoiceInv, NEW n \in pieces, ReadAndSend(n)
    PROVE  VoiceInv'
<1> DEFINE m == SubSeq(buffer', 1, n)
<1>0. /\ n \in 1 .. 6 /\ n <= Len(line)
      /\ line \in Seq(Byte) /\ Len(line) \in Nat
      /\ frames \in Seq(Spoken) /\ Len(frames) \in Nat
      /\ queue \in Seq(Seq(Byte)) /\ Len(queue) \in Nat
      /\ buffer \in Seq(Byte) /\ Len(buffer) = 6
  <2>1. n \in 1 .. 6
    <3>1. pieces = WholeReads \/ pieces = AnyReads
      BY DEF VoiceInv, TypeOK
    <3>2. CASE pieces = WholeReads
      BY <3>2 DEF WholeReads
    <3>3. CASE pieces = AnyReads
      BY <3>3 DEF AnyReads
    <3> QED
      BY <3>1, <3>2, <3>3
  <2>2. n <= Len(line)
    BY DEF ReadAndSend
  <2>3. /\ line \in Seq(Byte) /\ frames \in Seq(Spoken) /\ queue \in Seq(Seq(Byte))
        /\ buffer \in Seq(Byte) /\ Len(buffer) = 6
    BY DEF VoiceInv, TypeOK
  <2> QED
    BY ONLY <2>1, <2>2, <2>3
<1>1. /\ line' = SubSeq(line, n + 1, Len(line))
      /\ buffer' = Overlay(buffer, SubSeq(line, 1, n))
      /\ IsFrame(buffer') => Len(queue) < QueueMax
      /\ queue' = IF IsFrame(buffer') THEN Append(queue, m) ELSE queue
      /\ UNCHANGED <<pieces, frames, received, whole, shared, handed>>
  BY DEF ReadAndSend
<1>2. /\ line' \in Seq(Byte) /\ Len(line') = Len(line) - n
      /\ \A i \in 1 .. Len(line) - n : line'[i] = line[n + i]
  BY ONLY <1>0, <1>1, Piece
<1>3. buffer' \in Seq(Byte) /\ Len(buffer') = 6
  <2>1. SubSeq(line, 1, n) \in Seq(Byte)
    BY ONLY <1>0, Piece
  <2> QED
    BY ONLY <1>0, <1>1, <2>1, OverlayBytes
<1>4. IsFrame(buffer') => IsMessage(m, PairsSpoken)
  BY <1>0, <1>1, ReadMessage DEF VoiceInv
<1>5. m \in Seq(Byte)
  BY ONLY <1>0, <1>3, Piece, n <= Len(buffer')
<1> HIDE DEF m
<1>6. PairsSpoken' = PairsSpoken
  BY <1>1 DEF PairsSpoken
<1>7. /\ queue' \in Seq(Seq(Byte)) /\ Len(queue') <= QueueMax
      /\ QueueInv'
  <2>1. CASE IsFrame(buffer')
    <3>1. /\ queue' = Append(queue, m) /\ Len(queue) < QueueMax
          /\ IsMessage(m, PairsSpoken)
      BY <1>1, <1>4, <2>1
    <3>2. /\ queue' \in Seq(Seq(Byte)) /\ Len(queue') = Len(queue) + 1
          /\ \A i \in 1 .. Len(queue) : queue'[i] = queue[i]
          /\ queue'[Len(queue) + 1] = m
      BY ONLY <1>0, <1>5, <3>1, AppendProperties
    <3>3. ASSUME NEW i \in DOMAIN queue'
          PROVE  IsMessage(queue'[i], PairsSpoken)
      <4>1. i \in 1 .. Len(queue) \/ i = Len(queue) + 1
        BY ONLY <1>0, <3>2, i \in DOMAIN queue'
      <4>2. \A j \in 1 .. Len(queue) : IsMessage(queue[j], PairsSpoken)
        BY <1>0 DEF VoiceInv, QueueInv
      <4> QED
        BY ONLY <3>1, <3>2, <4>1, <4>2
    <3>4. QueueMax \in Nat
      BY VoiceAssumption
    <3>5. Len(queue') <= QueueMax
      BY ONLY <1>0, <3>1, <3>2, <3>4
    <3>6. QueueInv'
      BY ONLY <1>6, <3>3, Zenon DEF QueueInv
    <3> QED
      BY ONLY <3>2, <3>5, <3>6
  <2>2. CASE ~IsFrame(buffer')
    BY <1>1, <1>6, <2>2 DEF VoiceInv, TypeOK, QueueInv
  <2> QED
    BY <2>1, <2>2
<1>8. TypeOK'
  BY <1>1, <1>2, <1>3, <1>7 DEF VoiceInv, TypeOK
<1>9. LineIsRest'
  <2> SUFFICES ASSUME NEW i \in 1 .. Len(line')
               PROVE  \E f \in 1 .. Len(frames'), r \in 1 .. 6 :
                          /\ 6 * (f - 1) + r = 6 * Len(frames') - Len(line') + i
                          /\ line'[i] = FrameOf(frames'[f])[r]
    BY DEF LineIsRest
  <2>0. i \in 1 .. Len(line) - n
    BY ONLY <1>2, i \in 1 .. Len(line'), Zenon
  <2>1. n + i \in 1 .. Len(line) /\ line'[i] = line[n + i]
    <3>1. n + i \in 1 .. Len(line)
      BY ONLY <1>0, <2>0
    <3> QED
      BY ONLY <1>2, <2>0, <3>1, Zenon
  <2>2. PICK f \in 1 .. Len(frames), r \in 1 .. 6 :
             /\ 6 * (f - 1) + r = 6 * Len(frames) - Len(line) + (n + i)
             /\ line[n + i] = FrameOf(frames[f])[r]
    BY <2>1 DEF VoiceInv, LineIsRest
  <2>3. 6 * (f - 1) + r = 6 * Len(frames) - Len(line') + i
    BY ONLY <1>0, <1>2, <2>2, i \in Nat, f \in Nat, r \in Nat
  <2> QED
    BY <1>1, <2>1, <2>2, <2>3
<1>10. ReceiverInv' /\ HandedKeysSpoken'
  BY <1>1, <1>6 DEF VoiceInv, ReceiverInv, HandedKeysSpoken, Keys
<1> QED
  BY <1>7, <1>8, <1>9, <1>10 DEF VoiceInv

(* A message received over an earlier one: the frame test passes exactly if *)
(* a whole message has come by now, and a key it brings was spoken.         *)
LEMMA ReceivedMessage ==
    ASSUME TypeOK, ReceiverInv, NEW m, IsMessage(m, PairsSpoken),
           received' = Overlay(received, m), whole' = (whole \/ Len(m) = 6)
    PROVE  /\ IsFrame(received') <=> whole'
           /\ ~whole' => received'[6] = 0
           /\ Len(m) >= 3 => m[3] \in Keys
<1>1. /\ received \in Seq(Byte) /\ Len(received) = 6
      /\ m \in Seq(Byte) /\ Len(m) \in 1 .. 6
  BY DEF TypeOK, IsMessage
<1>2. \A i \in 1 .. 6 : received'[i] = IF i <= Len(m) THEN m[i] ELSE received[i]
  BY ONLY <1>1, OverlayBytes, received' = Overlay(received, m)
<1>3. /\ received'[1] = 170
      /\ received'[2] = IF Len(m) >= 2 THEN 85 ELSE received[2]
      /\ received'[5] = IF Len(m) >= 5 THEN 85 ELSE received[5]
      /\ received'[6] = IF Len(m) = 6 THEN 170 ELSE received[6]
  BY <1>1, <1>2 DEF IsMessage
<1>4. IsFrame(received') <=> whole'
  <2>1. CASE Len(m) = 6
    <3>1. IsFrame(received')
      BY ONLY <1>3, <2>1 DEF IsFrame
    <3> QED
      BY <2>1, <3>1
  <2>2. CASE Len(m) # 6 /\ whole
    <3>1. IsFrame(received)
      BY ONLY <2>2, ReceiverInv, Zenon DEF ReceiverInv
    <3>2. IsFrame(received')
      BY ONLY <1>3, <2>2, <3>1 DEF IsFrame
    <3> QED
      BY <2>2, <3>2
  <2>3. CASE Len(m) # 6 /\ ~whole
    <3>1. received[6] = 0
      BY ONLY <2>3, ReceiverInv, Zenon DEF ReceiverInv
    <3>2. ~IsFrame(received')
      BY ONLY <1>3, <2>3, <3>1 DEF IsFrame
    <3>3. ~whole'
      BY <2>3
    <3> QED
      BY ONLY <3>2, <3>3, Zenon
  <2> QED
    BY <2>1, <2>2, <2>3, Zenon
<1>5. ~whole' => received'[6] = 0
  BY <1>3 DEF ReceiverInv
<1>6. ASSUME Len(m) >= 3 PROVE m[3] \in Keys
  <2>1. PICK p \in PairsSpoken : m = SubSeq(FrameOf(p), 1, Len(m))
    BY <1>6 DEF IsMessage
  <2>2. p \in Spoken
    BY DEF PairsSpoken, TypeOK
  <2>3. FrameOf(p) \in Seq(Byte) /\ Len(FrameOf(p)) = 6 /\ FrameOf(p)[3] = p[1]
    BY ONLY <2>2, FrameBytes
  <2>4. \A i \in 1 .. Len(m) : SubSeq(FrameOf(p), 1, Len(m))[i] = FrameOf(p)[i]
    <3>1. FrameOf(p) \in Seq(Byte) /\ Len(FrameOf(p)) = 6 /\ Len(m) \in 1 .. 6
      BY ONLY <1>1, <2>3, Zenon
    <3>2. Len(m) <= Len(FrameOf(p))
      <4> DEFINE l == Len(m)
                 w == Len(FrameOf(p))
      <4>1. l \in 1 .. 6 /\ w = 6
        BY ONLY <3>1
      <4> HIDE DEF l, w
      <4>2. l <= w
        BY ONLY <4>1
      <4> QED
        BY ONLY <4>2 DEF l, w
    <3> QED
      BY ONLY <3>1, <3>2, Piece, Zenon
  <2>5. m[3] = FrameOf(p)[3]
    <3>1. 3 \in 1 .. Len(m)
      BY <1>1, <1>6
    <3>2. SubSeq(FrameOf(p), 1, Len(m))[3] = FrameOf(p)[3]
      BY ONLY <2>4, <3>1, Zenon
    <3> QED
      BY ONLY <2>1, <3>2, Zenon
  <2> QED
    BY <2>3, <2>5 DEF Keys
<1> QED
  BY <1>4, <1>5, <1>6

LEMMA ReceiveStep ==
    ASSUME VoiceInv, Receive
    PROVE  VoiceInv' /\ FramedIsWhole'
<1> DEFINE m == Head(queue)
<1>1. /\ queue # <<>> /\ queue' = Tail(queue)
      /\ received' = Overlay(received, m)
      /\ whole' = (whole \/ Len(m) = 6)
      /\ IF IsFrame(received')
         THEN /\ shared' = Overlay(shared, m)
              /\ handed' = Append(handed, <<shared'[3], shared'[4]>>)
         ELSE shared' = shared /\ handed' = handed
      /\ UNCHANGED <<pieces, frames, line, buffer>>
  BY DEF Receive, CopyInto
<1>2. /\ queue \in Seq(Seq(Byte)) /\ Len(queue) \in Nat
      /\ received \in Seq(Byte) /\ Len(received) = 6
      /\ shared \in Seq(Byte) /\ Len(shared) = 6
      /\ handed \in Seq(Byte \X Byte) /\ Len(handed) \in Nat
      /\ Len(queue) <= QueueMax /\ whole \in BOOLEAN
  BY DEF VoiceInv, TypeOK
<1>3. /\ queue' \in Seq(Seq(Byte)) /\ Len(queue') = Len(queue) - 1
      /\ \A i \in 1 .. Len(queue') : queue'[i] = queue[i + 1]
  BY ONLY <1>1, <1>2, HeadTailProperties
<1>4. IsMessage(m, PairsSpoken)
  <2>1. 1 \in DOMAIN queue /\ m = queue[1]
    BY <1>1, <1>2
  <2> HIDE DEF m
  <2> QED
    BY <2>1 DEF VoiceInv, QueueInv
<1>5. m \in Seq(Byte) /\ Len(m) \in 1 .. 6
  BY <1>4 DEF IsMessage
<1> HIDE DEF m
<1>6. /\ IsFrame(received') <=> whole'
      /\ ~whole' => received'[6] = 0
      /\ Len(m) >= 3 => m[3] \in Keys
  BY <1>1, <1>4, ReceivedMessage DEF VoiceInv
<1>7. PairsSpoken' = PairsSpoken /\ Keys' = Keys
  BY <1>1 DEF PairsSpoken, Keys
<1>8. QueueInv'
  <2> SUFFICES ASSUME NEW i \in DOMAIN queue'
               PROVE  IsMessage(queue'[i], PairsSpoken)
    BY <1>7 DEF QueueInv
  <2>1. i \in 1 .. Len(queue') /\ i + 1 \in DOMAIN queue
    <3>1. DOMAIN queue' = 1 .. Len(queue') /\ DOMAIN queue = 1 .. Len(queue)
      BY ONLY <1>2, <1>3
    <3>2. i \in 1 .. Len(queue')
      BY ONLY <3>1, i \in DOMAIN queue', Zenon
    <3>3. i + 1 \in 1 .. Len(queue)
      <4>1. Len(queue) \in Nat /\ Len(queue') = Len(queue) - 1
        BY ONLY <1>2, <1>3, Zenon
      <4> QED
        BY ONLY <3>2, <4>1
    <3> QED
      BY ONLY <3>1, <3>2, <3>3, Zenon
  <2> QED
    BY <1>3, <2>1 DEF VoiceInv, QueueInv
<1>9. received' \in Seq(Byte) /\ Len(received') = 6
  BY ONLY <1>1, <1>2, <1>5, OverlayBytes
<1>10. /\ shared' \in Seq(Byte) /\ Len(shared') = 6
       /\ handed' \in Seq(Byte \X Byte)
       /\ whole' => shared'[3] \in Keys
       /\ \A i \in DOMAIN handed' : handed'[i][1] \in Keys
  <2>0. \A i \in DOMAIN handed : handed[i][1] \in Keys
    BY DEF VoiceInv, HandedKeysSpoken, Keys
  <2>1. CASE IsFrame(received')
    <3>1. /\ shared' = Overlay(shared, m)
          /\ handed' = Append(handed, <<shared'[3], shared'[4]>>)
      BY <1>1, <2>1
    <3>2. /\ shared' \in Seq(Byte) /\ Len(shared') = 6
          /\ \A i \in 1 .. 6 : shared'[i] = IF i <= Len(m) THEN m[i] ELSE shared[i]
      BY ONLY <1>2, <1>5, <3>1, OverlayBytes
    <3>3. shared'[3] \in Keys
      <4>1. CASE Len(m) >= 3
        BY <1>5, <1>6, <3>2, <4>1
      <4>2. CASE ~(Len(m) >= 3)
        <5>1. whole
          <6>1. Len(m) # 6
            BY ONLY <1>5, <4>2, SMTT(30)
          <6> QED
            BY ONLY <1>1, <1>6, <2>1, <6>1, Zenon
        <5> QED
          BY <1>5, <3>2, <4>2, <5>1 DEF VoiceInv, ReceiverInv
      <4> QED
        BY <4>1, <4>2
    <3>4. shared'[3] \in Byte /\ shared'[4] \in Byte
      <4>1. 3 \in 1 .. Len(shared') /\ 4 \in 1 .. Len(shared')
        BY <3>2
      <4> QED
        BY ONLY <3>2, <4>1, ElementOfSeq
    <3> DEFINE pair == <<shared'[3], shared'[4]>>
    <3>5. pair \in Byte \X Byte /\ pair[1] = shared'[3] /\ handed' = Append(handed, pair)
      BY <3>1, <3>4
    <3> HIDE DEF pair
    <3>6. /\ handed' \in Seq(Byte \X Byte) /\ Len(handed') = Len(handed) + 1
          /\ \A i \in 1 .. Len(handed) : handed'[i] = handed[i]
          /\ handed'[Len(handed) + 1] = pair
      BY ONLY <1>2, <3>5, AppendProperties
    <3>7. ASSUME NEW i \in DOMAIN handed' PROVE handed'[i][1] \in Keys
      <4>1. i \in 1 .. Len(handed) \/ i = Len(handed) + 1
        BY ONLY <1>2, <3>6, i \in DOMAIN handed'
      <4>2. \A j \in 1 .. Len(handed) : handed[j][1] \in Keys
        BY ONLY <1>2, <2>0
      <4> QED
        BY ONLY <3>3, <3>5, <3>6, <4>1, <4>2
    <3> QED
      BY <3>2, <3>3, <3>6, <3>7
  <2>2. CASE ~IsFrame(received')
    <3>1. shared' = shared /\ handed' = handed /\ ~whole'
      BY <1>1, <1>6, <2>2
    <3> QED
      BY <1>2, <2>0, <3>1
  <2> QED
    BY <2>1, <2>2
<1>11. TypeOK'
  <2>1. whole' \in BOOLEAN
    BY <1>1, <1>2
  <2>2. Len(queue') <= QueueMax
    BY <1>2, <1>3, VoiceAssumption
  <2> QED
    BY <1>1, <1>3, <1>9, <1>10, <2>1, <2>2 DEF VoiceInv, TypeOK
<1>12. LineIsRest'
  BY <1>1 DEF VoiceInv, LineIsRest
<1>13. ReceiverInv' /\ HandedKeysSpoken' /\ FramedIsWhole'
  BY <1>6, <1>7, <1>10 DEF ReceiverInv, HandedKeysSpoken, FramedIsWhole, Keys
<1> QED
  BY <1>8, <1>11, <1>12, <1>13 DEF VoiceInv

-----------------------------------------------------------------------------
(* The theorems.                                                            *)

LEMMA InitVoice == Init => VoiceInv /\ FramedIsWhole
<1> SUFFICES ASSUME Init PROVE VoiceInv /\ FramedIsWhole
  OBVIOUS
<1>1. TypeOK
  <2>1. /\ buffer = <<170, 85, 0, 0, 85, 170>>
        /\ received = <<0, 0, 0, 0, 0, 0>> /\ shared = received
    BY DEF Init, FrameOf, Cleared
  <2>2. /\ Len(buffer) = 6 /\ buffer \in Seq(Byte)
        /\ Len(received) = 6 /\ received \in Seq(Byte)
        /\ Len(shared) = 6 /\ shared \in Seq(Byte)
    BY ONLY <2>1 DEF Byte
  <2>3. /\ pieces \in {WholeReads, AnyReads} /\ frames = <<>> /\ line = <<>>
        /\ queue = <<>> /\ whole \in BOOLEAN /\ handed = <<>>
    BY DEF Init
  <2>4. Len(queue) <= QueueMax
    BY <2>3, VoiceAssumption
  <2> QED
    BY ONLY <2>2, <2>3, <2>4 DEF TypeOK
<1>2. LineIsRest /\ QueueInv /\ HandedKeysSpoken
  BY DEF Init, LineIsRest, QueueInv, HandedKeysSpoken
<1>3. ReceiverInv
  BY DEF Init, ReceiverInv, Cleared
<1>4. FramedIsWhole
  BY DEF Init, FramedIsWhole, Cleared, IsFrame
<1> QED
  BY <1>1, <1>2, <1>3, <1>4 DEF VoiceInv

LEMMA StepVoice ==
    ASSUME VoiceInv /\ FramedIsWhole, [Next]_vars
    PROVE  VoiceInv' /\ FramedIsWhole'
<1>1. CASE \E p \in Spoken : Speak(p)
  BY <1>1, SpeakStep, SMTT(30) DEF Speak, FramedIsWhole
<1>2. CASE \E n \in pieces : ReadAndSend(n)
  <2>1. PICK n \in pieces : ReadAndSend(n)
    BY <1>2
  <2>2. VoiceInv'
    BY <2>1, ReadStep
  <2>3. received' = received /\ whole' = whole
    BY <2>1 DEF ReadAndSend
  <2>4. FramedIsWhole'
    BY ONLY FramedIsWhole, <2>3 DEF FramedIsWhole, IsFrame
  <2> QED
    BY <2>2, <2>4
<1>3. CASE Receive
  BY <1>3, ReceiveStep
<1>4. CASE UNCHANGED vars
  <2>1. UNCHANGED <<pieces, frames, line, buffer, queue, received, whole,
                    shared, handed>>
    BY <1>4 DEF vars
  <2>2. TypeOK'
    BY <2>1 DEF VoiceInv, TypeOK
  <2>3. LineIsRest' /\ FramedIsWhole'
    BY <2>1 DEF VoiceInv, LineIsRest, FramedIsWhole
  <2>4. PairsSpoken' = PairsSpoken /\ Keys' = Keys
    BY <2>1 DEF PairsSpoken, Keys
  <2>5. QueueInv' /\ ReceiverInv' /\ HandedKeysSpoken'
    BY <2>1, <2>4 DEF VoiceInv, QueueInv, ReceiverInv, HandedKeysSpoken
  <2> QED
    BY <2>2, <2>3, <2>5 DEF VoiceInv
<1> QED
  BY <1>1, <1>2, <1>3, <1>4 DEF Next

LEMMA VoiceInvariant == Spec => [](VoiceInv /\ FramedIsWhole)
<1>1. Init => VoiceInv /\ FramedIsWhole
  BY InitVoice
<1>2. VoiceInv /\ FramedIsWhole /\ [Next]_vars => (VoiceInv /\ FramedIsWhole)'
  BY StepVoice
<1> QED
  BY <1>1, <1>2, PTL DEF Spec

(* A whole message that is received is handed over byte for byte.           *)
LEMMA WholeHanded ==
    ASSUME VoiceInv, Receive, ~(Len(Head(queue)) < 6)
    PROVE  /\ handed' = Append(handed, <<Head(queue)[3], Head(queue)[4]>>)
           /\ <<Head(queue)[3], Head(queue)[4]>> \in Byte \X Byte
<1> DEFINE m == Head(queue)
<1>1. /\ queue \in Seq(Seq(Byte)) /\ queue # <<>>
      /\ received \in Seq(Byte) /\ Len(received) = 6
      /\ shared \in Seq(Byte) /\ Len(shared) = 6
  BY DEF VoiceInv, TypeOK, Receive
<1>4. IsMessage(m, PairsSpoken)
  <2>1. 1 \in DOMAIN queue /\ m = queue[1]
    BY <1>1
  <2> HIDE DEF m
  <2> QED
    BY <2>1 DEF VoiceInv, QueueInv
<1>5. /\ received' = Overlay(received, m)
      /\ whole' = (whole \/ Len(m) = 6)
      /\ IsFrame(received') => /\ shared' = Overlay(shared, m)
                               /\ handed' = Append(handed, <<shared'[3], shared'[4]>>)
  BY DEF Receive, CopyInto
<1>a. ~(Len(m) < 6)
  OBVIOUS
<1>b. m \in Seq(Byte) /\ Len(m) \in 1 .. 6
  BY <1>4 DEF IsMessage
<1> HIDE DEF m
<1>6. m \in Seq(Byte) /\ Len(m) = 6
  <2>1. \A k \in 1 .. 6 : ~(k < 6) => k = 6
    OBVIOUS
  <2>2. Len(m) = 6
    BY ONLY <1>a, <1>b, <2>1, Zenon
  <2> QED
    BY <1>b, <2>2
<1>7. IsFrame(received')
  BY <1>4, <1>5, <1>6, ReceivedMessage DEF VoiceInv
<1>8. /\ shared' \in Seq(Byte) /\ Len(shared') = 6
      /\ shared'[3] = m[3] /\ shared'[4] = m[4]
  <2>1. shared' = Overlay(shared, m)
    BY <1>5, <1>7
  <2>2. /\ shared' \in Seq(Byte) /\ Len(shared') = 6
        /\ \A i \in 1 .. 6 : shared'[i] = IF i <= Len(m) THEN m[i] ELSE shared[i]
    BY ONLY <1>1, <1>6, <2>1, OverlayBytes
  <2> QED
    BY ONLY <1>6, <2>2
<1>9. handed' = Append(handed, <<m[3], m[4]>>)
  BY <1>5, <1>7, <1>8
<1>10. <<m[3], m[4]>> \in Byte \X Byte
  <2>1. 3 \in 1 .. Len(m) /\ 4 \in 1 .. Len(m)
    BY ONLY <1>6
  <2>2. m[3] \in Byte /\ m[4] \in Byte
    BY ONLY <1>6, <2>1, ElementOfSeq
  <2> QED
    BY <2>2
<1> QED
  BY <1>9, <1>10 DEF m

(* The only step that shortens the queue is a receive, and it hands over a  *)
(* whole message byte for byte.                                             *)
LEMMA HealStep ==
    ASSUME VoiceInv, [Next]_vars,
           queue # <<>>, queue' = Tail(queue), ~(Len(Head(queue)) < 6)
    PROVE  /\ Len(handed') = Len(handed) + 1
           /\ handed'[Len(handed')] = <<Head(queue)[3], Head(queue)[4]>>
<1>1. /\ queue \in Seq(Seq(Byte)) /\ Len(queue) \in Nat
      /\ handed \in Seq(Byte \X Byte) /\ Len(handed) \in Nat
  BY DEF VoiceInv, TypeOK
<1>2. Len(queue') = Len(queue) - 1
  BY ONLY <1>1, queue # <<>>, queue' = Tail(queue), HeadTailProperties
<1>3. Receive
  <2>1. ASSUME NEW p \in Spoken, Speak(p) PROVE FALSE
    <3>1. queue' = queue
      BY <2>1 DEF Speak
    <3> QED
      BY ONLY <1>1, <1>2, <3>1
  <2>2. ASSUME NEW n \in pieces, ReadAndSend(n) PROVE FALSE
    <3>1. queue' = IF IsFrame(buffer') THEN Append(queue, SubSeq(buffer', 1, n))
                                       ELSE queue
      BY <2>2 DEF ReadAndSend
    <3>2. VoiceInv'
      BY <2>2, ReadStep
    <3>3. queue' \in Seq(Seq(Byte))
      BY <3>2 DEF VoiceInv, TypeOK
    <3>4. CASE IsFrame(buffer')
      <4> DEFINE new == SubSeq(buffer', 1, n)
      <4>1. queue' = Append(queue, new)
        BY <3>1, <3>4
      <4> HIDE DEF new
      <4>2. Len(queue') = Len(queue) + 1
        BY ONLY <1>1, <4>1
      <4> QED
        BY ONLY <1>1, <1>2, <4>2
    <3>5. CASE ~IsFrame(buffer')
      <4>1. queue' = queue
        BY <3>1, <3>5
      <4> QED
        BY ONLY <1>1, <1>2, <4>1
    <3> QED
      BY <3>4, <3>5
  <2>3. ASSUME UNCHANGED vars PROVE FALSE
    <3>1. queue' = queue
      BY <2>3 DEF vars
    <3> QED
      BY ONLY <1>1, <1>2, <3>1
  <2> QED
    BY <2>1, <2>2, <2>3 DEF Next
<1> DEFINE pair == <<Head(queue)[3], Head(queue)[4]>>
<1>4. handed' = Append(handed, pair) /\ pair \in Byte \X Byte
  BY <1>3, WholeHanded
<1> HIDE DEF pair
<1>5. Len(handed') = Len(handed) + 1 /\ handed'[Len(handed) + 1] = pair
  BY ONLY <1>1, <1>4, AppendProperties
<1> QED
  BY <1>5 DEF pair

(* The state of the link is always well formed; the queue keeps its bound.  *)
THEOREM TypeCorrect == Spec => []TypeOK
<1>1. VoiceInv => TypeOK
  BY DEF VoiceInv
<1> QED
  BY <1>1, VoiceInvariant, PTL

(* However a line cuts its frames, a message with a key is a prefix of a    *)
(* frame that was sent (the sends of voice_get).                            *)
THEOREM QueuedPrefixes == Spec => []MessagesArePrefixes
<1>1. VoiceInv => MessagesArePrefixes
  <2> SUFFICES ASSUME VoiceInv, NEW i \in DOMAIN queue, Len(queue[i]) >= 3
               PROVE  \E p \in PairsSpoken :
                          queue[i] = SubSeq(FrameOf(p), 1, Len(queue[i]))
    BY DEF MessagesArePrefixes
  <2> QED
    BY DEF VoiceInv, QueueInv, IsMessage
<1> QED
  BY <1>1, VoiceInvariant, PTL

(* receive_get's test passes exactly when a whole message has ever come:    *)
(* the abstraction that module ReceiveInterface makes of these bytes.       *)
THEOREM FramedMeansWhole == Spec => []FramedIsWhole
BY VoiceInvariant, PTL

(* No handler finds a key that the voice module never sent.                 *)
THEOREM HandedWereSpoken == Spec => []HandedKeysSpoken
<1>1. VoiceInv => HandedKeysSpoken
  BY DEF VoiceInv
<1> QED
  BY <1>1, VoiceInvariant, PTL

(* From any reachable state on, a whole message that is received is handed  *)
(* over as it is, whatever cut messages left in the buffers.                *)
THEOREM LinkHeals == Spec => WholeMessageHeals
<1>1. VoiceInv /\ [Next]_vars
      => [\/ queue = <<>>
          \/ queue' # Tail(queue)
          \/ Len(Head(queue)) < 6
          \/ /\ Len(handed') = Len(handed) + 1
             /\ handed'[Len(handed')] = <<Head(queue)[3], Head(queue)[4]>>]_vars
  BY HealStep
<1> QED
  BY <1>1, VoiceInvariant, PTL DEF Spec, WholeMessageHeals
-----------------------------------------------------------------------------
(* With whole reads the link is a first-in first-out channel, step by step. *)

(* Whole reads leave whole frames on the line and in the queue.             *)
WholeFrames ==
    pieces = WholeReads =>
        /\ \E k \in Nat : Len(line) = 6 * k
        /\ \A i \in DOMAIN queue : Len(queue[i]) = 6

(* The pairs that the messages of a queue, and the frames on a line, carry. *)
InQueue(q) == [i \in DOMAIN q |-> <<q[i][3], q[i][4]>>]
OnLine(s)  == [i \in 1 .. Len(s) \div 6 |-> <<s[6 * i - 3], s[6 * i - 2]>>]

Pair == Byte \X Byte

(* The channel's pending values, in these terms.                            *)
LEMMA PendingIs == Pending = InQueue(queue) \o OnLine(line)
BY DEF Pending, InQueue, OnLine

(* The pairs in a queue of whole messages.                                  *)
LEMMA InQueueType ==
    ASSUME NEW q \in Seq(Seq(Byte)), \A i \in DOMAIN q : Len(q[i]) = 6
    PROVE  /\ InQueue(q) \in Seq(Pair) /\ Len(InQueue(q)) = Len(q)
           /\ \A i \in 1 .. Len(q) : InQueue(q)[i] = <<q[i][3], q[i][4]>>
<1>1. Len(q) \in Nat /\ DOMAIN q = 1 .. Len(q)
  OBVIOUS
<1>2. ASSUME NEW i \in 1 .. Len(q) PROVE <<q[i][3], q[i][4]>> \in Pair
  <2>1. q[i] \in Seq(Byte) /\ Len(q[i]) = 6
    <3>1. q[i] \in Seq(Byte)
      BY ElementOfSeq
    <3>2. i \in DOMAIN q
      BY ONLY <1>1, i \in 1 .. Len(q), Zenon
    <3> QED
      BY <3>1, <3>2
  <2> DEFINE m == q[i]
  <2>2. m \in Seq(Byte) /\ 3 \in 1 .. Len(m) /\ 4 \in 1 .. Len(m)
    BY <2>1
  <2> HIDE DEF m
  <2>3. m[3] \in Byte /\ m[4] \in Byte
    BY ONLY <2>2, ElementOfSeq
  <2> QED
    BY <2>3 DEF m, Pair
<1>3. InQueue(q) \in [1 .. Len(q) -> Pair]
  BY <1>1, <1>2 DEF InQueue
<1>4. \A i \in 1 .. Len(q) : InQueue(q)[i] = <<q[i][3], q[i][4]>>
  BY <1>1 DEF InQueue
<1> DEFINE s == InQueue(q)
           k == Len(q)
<1>5. s \in [1 .. k -> Pair] /\ k \in Nat
  BY <1>1, <1>3
<1> HIDE DEF s, k
<1>6. s \in Seq(Pair) /\ Len(s) = k
  BY ONLY <1>5
<1> QED
  BY <1>4, <1>6 DEF s, k

(* The pairs on a line that holds k whole frames.                           *)
LEMMA OnLineType ==
    ASSUME NEW s \in Seq(Byte), NEW k \in Nat, Len(s) = 6 * k
    PROVE  /\ OnLine(s) \in Seq(Pair) /\ Len(OnLine(s)) = k
           /\ \A i \in 1 .. k : OnLine(s)[i] = <<s[6 * i - 3], s[6 * i - 2]>>
<1>1. Len(s) \div 6 = k
  OBVIOUS
<1>2. ASSUME NEW i \in 1 .. k PROVE <<s[6 * i - 3], s[6 * i - 2]>> \in Pair
  <2>1. 6 * i - 3 \in 1 .. Len(s) /\ 6 * i - 2 \in 1 .. Len(s)
    OBVIOUS
  <2>2. s[6 * i - 3] \in Byte /\ s[6 * i - 2] \in Byte
    BY ONLY <2>1, ElementOfSeq, s \in Seq(Byte)
  <2> QED
    BY <2>2 DEF Pair
<1>3. OnLine(s) \in [1 .. k -> Pair]
  BY <1>1, <1>2 DEF OnLine
<1>4. \A i \in 1 .. k : OnLine(s)[i] = <<s[6 * i - 3], s[6 * i - 2]>>
  BY <1>1 DEF OnLine
<1> DEFINE t == OnLine(s)
<1>5. t \in [1 .. k -> Pair]
  BY <1>3
<1> HIDE DEF t
<1>6. t \in Seq(Pair) /\ Len(t) = k
  BY ONLY <1>5, k \in Nat
<1> QED
  BY <1>4, <1>6 DEF t

(* A value at the end, or taken from the front, of two joined sequences.    *)
LEMMA JoinAppend ==
    ASSUME NEW S, NEW a \in Seq(S), NEW b \in Seq(S), NEW e \in S
    PROVE  a \o Append(b, e) = Append(a \o b, e)
OBVIOUS

LEMMA JoinShift ==
    ASSUME NEW S, NEW a \in Seq(S), NEW b \in Seq(S), b # <<>>
    PROVE  Append(a, Head(b)) \o Tail(b) = a \o b
OBVIOUS

LEMMA JoinTail ==
    ASSUME NEW S, NEW a \in Seq(S), NEW b \in Seq(S), a # <<>>
    PROVE  /\ a \o b # <<>> /\ Head(a \o b) = Head(a)
           /\ Tail(a \o b) = Tail(a) \o b
OBVIOUS

-----------------------------------------------------------------------------
(* The steps of the link are steps of the channel.                          *)

(* A frame's first byte is the first of six.                                *)
LEMMA FirstPlace ==
    ASSUME NEW a \in Int, NEW f \in Nat, NEW r \in 1 .. 6,
           6 * (f - 1) + r = 6 * a + 1
    PROVE  r = 1
OBVIOUS

(* A read of six bytes takes the frame at the front of the line, which is   *)
(* the next that was spoken, and puts it into the queue.                    *)
LEMMA WholeRead ==
    ASSUME VoiceInv, WholeFrames, pieces = WholeReads, ReadAndSend(6)
    PROVE  \E p \in Spoken, k \in Nat :
              /\ Len(line) = 6 * (k + 1)
              /\ line[3] = p[1] /\ line[4] = p[2]
              /\ queue' = Append(queue, FrameOf(p))
              /\ line' = SubSeq(line, 7, Len(line))
<1>1. /\ line \in Seq(Byte) /\ Len(line) \in Nat /\ 6 <= Len(line)
      /\ frames \in Seq(Spoken) /\ Len(frames) \in Nat
      /\ buffer \in Seq(Byte) /\ Len(buffer) = 6
  BY DEF VoiceInv, TypeOK, ReadAndSend
<1>2. PICK k \in Nat : Len(line) = 6 * (k + 1)
  <2>1. PICK n \in Nat : Len(line) = 6 * n
    BY DEF WholeFrames
  <2>2. n - 1 \in Nat /\ Len(line) = 6 * ((n - 1) + 1)
    BY <1>1, <2>1
  <2> QED
    BY <2>2
<1>3. PICK f \in 1 .. Len(frames), r \in 1 .. 6 :
           /\ 6 * (f - 1) + r = 6 * Len(frames) - Len(line) + 1
           /\ line[1] = FrameOf(frames[f])[r]
  <2>1. 1 \in 1 .. Len(line)
    BY ONLY <1>1
  <2> QED
    BY <2>1 DEF VoiceInv, LineIsRest
<1>4. r = 1
  <2>1. /\ f \in Nat /\ Len(frames) - k - 1 \in Int
        /\ 6 * (f - 1) + r = 6 * (Len(frames) - k - 1) + 1
    BY <1>1, <1>2, <1>3, SMTT(30)
  <2> QED
    BY ONLY <2>1, FirstPlace, r \in 1 .. 6
<1> DEFINE p == frames[f]
<1>5. p \in Spoken
  BY <1>1
<1>6. ASSUME NEW i \in 1 .. 6 PROVE line[i] = FrameOf(p)[i]
  <2>1. PICK h \in 1 .. Len(frames), t \in 1 .. 6 :
             /\ 6 * (h - 1) + t = 6 * Len(frames) - Len(line) + i
             /\ line[i] = FrameOf(frames[h])[t]
    <3>1. i \in 1 .. Len(line)
      BY ONLY <1>1, i \in 1 .. 6
    <3> QED
      BY <3>1 DEF VoiceInv, LineIsRest
  <2> DEFINE a == 6 * Len(frames) - Len(line) + 1
  <2>2. /\ a \in Int /\ f \in Nat /\ h \in Nat
        /\ i - 1 \in 0 .. 6 /\ 1 + (i - 1) <= 6
        /\ 6 * (f - 1) + 1 = a /\ 6 * (h - 1) + t = a + (i - 1)
    <3>1. /\ a \in Int /\ f \in Nat /\ h \in Nat /\ 6 * (f - 1) + 1 = a
      BY <1>1, <1>3, <1>4
    <3>2. i - 1 \in 0 .. 6 /\ 1 + (i - 1) <= 6 /\ a + (i - 1) = a - 1 + i
      BY <3>1
    <3>3. a - 1 + i = 6 * Len(frames) - Len(line) + i
      BY <1>1
    <3> QED
      BY ONLY <2>1, <3>1, <3>2, <3>3, Zenon
  <2> HIDE DEF a
  <2>3. h = f /\ t = 1 + (i - 1)
    BY ONLY <2>2, SamePlace, t \in 1 .. 6, i \in 1 .. 6
  <2> QED
    BY ONLY <2>1, <2>3, i \in 1 .. 6
<1> HIDE DEF p
<1>7. /\ FrameOf(p) \in Seq(Byte) /\ Len(FrameOf(p)) = 6
      /\ FrameOf(p)[1] = 170 /\ FrameOf(p)[2] = 85
      /\ FrameOf(p)[3] = p[1] /\ FrameOf(p)[4] = p[2]
      /\ FrameOf(p)[5] = 85 /\ FrameOf(p)[6] = 170
  BY ONLY <1>5, FrameBytes
<1>8. /\ line' = SubSeq(line, 7, Len(line))
      /\ buffer' = Overlay(buffer, SubSeq(line, 1, 6))
      /\ IsFrame(buffer') => queue' = Append(queue, SubSeq(buffer', 1, 6))
  BY DEF ReadAndSend
<1> DEFINE m == SubSeq(line, 1, 6)
<1>9. m \in Seq(Byte) /\ Len(m) = 6 /\ \A i \in 1 .. 6 : m[i] = line[i]
  BY ONLY <1>1, Piece
<1>10. buffer' = Overlay(buffer, m)
  BY <1>8
<1> HIDE DEF m
<1>11. /\ buffer' \in Seq(Byte) /\ Len(buffer') = 6
       /\ \A i \in 1 .. 6 : buffer'[i] = IF i <= Len(m) THEN m[i] ELSE buffer[i]
  <2>1. /\ Overlay(buffer, m) \in Seq(Byte) /\ Len(Overlay(buffer, m)) = 6
        /\ \A i \in 1 .. 6 :
              Overlay(buffer, m)[i] = IF i <= Len(m) THEN m[i] ELSE buffer[i]
    BY ONLY <1>1, <1>9, OverlayBytes
  <2> QED
    BY ONLY <1>10, <2>1, Zenon
<1>12. \A i \in 1 .. 6 : buffer'[i] = FrameOf(p)[i]
  <2>1. \A i \in 1 .. 6 : buffer'[i] = m[i]
    BY ONLY <1>9, <1>11
  <2> QED
    BY ONLY <1>6, <1>9, <2>1, Zenon
<1>13. buffer' = FrameOf(p)
  <2> DEFINE b == buffer'
             c == FrameOf(p)
  <2>1. /\ b \in Seq(Byte) /\ c \in Seq(Byte) /\ Len(b) = 6 /\ Len(c) = 6
        /\ \A i \in 1 .. 6 : b[i] = c[i]
    BY <1>7, <1>11, <1>12
  <2> HIDE DEF b, c
  <2>2. b = c
    BY ONLY <2>1, SeqEqual
  <2> QED
    BY <2>2 DEF b, c
<1>14. IsFrame(buffer')
  BY ONLY <1>7, <1>13, Zenon DEF IsFrame
<1>15. SubSeq(buffer', 1, 6) = buffer'
  <2>1. /\ SubSeq(buffer', 1, 6) \in Seq(Byte) /\ Len(SubSeq(buffer', 1, 6)) = 6
        /\ \A i \in 1 .. 6 : SubSeq(buffer', 1, 6)[i] = buffer'[i]
    BY ONLY <1>11, Piece
  <2> QED
    BY ONLY <1>11, <2>1, SeqEqual
<1>16. queue' = Append(queue, FrameOf(p))
  BY ONLY <1>8, <1>13, <1>14, <1>15, Zenon
<1>17. line[3] = p[1] /\ line[4] = p[2]
  BY ONLY <1>6, <1>7
<1> QED
  BY <1>2, <1>5, <1>8, <1>16, <1>17

(* Speaking a pair adds it to what is pending.                              *)
LEMMA SpeakSends ==
    ASSUME VoiceInv, WholeFrames, pieces = WholeReads, NEW p \in Spoken, Speak(p)
    PROVE  WholeFrames' /\ Pending' = Append(Pending, p)
<1>1. /\ line \in Seq(Byte) /\ Len(line) \in Nat /\ queue \in Seq(Seq(Byte))
      /\ line' = line \o FrameOf(p) /\ queue' = queue /\ pieces' = pieces
  BY DEF VoiceInv, TypeOK, Speak
<1>2. /\ FrameOf(p) \in Seq(Byte) /\ Len(FrameOf(p)) = 6
      /\ FrameOf(p)[3] = p[1] /\ FrameOf(p)[4] = p[2]
      /\ p[1] \in Byte /\ p[2] \in Byte
  BY FrameBytes
<1>3. PICK k \in Nat : Len(line) = 6 * k
  BY DEF WholeFrames
<1> DEFINE bytes == FrameOf(p)
<1>4. line' = line \o bytes /\ bytes \in Seq(Byte) /\ Len(bytes) = 6
      /\ bytes[3] = p[1] /\ bytes[4] = p[2]
  BY <1>1, <1>2
<1> HIDE DEF bytes
<1>5. /\ line' \in Seq(Byte) /\ Len(line') = Len(line) + 6
      /\ \A i \in 1 .. Len(line) + 6 :
            line'[i] = IF i <= Len(line) THEN line[i] ELSE bytes[i - Len(line)]
  <2>1. /\ line \o bytes \in Seq(Byte)
        /\ Len(line \o bytes) = Len(line) + Len(bytes)
        /\ \A i \in 1 .. Len(line) + Len(bytes) : (line \o bytes)[i] =
              IF i <= Len(line) THEN line[i] ELSE bytes[i - Len(line)]
    BY ONLY <1>1, <1>4, ConcatProperties
  <2> QED
    BY ONLY <1>4, <2>1, Zenon
<1>6. k + 1 \in Nat /\ Len(line') = 6 * (k + 1)
  BY ONLY <1>3, <1>5
<1>7. WholeFrames'
  BY <1>1, <1>6 DEF WholeFrames
<1>8. /\ OnLine(line) \in Seq(Pair) /\ Len(OnLine(line)) = k
      /\ \A i \in 1 .. k : OnLine(line)[i] = <<line[6 * i - 3], line[6 * i - 2]>>
  BY ONLY <1>1, <1>3, OnLineType
<1>9. /\ OnLine(line') \in Seq(Pair) /\ Len(OnLine(line')) = k + 1
      /\ \A i \in 1 .. k + 1 :
            OnLine(line')[i] = <<line'[6 * i - 3], line'[6 * i - 2]>>
  BY ONLY <1>5, <1>6, OnLineType
<1>10. p \in Pair /\ p = <<p[1], p[2]>>
  BY VoiceAssumption DEF Pair, Byte
<1>11. OnLine(line') = Append(OnLine(line), p)
  <2>1. /\ Append(OnLine(line), p) \in Seq(Pair)
        /\ Len(Append(OnLine(line), p)) = k + 1
        /\ \A i \in 1 .. k : Append(OnLine(line), p)[i] = OnLine(line)[i]
        /\ Append(OnLine(line), p)[k + 1] = p
    BY ONLY <1>8, <1>10, AppendProperties
  <2>2. ASSUME NEW i \in 1 .. k + 1
        PROVE  OnLine(line')[i] = Append(OnLine(line), p)[i]
    <3>1. CASE i \in 1 .. k
      <4>1. /\ 6 * i - 3 \in 1 .. Len(line) + 6 /\ 6 * i - 3 <= Len(line)
            /\ 6 * i - 2 \in 1 .. Len(line) + 6 /\ 6 * i - 2 <= Len(line)
        BY ONLY <1>3, <3>1
      <4>2. line'[6 * i - 3] = line[6 * i - 3] /\ line'[6 * i - 2] = line[6 * i - 2]
        BY ONLY <1>5, <4>1
      <4> QED
        BY ONLY <1>8, <1>9, <2>1, <3>1, <4>2, i \in 1 .. k + 1
    <3>2. CASE i = k + 1
      <4>1. /\ 6 * i - 3 \in 1 .. Len(line) + 6 /\ ~(6 * i - 3 <= Len(line))
            /\ 6 * i - 2 \in 1 .. Len(line) + 6 /\ ~(6 * i - 2 <= Len(line))
            /\ 6 * i - 3 - Len(line) = 3 /\ 6 * i - 2 - Len(line) = 4
        BY ONLY <1>3, <3>2
      <4>2. line'[6 * i - 3] = bytes[3] /\ line'[6 * i - 2] = bytes[4]
        BY ONLY <1>5, <4>1
      <4>3. OnLine(line')[i] = <<line'[6 * i - 3], line'[6 * i - 2]>>
        BY ONLY <1>9, i \in 1 .. k + 1, Zenon
      <4> QED
        BY ONLY <1>4, <1>10, <2>1, <3>2, <4>2, <4>3, Zenon
    <3>3. i \in 1 .. k \/ i = k + 1
      BY ONLY k \in Nat, i \in 1 .. k + 1
    <3> QED
      BY ONLY <3>1, <3>2, <3>3, Zenon
  <2> QED
    BY ONLY <1>9, <2>1, <2>2, SeqEqual
<1>12. InQueue(queue) \in Seq(Pair) /\ InQueue(queue)' = InQueue(queue)
  BY <1>1, InQueueType DEF WholeFrames, InQueue
<1>13. Pending' = InQueue(queue) \o OnLine(line')
  BY <1>1 DEF Pending, InQueue, OnLine
<1>14. InQueue(queue) \o Append(OnLine(line), p)
       = Append(InQueue(queue) \o OnLine(line), p)
  BY ONLY <1>8, <1>10, <1>12, JoinAppend
<1> QED
  BY <1>7, <1>11, <1>13, <1>14, PendingIs

(* A read of a whole frame moves its pair from the line to the queue.       *)
LEMMA ReadKeepsPending ==
    ASSUME VoiceInv, WholeFrames, pieces = WholeReads, ReadAndSend(6)
    PROVE  WholeFrames' /\ Pending' = Pending
<1>1. /\ line \in Seq(Byte) /\ Len(line) \in Nat /\ queue \in Seq(Seq(Byte))
      /\ \A i \in DOMAIN queue : Len(queue[i]) = 6 /\ pieces' = pieces
  BY DEF VoiceInv, TypeOK, WholeFrames, ReadAndSend
<1>2. PICK p \in Spoken, k \in Nat :
           /\ Len(line) = 6 * (k + 1)
           /\ line[3] = p[1] /\ line[4] = p[2]
           /\ queue' = Append(queue, FrameOf(p))
           /\ line' = SubSeq(line, 7, Len(line))
  BY WholeRead
<1> DEFINE rest == SubSeq(line, 7, Len(line))
           bytes == FrameOf(p)
           grown == Append(queue, bytes)
<1>3. /\ bytes \in Seq(Byte) /\ Len(bytes) = 6
      /\ bytes[3] = p[1] /\ bytes[4] = p[2] /\ <<p[1], p[2]>> \in Pair
  BY FrameBytes DEF Pair
<1>4. /\ rest \in Seq(Byte) /\ Len(rest) = 6 * k
      /\ \A i \in 1 .. 6 * k : rest[i] = line[6 + i]
  <2>1. /\ SubSeq(line, 6 + 1, Len(line)) \in Seq(Byte)
        /\ Len(SubSeq(line, 6 + 1, Len(line))) = Len(line) - 6
        /\ \A i \in 1 .. Len(line) - 6 :
              SubSeq(line, 6 + 1, Len(line))[i] = line[6 + i]
    <3>1. 6 <= Len(line)
      BY ONLY <1>1, <1>2, k \in Nat
    <3> QED
      BY ONLY <1>1, <3>1, Piece, 6 \in 1 .. 6
  <2>2. 6 + 1 = 7 /\ Len(line) - 6 = 6 * k
    BY ONLY <1>2, k \in Nat
  <2> QED
    BY ONLY <2>1, <2>2, Zenon
<1>5. line' = rest /\ queue' = grown
  BY <1>2
<1> HIDE DEF bytes, rest
<1>6. /\ grown \in Seq(Seq(Byte)) /\ Len(grown) = Len(queue) + 1
      /\ \A i \in 1 .. Len(queue) : grown[i] = queue[i]
      /\ grown[Len(queue) + 1] = bytes
      /\ Len(queue) \in Nat /\ DOMAIN queue = 1 .. Len(queue)
      /\ DOMAIN grown = 1 .. Len(queue) + 1
  <2>1. Len(queue) \in Nat /\ DOMAIN queue = 1 .. Len(queue)
    BY <1>1
  <2>2. /\ grown \in Seq(Seq(Byte)) /\ Len(grown) = Len(queue) + 1
        /\ \A i \in 1 .. Len(queue) : grown[i] = queue[i]
        /\ grown[Len(queue) + 1] = bytes
    BY ONLY <1>1, <1>3, AppendProperties
  <2>3. DOMAIN grown = 1 .. Len(grown)
    BY <2>2
  <2> QED
    BY ONLY <2>1, <2>2, <2>3, Zenon
<1> HIDE DEF grown
<1>7. \A i \in DOMAIN grown : Len(grown[i]) = 6
  <2>1. \A i \in 1 .. Len(queue) + 1 : i \in 1 .. Len(queue) \/ i = Len(queue) + 1
    BY ONLY <1>6
  <2> QED
    BY ONLY <1>1, <1>3, <1>6, <2>1, Zenon
<1>8. WholeFrames'
  BY <1>4, <1>5, <1>7 DEF WholeFrames
<1>9. InQueue(queue) \in Seq(Pair) /\ Len(InQueue(queue)) = Len(queue)
      /\ \A i \in 1 .. Len(queue) : InQueue(queue)[i] = <<queue[i][3], queue[i][4]>>
  BY ONLY <1>1, InQueueType
<1>10. InQueue(grown) \in Seq(Pair) /\ Len(InQueue(grown)) = Len(queue) + 1
       /\ \A i \in 1 .. Len(queue) + 1 :
             InQueue(grown)[i] = <<grown[i][3], grown[i][4]>>
  <2>1. /\ InQueue(grown) \in Seq(Pair) /\ Len(InQueue(grown)) = Len(grown)
        /\ \A i \in 1 .. Len(grown) :
              InQueue(grown)[i] = <<grown[i][3], grown[i][4]>>
    BY ONLY <1>6, <1>7, InQueueType
  <2> QED
    BY ONLY <1>6, <2>1, Zenon
<1> DEFINE front == <<p[1], p[2]>>
<1>f. front \in Pair
  BY <1>3
<1>11. InQueue(grown) = Append(InQueue(queue), front)
  <2> DEFINE longer == Append(InQueue(queue), front)
  <2>1. /\ longer \in Seq(Pair)
        /\ Len(longer) = Len(queue) + 1
        /\ \A i \in 1 .. Len(queue) : longer[i] = InQueue(queue)[i]
        /\ longer[Len(queue) + 1] = front
    <3> HIDE DEF front
    <3> QED
      BY ONLY <1>f, <1>9, AppendProperties
  <2>2. ASSUME NEW i \in 1 .. Len(queue) + 1
        PROVE  InQueue(grown)[i] = longer[i]
    <3> HIDE DEF longer
    <3>1. i \in 1 .. Len(queue) \/ i = Len(queue) + 1
      BY ONLY <1>6, i \in 1 .. Len(queue) + 1
    <3>2. InQueue(grown)[i] = <<grown[i][3], grown[i][4]>>
      BY ONLY <1>10, i \in 1 .. Len(queue) + 1, Zenon
    <3>3. CASE i \in 1 .. Len(queue)
      BY ONLY <1>6, <1>9, <2>1, <3>2, <3>3, Zenon
    <3>4. CASE i = Len(queue) + 1
      BY ONLY <1>3, <1>6, <2>1, <3>2, <3>4, Zenon DEF front
    <3> QED
      BY ONLY <3>1, <3>3, <3>4, Zenon
  <2> HIDE DEF longer
  <2>3. InQueue(grown) = longer
    BY ONLY <1>10, <2>1, <2>2, SeqEqual
  <2> QED
    BY ONLY <2>3 DEF longer
<1>12. /\ OnLine(line) \in Seq(Pair) /\ Len(OnLine(line)) = k + 1
       /\ \A i \in 1 .. k + 1 :
             OnLine(line)[i] = <<line[6 * i - 3], line[6 * i - 2]>>
  <2>1. k + 1 \in Nat
    BY k \in Nat
  <2> QED
    BY ONLY <1>1, <1>2, <2>1, OnLineType
<1>13. /\ OnLine(rest) \in Seq(Pair) /\ Len(OnLine(rest)) = k
       /\ \A i \in 1 .. k : OnLine(rest)[i] = <<rest[6 * i - 3], rest[6 * i - 2]>>
  BY ONLY <1>4, OnLineType, k \in Nat
<1>14. OnLine(line) # <<>> /\ Head(OnLine(line)) = front
  <2> DEFINE on == OnLine(line)
  <2>1. on \in Seq(Pair) /\ Len(on) = k + 1 /\ on[1] = front
    <3>1. 1 \in 1 .. k + 1 /\ 6 * 1 - 3 = 3 /\ 6 * 1 - 2 = 4
      BY ONLY k \in Nat
    <3>2. on[1] = <<line[3], line[4]>>
      BY ONLY <1>12, <3>1, Zenon
    <3> QED
      BY <1>2, <1>12, <3>2
  <2> HIDE DEF on, front
  <2>2. on # <<>> /\ Head(on) = front
    BY ONLY <2>1, k \in Nat
  <2> QED
    BY <2>2 DEF on
<1>15. OnLine(rest) = Tail(OnLine(line))
  <2>1. /\ Tail(OnLine(line)) \in Seq(Pair)
        /\ Len(Tail(OnLine(line))) = Len(OnLine(line)) - 1
        /\ \A i \in 1 .. Len(Tail(OnLine(line))) :
              Tail(OnLine(line))[i] = OnLine(line)[i + 1]
    BY ONLY <1>12, <1>14, HeadTailProperties
  <2>2. Len(Tail(OnLine(line))) = k
    BY ONLY <1>12, <2>1, k \in Nat
  <2>3. ASSUME NEW i \in 1 .. k PROVE OnLine(rest)[i] = Tail(OnLine(line))[i]
    <3>1. /\ 6 * i - 3 \in 1 .. 6 * k /\ 6 * i - 2 \in 1 .. 6 * k
          /\ 6 + (6 * i - 3) = 6 * (i + 1) - 3
          /\ 6 + (6 * i - 2) = 6 * (i + 1) - 2
          /\ i + 1 \in 1 .. k + 1
      BY ONLY k \in Nat, i \in 1 .. k
    <3>2. /\ rest[6 * i - 3] = line[6 * (i + 1) - 3]
          /\ rest[6 * i - 2] = line[6 * (i + 1) - 2]
      BY ONLY <1>4, <3>1, Zenon
    <3>3. OnLine(line)[i + 1] = <<line[6 * (i + 1) - 3], line[6 * (i + 1) - 2]>>
      BY ONLY <1>12, <3>1, Zenon
    <3>4. OnLine(rest)[i] = <<rest[6 * i - 3], rest[6 * i - 2]>>
      BY ONLY <1>13, i \in 1 .. k, Zenon
    <3>5. Tail(OnLine(line))[i] = OnLine(line)[i + 1]
      BY ONLY <2>1, <2>2, i \in 1 .. k, Zenon
    <3> QED
      BY ONLY <3>2, <3>3, <3>4, <3>5, Zenon
  <2> QED
    BY ONLY <1>13, <2>1, <2>2, <2>3, SeqEqual
<1>16. Pending' = InQueue(grown) \o OnLine(rest)
  BY <1>5 DEF Pending, InQueue, OnLine
<1> HIDE DEF front
<1>17. Append(InQueue(queue), Head(OnLine(line))) \o Tail(OnLine(line))
       = InQueue(queue) \o OnLine(line)
  BY ONLY <1>9, <1>12, <1>14, JoinShift
<1> QED
  BY ONLY <1>8, <1>11, <1>14, <1>15, <1>16, <1>17, PendingIs, Zenon

(* A receive delivers the pair that has been pending longest.               *)
LEMMA ReceiveDelivers ==
    ASSUME VoiceInv, WholeFrames, pieces = WholeReads, Receive
    PROVE  /\ WholeFrames' /\ Pending # <<>>
           /\ Pending' = Tail(Pending)
           /\ handed' = Append(handed, Head(Pending))
<1> DEFINE rest == Tail(queue)
<1>1. /\ queue \in Seq(Seq(Byte)) /\ queue # <<>> /\ queue' = rest
      /\ Len(queue) \in Nat /\ DOMAIN queue = 1 .. Len(queue)
      /\ \A i \in DOMAIN queue : Len(queue[i]) = 6
      /\ line \in Seq(Byte) /\ line' = line /\ pieces' = pieces
  BY DEF VoiceInv, TypeOK, WholeFrames, Receive
<1>2. /\ rest \in Seq(Seq(Byte)) /\ Len(rest) = Len(queue) - 1
      /\ \A i \in 1 .. Len(rest) : rest[i] = queue[i + 1]
  BY ONLY <1>1, HeadTailProperties
<1>3. 1 \in 1 .. Len(queue) /\ Head(queue) = queue[1]
  BY ONLY <1>1
<1> HIDE DEF rest
<1>4. DOMAIN rest = 1 .. Len(rest)
  BY ONLY <1>2
<1>5. \A i \in 1 .. Len(rest) : i + 1 \in 1 .. Len(queue)
  BY ONLY <1>1, <1>2
<1>6. ASSUME NEW i \in DOMAIN rest PROVE Len(rest[i]) = 6
  <2>1. i \in 1 .. Len(rest)
    BY ONLY <1>4, i \in DOMAIN rest, Zenon
  <2>2. i + 1 \in DOMAIN queue /\ rest[i] = queue[i + 1]
    BY ONLY <1>1, <1>2, <1>5, <2>1, Zenon
  <2> DEFINE j == i + 1
  <2>3. j \in DOMAIN queue /\ rest[i] = queue[j]
    BY <2>2
  <2> HIDE DEF j
  <2> QED
    BY ONLY <1>1, <2>3, Zenon
<1>7. WholeFrames'
  BY <1>1, <1>6 DEF WholeFrames
<1>8. /\ InQueue(queue) \in Seq(Pair) /\ Len(InQueue(queue)) = Len(queue)
      /\ \A i \in 1 .. Len(queue) : InQueue(queue)[i] = <<queue[i][3], queue[i][4]>>
  BY ONLY <1>1, InQueueType
<1>9. /\ InQueue(rest) \in Seq(Pair) /\ Len(InQueue(rest)) = Len(rest)
      /\ \A i \in 1 .. Len(rest) : InQueue(rest)[i] = <<rest[i][3], rest[i][4]>>
  BY ONLY <1>2, <1>6, InQueueType
<1> DEFINE carried == InQueue(queue)
<1>10. carried # <<>> /\ Head(carried) = <<Head(queue)[3], Head(queue)[4]>>
  <2>1. carried \in Seq(Pair) /\ 1 \in 1 .. Len(carried)
    BY <1>3, <1>8
  <2>2. carried[1] = <<queue[1][3], queue[1][4]>>
    BY <1>3, <1>8
  <2> HIDE DEF carried
  <2>3. carried # <<>> /\ Head(carried) = carried[1]
    BY ONLY <2>1
  <2> QED
    BY ONLY <1>3, <2>2, <2>3, Zenon
<1>11. InQueue(rest) = Tail(carried)
  <2>1. /\ Tail(carried) \in Seq(Pair)
        /\ Len(Tail(carried)) = Len(carried) - 1
        /\ \A i \in 1 .. Len(Tail(carried)) : Tail(carried)[i] = carried[i + 1]
    <3>1. carried \in Seq(Pair) /\ carried # <<>>
      BY <1>8, <1>10
    <3> HIDE DEF carried
    <3> QED
      BY ONLY <3>1, HeadTailProperties
  <2>2. Len(Tail(carried)) = Len(rest)
    BY <1>2, <1>8, <2>1
  <2>3. ASSUME NEW i \in 1 .. Len(rest) PROVE InQueue(rest)[i] = Tail(carried)[i]
    <3>1. Tail(carried)[i] = carried[i + 1]
      BY ONLY <2>1, <2>2, i \in 1 .. Len(rest), Zenon
    <3>2. carried[i + 1] = <<queue[i + 1][3], queue[i + 1][4]>>
      BY ONLY <1>5, <1>8, i \in 1 .. Len(rest), Zenon
    <3>3. InQueue(rest)[i] = <<queue[i + 1][3], queue[i + 1][4]>>
      BY ONLY <1>2, <1>9, i \in 1 .. Len(rest), Zenon
    <3> QED
      BY ONLY <3>1, <3>2, <3>3, Zenon
  <2> HIDE DEF carried
  <2> QED
    BY ONLY <1>9, <2>1, <2>2, <2>3, SeqEqual
<1>12. OnLine(line) \in Seq(Pair)
  <2>1. PICK k \in Nat : Len(line) = 6 * k
    BY DEF WholeFrames
  <2> QED
    BY ONLY <1>1, <2>1, OnLineType
<1>13. Pending' = InQueue(rest) \o OnLine(line)
  BY <1>1 DEF Pending, InQueue, OnLine
<1>14. /\ carried \o OnLine(line) # <<>>
       /\ Head(carried \o OnLine(line)) = Head(carried)
       /\ Tail(carried \o OnLine(line)) = Tail(carried) \o OnLine(line)
  <2>1. carried \in Seq(Pair) /\ carried # <<>>
    BY <1>8, <1>10
  <2> HIDE DEF carried
  <2> QED
    BY ONLY <1>12, <2>1, JoinTail
<1>15. handed' = Append(handed, <<Head(queue)[3], Head(queue)[4]>>)
  <2> DEFINE m == Head(queue)
  <2>1. Len(m) = 6
    BY <1>1, <1>3
  <2> HIDE DEF m
  <2>2. ~(Len(m) < 6)
    BY ONLY <2>1
  <2> QED
    BY <2>2, WholeHanded DEF m
<1>16. Pending = carried \o OnLine(line)
  BY PendingIs
<1> HIDE DEF carried
<1> QED
  BY ONLY <1>7, <1>10, <1>11, <1>13, <1>14, <1>15, <1>16, Zenon

(* A step of the link, seen through the mapping: it sends, delivers, or     *)
(* leaves the channel as it is.                                             *)
LEMMA LinkStep ==
    ASSUME VoiceInv, WholeFrames, [Next]_vars
    PROVE  WholeFrames' /\ [Channel!Next]_(Channel!vars)
<1>1. pieces' = pieces
  BY DEF Next, vars, Speak, ReadAndSend, Receive
<1>2. CASE pieces # WholeReads
  <2>1. WholeFrames'
    BY <1>1, <1>2 DEF WholeFrames
  <2>2. /\ IfWhole(frames) = <<>> /\ IfWhole(Pending) = <<>> /\ IfWhole(handed) = <<>>
    BY <1>2 DEF IfWhole
  <2>3. IfWhole(frames)' = <<>> /\ IfWhole(Pending)' = <<>> /\ IfWhole(handed)' = <<>>
    BY <1>1, <1>2 DEF IfWhole
  <2> QED
    BY <2>1, <2>2, <2>3 DEF Channel!vars
<1>3. CASE pieces = WholeReads
  <2>1. /\ IfWhole(frames) = frames /\ IfWhole(Pending) = Pending
        /\ IfWhole(handed) = handed
    BY <1>3 DEF IfWhole
  <2>2. /\ IfWhole(frames)' = frames' /\ IfWhole(Pending)' = Pending'
        /\ IfWhole(handed)' = handed'
    BY <1>1, <1>3 DEF IfWhole
  <2>3. ASSUME NEW p \in Spoken, Speak(p)
        PROVE  WholeFrames' /\ [Channel!Next]_(Channel!vars)
    <3>1. WholeFrames' /\ Pending' = Append(Pending, p)
      BY <1>3, <2>3, SpeakSends
    <3>2. /\ Len(frames) < MaxFrames /\ frames' = Append(frames, p)
          /\ handed' = handed
      BY <2>3 DEF Speak
    <3>3. Channel!Send(p)
      BY <2>1, <2>2, <3>1, <3>2 DEF Channel!Send
    <3> QED
      BY <3>1, <3>3 DEF Channel!Next
  <2>4. ASSUME NEW n \in pieces, ReadAndSend(n)
        PROVE  WholeFrames' /\ [Channel!Next]_(Channel!vars)
    <3>1. n = 6
      BY <1>3 DEF WholeReads
    <3>2. WholeFrames' /\ Pending' = Pending
      BY <1>3, <2>4, <3>1, ReadKeepsPending
    <3>3. frames' = frames /\ handed' = handed
      BY <2>4 DEF ReadAndSend
    <3> QED
      BY <2>1, <2>2, <3>2, <3>3 DEF Channel!vars
  <2>5. ASSUME Receive
        PROVE  WholeFrames' /\ [Channel!Next]_(Channel!vars)
    <3>1. /\ WholeFrames' /\ Pending # <<>>
          /\ Pending' = Tail(Pending)
          /\ handed' = Append(handed, Head(Pending))
      BY <1>3, <2>5, ReceiveDelivers
    <3>2. frames' = frames
      BY <2>5 DEF Receive
    <3>3. Channel!Deliver
      BY <2>1, <2>2, <3>1, <3>2 DEF Channel!Deliver
    <3> QED
      BY <3>1, <3>3 DEF Channel!Next
  <2>6. ASSUME UNCHANGED vars
        PROVE  WholeFrames' /\ [Channel!Next]_(Channel!vars)
    <3>1. UNCHANGED <<pieces, frames, line, queue, handed>>
      BY <2>6 DEF vars
    <3>2. WholeFrames'
      BY <3>1 DEF WholeFrames
    <3>3. Pending' = Pending
      BY <3>1 DEF Pending
    <3> QED
      BY <2>1, <2>2, <3>1, <3>2, <3>3 DEF Channel!vars
  <2> QED
    BY <2>3, <2>4, <2>5, <2>6 DEF Next
<1> QED
  BY <1>2, <1>3

(* The first state of the link is that of the channel.                      *)
LEMMA LinkInit == Init => WholeFrames /\ Channel!Init
<1> SUFFICES ASSUME Init PROVE WholeFrames /\ Channel!Init
  OBVIOUS
<1>1. frames = <<>> /\ line = <<>> /\ queue = <<>> /\ handed = <<>>
  BY DEF Init
<1>2. WholeFrames
  <2>1. Len(line) = 6 * 0
    BY <1>1
  <2> QED
    BY <1>1, <2>1 DEF WholeFrames
<1>3. Pending = <<>>
  <2>1. OnLine(line) \in Seq(Pair) /\ Len(OnLine(line)) = 0
    <3>1. line \in Seq(Byte) /\ Len(line) = 6 * 0 /\ 0 \in Nat
      BY <1>1
    <3> QED
      BY ONLY <3>1, OnLineType
  <2>2. InQueue(queue) \in Seq(Pair) /\ Len(InQueue(queue)) = 0
    <3>1. /\ queue \in Seq(Seq(Byte)) /\ Len(queue) = 0
          /\ \A i \in DOMAIN queue : Len(queue[i]) = 6
      BY <1>1
    <3> QED
      BY ONLY <3>1, InQueueType
  <2>3. OnLine(line) = <<>> /\ InQueue(queue) = <<>>
    BY ONLY <2>1, <2>2
  <2> QED
    BY <2>3, PendingIs
<1> QED
  BY <1>1, <1>2, <1>3 DEF Channel!Init, IfWhole

(* With whole reads the buffers and the queue of the link do nothing that   *)
(* a channel does not do which delivers every command once, as it was       *)
(* spoken and in order (voice_get's read and send, receive_get's receive).  *)
THEOREM ImplementsFifo == Spec => Channel!Spec
<1>1. VoiceInv /\ WholeFrames /\ [Next]_vars
      => WholeFrames' /\ [Channel!Next]_(Channel!vars)
  BY LinkStep
<1> QED
  BY <1>1, LinkInit, VoiceInvariant, PTL DEF Spec, Channel!Spec

-----------------------------------------------------------------------------
(* Messages as ReceiveInterface has them.                                   *)
MessageData == [len : Nat, key : Byte, st : Byte]

LEMMA MessageType ==
    ASSUME NEW m \in Seq(Byte)
    PROVE  MessageOf(m) \in MessageData
<1>1. Len(m) >= 3 => m[3] \in Byte
  BY ElementOfSeq
<1>2. Len(m) >= 4 => m[4] \in Byte
  BY ElementOfSeq
<1>3. Len(m) \in Nat /\ 0 \in Byte
  BY DEF Byte
<1>4. (IF Len(m) >= 3 THEN m[3] ELSE 0) \in Byte
  BY <1>1, <1>3
<1>5. (IF Len(m) >= 4 THEN m[4] ELSE 0) \in Byte
  BY <1>2, <1>3
<1> QED
  BY ONLY <1>3, <1>4, <1>5, Zenon DEF MessageOf, MessageData

LEMMA MessagesType ==
    ASSUME NEW s \in Seq(Seq(Byte))
    PROVE  /\ MessagesOf(s) \in Seq(MessageData) /\ Len(MessagesOf(s)) = Len(s)
           /\ \A i \in 1 .. Len(s) : MessagesOf(s)[i] = MessageOf(s[i])
<1>1. Len(s) \in Nat /\ DOMAIN s = 1 .. Len(s)
  OBVIOUS
<1>2. ASSUME NEW i \in 1 .. Len(s) PROVE MessageOf(s[i]) \in MessageData
  <2>1. s[i] \in Seq(Byte)
    BY ElementOfSeq
  <2> QED
    BY <2>1, MessageType
<1>3. MessagesOf(s) = [i \in 1 .. Len(s) |-> MessageOf(s[i])]
  BY <1>1 DEF MessagesOf
<1> DEFINE t == MessagesOf(s)
           k == Len(s)
<1>4. t \in [1 .. k -> MessageData] /\ k \in Nat
  BY <1>1, <1>2, <1>3
<1>5. \A i \in 1 .. k : t[i] = MessageOf(s[i])
  BY <1>3
<1> HIDE DEF t, k
<1>6. t \in Seq(MessageData) /\ Len(t) = k
  BY ONLY <1>4
<1> QED
  BY <1>5, <1>6 DEF t, k

LEMMA SameMessages ==
    ASSUME NEW s \in Seq(MessageData), NEW t \in Seq(MessageData),
           Len(s) = Len(t), \A i \in 1 .. Len(s) : s[i] = t[i]
    PROVE  s = t
<1>1. s = [i \in 1 .. Len(s) |-> s[i]] /\ t = [i \in 1 .. Len(t) |-> t[i]]
  OBVIOUS
<1> QED
  BY <1>1

(* A send at the end of a queue, and a receive from its front.             *)
LEMMA MessagesAppend ==
    ASSUME NEW s \in Seq(Seq(Byte)), NEW m \in Seq(Byte)
    PROVE  MessagesOf(Append(s, m)) = Append(MessagesOf(s), MessageOf(m))
<1> DEFINE a == Append(s, m)
           t == MessagesOf(s)
           k == Len(s)
           b == Append(t, MessageOf(m))
<1>1. /\ a \in Seq(Seq(Byte)) /\ Len(a) = k + 1 /\ k \in Nat
      /\ \A i \in 1 .. k : a[i] = s[i]
      /\ a[k + 1] = m
  BY AppendProperties
<1>2. /\ t \in Seq(MessageData) /\ Len(t) = k
      /\ \A i \in 1 .. k : t[i] = MessageOf(s[i])
  BY MessagesType
<1>3. MessageOf(m) \in MessageData
  BY MessageType
<1>4. /\ b \in Seq(MessageData) /\ Len(b) = k + 1
      /\ \A i \in 1 .. k : b[i] = t[i]
      /\ b[k + 1] = MessageOf(m)
  <2> HIDE DEF t, k
  <2> QED
    BY ONLY <1>1, <1>2, <1>3, AppendProperties
<1> HIDE DEF a, t, b, k
<1>5. /\ MessagesOf(a) \in Seq(MessageData) /\ Len(MessagesOf(a)) = k + 1
      /\ \A i \in 1 .. k + 1 : MessagesOf(a)[i] = MessageOf(a[i])
  BY <1>1, MessagesType
<1>6. ASSUME NEW i \in 1 .. k + 1 PROVE MessagesOf(a)[i] = b[i]
  <2>1. i \in 1 .. k \/ i = k + 1
    BY <1>1
  <2> QED
    BY <1>1, <1>2, <1>4, <1>5, <2>1, ZenonT(30)
<1>7. MessagesOf(a) = b
  BY <1>4, <1>5, <1>6, SameMessages
<1> QED
  BY <1>7 DEF a, b, t

LEMMA MessagesTail ==
    ASSUME NEW s \in Seq(Seq(Byte)), s # <<>>
    PROVE  /\ MessagesOf(s) # <<>>
           /\ Head(MessagesOf(s)) = MessageOf(Head(s))
           /\ MessagesOf(Tail(s)) = Tail(MessagesOf(s))
<1> DEFINE a == Tail(s)
           t == MessagesOf(s)
           k == Len(s)
           b == Tail(t)
<1>1. /\ a \in Seq(Seq(Byte)) /\ Len(a) = k - 1 /\ k \in Nat \ {0}
      /\ \A i \in 1 .. k - 1 : a[i] = s[i + 1]
      /\ Head(s) = s[1]
  BY HeadTailProperties
<1>2. /\ t \in Seq(MessageData) /\ Len(t) = k
      /\ \A i \in 1 .. k : t[i] = MessageOf(s[i])
  BY MessagesType
<1> HIDE DEF a, t, k
<1>3. t # <<>> /\ 1 \in 1 .. k /\ \A i \in 1 .. k - 1 : i + 1 \in 1 .. k
  BY <1>1, <1>2
<1>4. /\ b \in Seq(MessageData) /\ Len(b) = k - 1
      /\ \A i \in 1 .. k - 1 : b[i] = t[i + 1]
      /\ Head(t) = t[1]
  BY ONLY <1>1, <1>2, <1>3, HeadTailProperties
<1> HIDE DEF b
<1>5. /\ MessagesOf(a) \in Seq(MessageData) /\ Len(MessagesOf(a)) = k - 1
      /\ \A i \in 1 .. k - 1 : MessagesOf(a)[i] = MessageOf(a[i])
  BY <1>1, MessagesType
<1>6. \A i \in 1 .. k - 1 : MessagesOf(a)[i] = b[i]
  BY <1>1, <1>2, <1>3, <1>4, <1>5, ZenonT(30)
<1>7. MessagesOf(a) = b
  BY <1>4, <1>5, <1>6, SameMessages
<1> QED
  BY <1>1, <1>2, <1>3, <1>4, <1>7 DEF a, b, t

(* Each frame has six bytes, and each message has used up one at least.     *)
HistoryInv ==
    /\ Len(frames) <= MaxFrames
    /\ queued \in Seq(Seq(Byte))
    /\ Len(queued) + Len(line) <= 6 * Len(frames)

(* What the voice module speaks is not a message yet.                      *)
LEMMA SpeakUnseen ==
    ASSUME VoiceInv, HistoryInv, SentNow, NEW p \in Spoken, Speak(p)
    PROVE  HistoryInv' /\ UNCHANGED Path!vars
<1>1. /\ Len(frames) < MaxFrames /\ frames' = Append(frames, p)
      /\ line' = line \o FrameOf(p)
      /\ UNCHANGED <<pieces, buffer, queue, received, whole, shared, handed>>
  BY DEF Speak
<1>2. queued' = queued
  <2>1. Len(queue) \in Nat
    BY DEF VoiceInv, TypeOK
  <2>2. ~(Len(queue') > Len(queue))
    BY <1>1, <2>1
  <2> QED
    BY <2>2 DEF SentNow
<1>3. /\ frames \in Seq(Spoken) /\ Len(frames) \in Nat
      /\ line \in Seq(Byte) /\ Len(line) \in Nat
      /\ queued \in Seq(Seq(Byte)) /\ Len(queued) \in Nat
  BY DEF VoiceInv, TypeOK, HistoryInv
<1>4. Len(frames') = Len(frames) + 1
  BY ONLY <1>1, <1>3, AppendProperties, p \in Spoken
<1>5. Len(line') = Len(line) + 6
  <2> DEFINE bytes == FrameOf(p)
  <2>1. line' = line \o bytes /\ bytes \in Seq(Byte) /\ Len(bytes) = 6
    BY <1>1, FrameBytes
  <2> HIDE DEF bytes
  <2>2. Len(line \o bytes) = Len(line) + Len(bytes)
    BY ONLY <1>3, <2>1, ConcatProperties
  <2> QED
    BY ONLY <2>1, <2>2
<1>6. MaxFrames \in Nat
  BY VoiceAssumption
<1>7. HistoryInv'
  BY <1>1, <1>2, <1>3, <1>4, <1>5, <1>6 DEF HistoryInv
<1>8. UNCHANGED Path!vars
  BY <1>1, <1>2
  DEF Path!vars, Path!process, Path!mq, Path!memory, Path!outputs
<1> QED
  BY <1>7, <1>8

(* A read that passes the test sends a message that a frame begins with.   *)
LEMMA ReadSends ==
    ASSUME VoiceInv, HistoryInv, SentNow, NEW n \in pieces, ReadAndSend(n)
    PROVE  HistoryInv' /\ [Path!Next]_(Path!vars)
<1> DEFINE m == SubSeq(buffer', 1, n)
<1>1. /\ n <= Len(line) /\ line' = SubSeq(line, n + 1, Len(line))
      /\ buffer' = Overlay(buffer, SubSeq(line, 1, n))
      /\ IsFrame(buffer') => Len(queue) < QueueMax
      /\ queue' = IF IsFrame(buffer') THEN Append(queue, m) ELSE queue
      /\ UNCHANGED <<pieces, frames, received, whole, shared, handed>>
  BY DEF ReadAndSend
<1>2. /\ n \in 1 .. 6
      /\ line \in Seq(Byte) /\ Len(line) \in Nat
      /\ frames \in Seq(Spoken) /\ Len(frames) \in Nat
      /\ queue \in Seq(Seq(Byte)) /\ Len(queue) \in Nat
      /\ queued \in Seq(Seq(Byte)) /\ Len(queued) \in Nat
  <2>1. n \in 1 .. 6
    <3>1. pieces = WholeReads \/ pieces = AnyReads
      BY DEF VoiceInv, TypeOK
    <3> QED
      BY ONLY <3>1, n \in pieces DEF WholeReads, AnyReads
  <2> QED
    BY <2>1 DEF VoiceInv, TypeOK, HistoryInv
<1>3. Len(line') = Len(line) - n
  BY ONLY <1>1, <1>2, Piece
<1>4. CASE ~IsFrame(buffer')
  <2>1. queue' = queue
    BY <1>1, <1>4
  <2>2. queued' = queued
    <3>1. ~(Len(queue') > Len(queue))
      BY <1>2, <2>1
    <3> QED
      BY <3>1 DEF SentNow
  <2>3. HistoryInv'
    BY <1>1, <1>2, <1>3, <2>2 DEF HistoryInv
  <2>4. UNCHANGED Path!vars
    BY <1>1, <2>1, <2>2
    DEF Path!vars, Path!process, Path!mq, Path!memory, Path!outputs
  <2> QED
    BY <2>3, <2>4
<1>5. CASE IsFrame(buffer')
  <2>1. IsMessage(m, PairsSpoken)
    BY <1>1, <1>2, <1>5, ReadMessage DEF VoiceInv
  <2>2. m \in Seq(Byte) /\ Len(m) \in 1 .. 6
    BY <2>1 DEF IsMessage
  <2>3. queue' = Append(queue, m) /\ Len(queue) < QueueMax
    BY <1>1, <1>5
  <2>4. MessageOf(m) \in CutFrames
    <3>1. frames # <<>>
      <4>1. 1 \in 1 .. Len(line)
        BY <1>1, <1>2
      <4>2. \E f \in 1 .. Len(frames) : TRUE
        BY <4>1 DEF VoiceInv, LineIsRest
      <4> QED
        BY <1>2, <4>2
    <3>2. CASE Len(m) >= 3
      <4>1. PICK p \in PairsSpoken : m = SubSeq(FrameOf(p), 1, Len(m))
        BY <2>1, <3>2 DEF IsMessage
      <4>2. p \in Spoken
        BY <1>2 DEF PairsSpoken
      <4>3. \E k \in 1 .. 6 : MessageOf(m) = MessageOf(SubSeq(FrameOf(p), 1, k))
        <5> HIDE DEF m
        <5> QED
          BY ONLY <2>2, <4>1, Zenon
      <4> QED
        BY ONLY <4>2, <4>3 DEF CutFrames
    <3>3. CASE ~(Len(m) >= 3)
      <4> DEFINE p == frames[1]
                 l == Len(m)
                 c == SubSeq(FrameOf(p), 1, l)
      <4>1. p \in Spoken
        BY <1>2, <3>1
      <4>2. l \in 1 .. 6
        BY <2>2
      <4> HIDE DEF p, l
      <4>3. FrameOf(p) \in Seq(Byte) /\ Len(FrameOf(p)) = 6
        BY ONLY <4>1, FrameBytes
      <4>4. l <= Len(FrameOf(p))
        BY ONLY <4>2, <4>3
      <4>5. Len(c) = l
        BY ONLY <4>2, <4>3, <4>4, Piece
      <4>6. MessageOf(m) = [len |-> l, key |-> 0, st |-> 0]
        BY <2>2, <3>3 DEF MessageOf, l
      <4>7. ~(l >= 3) /\ ~(l >= 4)
        BY <2>2, <3>3 DEF l
      <4>8. MessageOf(c) = [len |-> l, key |-> 0, st |-> 0]
        <5> HIDE DEF c
        <5> QED
          BY ONLY <4>5, <4>7, Zenon DEF MessageOf
      <4>9. \E k \in 1 .. 6 : MessageOf(m) = MessageOf(SubSeq(FrameOf(p), 1, k))
        BY ONLY <4>2, <4>6, <4>8, Zenon DEF c
      <4> QED
        BY ONLY <4>1, <4>9 DEF CutFrames
    <3> QED
      BY <3>2, <3>3
  <2> HIDE DEF m
  <2>5. /\ queue' \in Seq(Seq(Byte)) /\ Len(queue') = Len(queue) + 1
        /\ queue'[Len(queue) + 1] = m
    BY ONLY <1>2, <2>2, <2>3, AppendProperties
  <2>6. queued' = Append(queued, m)
    <3>1. Len(queue') > Len(queue) /\ queue'[Len(queue')] = m
      BY ONLY <1>2, <2>5
    <3> QED
      BY <3>1 DEF SentNow
  <2>7. queued' \in Seq(Seq(Byte)) /\ Len(queued') = Len(queued) + 1
    BY ONLY <1>2, <2>2, <2>6, AppendProperties
  <2>8. HistoryInv'
    <3>1. Len(queued) + Len(line) <= 6 * Len(frames) /\ Len(frames) <= MaxFrames
      BY DEF HistoryInv
    <3>2. Len(queued') + Len(line') <= 6 * Len(frames)
      BY ONLY <1>2, <1>3, <2>7, <3>1
    <3> QED
      BY <1>1, <2>7, <3>1, <3>2 DEF HistoryInv
  <2>9. /\ MessagesOf(queue') = Append(MessagesOf(queue), MessageOf(m))
        /\ MessagesOf(queued') = Append(MessagesOf(queued), MessageOf(m))
        /\ Len(MessagesOf(queue)) = Len(queue)
        /\ Len(MessagesOf(queued)) = Len(queued)
    BY ONLY <1>2, <2>2, <2>3, <2>6, MessagesAppend, MessagesType
  <2>10. Len(queued) < 6 * MaxFrames
    <3>1. Len(queued) + Len(line) <= 6 * Len(frames) /\ Len(frames) <= MaxFrames
      BY DEF HistoryInv
    <3>2. MaxFrames \in Nat
      BY VoiceAssumption
    <3> QED
      BY ONLY <1>1, <1>2, <3>1, <3>2
  <2>11. MessagesOf(queue)' = Append(MessagesOf(queue), MessageOf(m))
         /\ MessagesOf(queued)' = Append(MessagesOf(queued), MessageOf(m))
    BY <2>9 DEF MessagesOf
  <2>12. Path!Send(MessageOf(m))
    BY <1>1, <2>3, <2>9, <2>10, <2>11
    DEF Path!Send, Path!process, Path!memory, Path!outputs
  <2> QED
    BY <2>4, <2>8, <2>12 DEF Path!Next
<1> QED
  BY <1>4, <1>5

(* A receive is let through, and changes the shared buffer, as it is there. *)
LEMMA ReceiveReceives ==
    ASSUME VoiceInv, FramedIsWhole, HistoryInv, SentNow, Receive
    PROVE  HistoryInv' /\ Path!Next
<1> DEFINE m == Head(queue)
<1>1. /\ queue # <<>> /\ queue' = Tail(queue)
      /\ received' = Overlay(received, m)
      /\ whole' = (whole \/ Len(m) = 6)
      /\ IF IsFrame(received')
         THEN shared' = Overlay(shared, m)
         ELSE shared' = shared
      /\ UNCHANGED <<pieces, frames, line, buffer>>
  BY DEF Receive, CopyInto
<1>2. /\ queue \in Seq(Seq(Byte)) /\ Len(queue) \in Nat
      /\ queued \in Seq(Seq(Byte))
      /\ shared \in Seq(Byte) /\ Len(shared) = 6
      /\ whole \in BOOLEAN
  BY DEF VoiceInv, TypeOK, HistoryInv
<1>3. IsMessage(m, PairsSpoken)
  <2>1. 1 \in DOMAIN queue /\ m = queue[1]
    BY <1>1, <1>2
  <2> HIDE DEF m
  <2> QED
    BY <2>1 DEF VoiceInv, QueueInv
<1>4. m \in Seq(Byte) /\ Len(m) \in 1 .. 6
  BY <1>3 DEF IsMessage
<1>5. queued' = queued
  <2>1. Len(queue') = Len(queue) - 1
    BY ONLY <1>1, <1>2, HeadTailProperties
  <2>2. ~(Len(queue') > Len(queue))
    BY ONLY <1>2, <2>1
  <2> QED
    BY <2>2 DEF SentNow
<1>6. HistoryInv'
  BY <1>1, <1>5 DEF HistoryInv
<1>7. /\ MessagesOf(queue) # <<>>
      /\ Head(MessagesOf(queue)) = MessageOf(m)
      /\ MessagesOf(queue') = Tail(MessagesOf(queue))
  BY ONLY <1>1, <1>2, MessagesTail
<1>8. /\ MessagesOf(queue)' = MessagesOf(queue')
      /\ MessagesOf(queued)' = MessagesOf(queued)
  BY <1>5 DEF MessagesOf
<1> HIDE DEF m
<1>9. Path!ReceiveMessage
  BY <1>5, <1>7, <1>8 DEF Path!ReceiveMessage, Path!process, Path!outputs
<1>10. IsFrame(received') <=> whole'
  BY <1>1, <1>3, ReceivedMessage DEF VoiceInv
<1>11. Path!Accepts(MessageOf(m)) <=> whole'
  BY <1>1 DEF Path!Accepts, Path!FrameLen, MessageOf
<1>12. CASE ~whole'
  <2>1. whole' = whole /\ shared' = shared
    BY <1>1, <1>2, <1>10, <1>12
  <2>2. Path!ReceiveDiscard
    BY <1>7, <1>9, <1>11, <1>12, <2>1 DEF Path!ReceiveDiscard
  <2> QED
    BY <1>6, <2>2 DEF Path!Next, Path!Receive
<1>13. CASE whole'
  <2>1. shared' = Overlay(shared, m)
    BY <1>1, <1>10, <1>13
  <2>2. /\ shared'[3] = IF 3 <= Len(m) THEN m[3] ELSE shared[3]
        /\ shared'[4] = IF 4 <= Len(m) THEN m[4] ELSE shared[4]
    <3>1. \A i \in 1 .. 6 : shared'[i] = IF i <= Len(m) THEN m[i] ELSE shared[i]
      BY ONLY <1>2, <1>4, <2>1, OverlayBytes
    <3>2. 3 \in 1 .. 6 /\ 4 \in 1 .. 6
      OBVIOUS
    <3> QED
      BY ONLY <3>1, <3>2, Zenon
  <2>3. /\ Len(m) >= 3 <=> 3 <= Len(m)
        /\ Len(m) >= 4 <=> 4 <= Len(m)
    BY ONLY <1>4
  <2>4. [key |-> shared'[3], st |-> shared'[4]]
           = Path!CopyInto([key |-> shared[3], st |-> shared[4]], MessageOf(m))
    BY ONLY <2>2, <2>3 DEF Path!CopyInto, MessageOf
  <2>5. whole' = TRUE
    BY <1>1, <1>2, <1>13
  <2>6. Path!Idle = {}
    BY DEF Path!Idle
  <2>7. Path!ReceiveNoThread
    BY <1>7, <1>9, <1>11, <1>13, <2>4, <2>5, <2>6 DEF Path!ReceiveNoThread
  <2> QED
    BY <1>6, <2>7 DEF Path!Next, Path!Receive
<1> QED
  BY <1>12, <1>13

(* A step of the bytes is a step of the messages, or none.                 *)
LEMMA PathStep ==
    ASSUME VoiceInv, FramedIsWhole, HistoryInv, [NextQ]_<<vars, queued>>
    PROVE  HistoryInv' /\ [Path!Next]_(Path!vars)
<1>1. CASE NextQ
  BY <1>1, SpeakUnseen, ReadSends, ReceiveReceives DEF NextQ, Next
<1>2. CASE UNCHANGED <<vars, queued>>
  <2>1. UNCHANGED <<queue, whole, shared, queued, frames, line>>
    BY <1>2 DEF vars
  <2>2. HistoryInv'
    BY <2>1 DEF HistoryInv
  <2>3. UNCHANGED Path!vars
    BY <2>1
    DEF MessagesOf, Path!vars, Path!process, Path!mq, Path!memory, Path!outputs
  <2> QED
    BY <2>2, <2>3
<1> QED
  BY <1>1, <1>2

LEMMA PathInit == InitQ => HistoryInv /\ Path!Init
<1> SUFFICES ASSUME InitQ PROVE HistoryInv /\ Path!Init
  OBVIOUS
<1>1. /\ frames = <<>> /\ line = <<>> /\ queue = <<>> /\ queued = <<>>
      /\ whole = FALSE /\ shared = Cleared
  BY DEF InitQ, Init
<1>2. HistoryInv
  BY <1>1, VoiceAssumption DEF HistoryInv
<1>3. MessagesOf(queue) = <<>> /\ MessagesOf(queued) = <<>>
  BY <1>1 DEF MessagesOf
<1>4. shared[3] = 0 /\ shared[4] = 0
  BY <1>1 DEF Cleared
<1>5. Path!IniStatus = <<>> /\ [p \in Path!Pins |-> Path!HIGH] = <<>>
      /\ [h \in {} |-> Path!NoThread] = <<>>
  BY DEF Path!IniStatus, Path!Devices, Path!Pins
<1> QED
  BY <1>1, <1>2, <1>3, <1>4, <1>5
  DEF Path!Init, Path!ZeroBuffer, Path!Greeting, Path!NULL, Path!HIGH

(* Whatever the line cuts, voice_get and receive_get do with their buffers  *)
(* what ReceiveInterface says of messages: its Send, its frame test with    *)
(* one Boolean, and its CopyInto.                                           *)
THEOREM ImplementsReceive == SpecQ => BytesAreMessages
<1>1. VoiceInv /\ FramedIsWhole /\ HistoryInv /\ [NextQ]_<<vars, queued>>
      => HistoryInv' /\ [Path!Next]_(Path!vars)
  BY PathStep
<1>2. InitQ => Init
  BY DEF InitQ
<1>3. [NextQ]_<<vars, queued>> => [Next]_vars
  BY DEF NextQ
<1> QED
  BY <1>1, <1>2, <1>3, PathInit, VoiceInvariant, PTL
  DEF Spec, SpecQ, BytesAreMessages, Path!Spec
================================================================================
