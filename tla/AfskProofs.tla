------------------------------ MODULE AfskProofs ------------------------------
(***************************************************************************)
(* That the sound modem of Afsk never reads back what it has written: the  *)
(* run radio shows it of two bytes, the theorem here of every message.     *)
(* It counts samples.  A byte is sent as samplesPerByte of them; decoding  *)
(* one uses up half a bit more, and the last one is never looked at.       *)
(***************************************************************************)
EXTENDS Afsk, TLAPS

Byte == [0..7 -> 0..1]

(* Fewer bytes have been decoded than were written.                        *)
ByteLost == Len(output) < Len(written)

(* Every decoded byte has taken half a bit more than it was sent in.       *)
SamplesTaken ==
  /\ written \in Seq(Byte) \ {<<>>}
  /\ sound \in Seq(BOOLEAN)
  /\ Len(sound) = samplesPerByte * Len(written)
  /\ i \in Nat
  /\ output \in Seq(Byte)
  /\ (samplesPerByte + samplesPerBit \div 2) * Len(output) <= i
  /\ ByteLost

-------------------------------------------------------------------------------
(* 18 samples to the bit, 180 to the byte.                                  *)
LEMMA Rates == samplesPerBit = 18 /\ samplesPerByte = 180
BY DEF samplesPerBit, samplesPerByte

(* generateTone (61) makes the samples of one bit.                          *)
LEMMA ToneType ==
  /\ mark \in [1..samplesPerBit -> BOOLEAN]
  /\ space \in [1..samplesPerBit -> BOOLEAN]
BY DEF mark, space, generateTone

(* afskEncode (41) makes ten bits of sound of every byte.                   *)
LEMMA Encoded ==
  ASSUME NEW data \in Seq(Byte)
  PROVE  /\ afskEncode(data) \in Seq(BOOLEAN)
         /\ Len(afskEncode(data)) = samplesPerByte * Len(data)
<1> DEFINE size == samplesPerByte * Len(data)
<1>1. size \in Nat
  BY Rates
<1>2. ASSUME NEW k \in 1..size
      PROVE  EncodeByte(data[(k - 1) \div samplesPerByte + 1])
                       [((k - 1) % samplesPerByte) + 1] \in BOOLEAN
  <2> DEFINE b == data[(k - 1) \div samplesPerByte + 1]
             j == ((k - 1) % samplesPerByte) + 1
  <2>1. j \in 1..samplesPerByte
    BY <1>1, Rates
  <2>2. ((j - 1) % samplesPerBit) + 1 \in 1..samplesPerBit
    BY <2>1, Rates
  <2> HIDE DEF b, j
  <2>3. EncodeByte(b)[j] \in BOOLEAN
    BY <2>1, <2>2, ToneType DEF EncodeByte
  <2> QED
    BY <2>3 DEF b, j
<1>3. afskEncode(data) \in [1..size -> BOOLEAN]
  BY <1>2 DEF afskEncode
<1> QED
  BY <1>1, <1>3

(* The decoder starts a byte only where all the samples it will look at     *)
(* are there: the break of afskDecode (83), which DecodeByte leaves out, is *)
(* never taken.                                                             *)
LEMMA BreakNotTaken ==
  ASSUME More, i \in Nat, Len(sound) \in Nat, NEW bit \in 0..7
  PROVE  i + (bit + 1) * samplesPerBit + samplesPerBit <= Len(sound)
BY Rates DEF More

(* A byte is begun only more than samplesPerByte before the end.            *)
LEMMA DecodedTooFew ==
  ASSUME NEW n \in Nat, NEW m \in Nat, NEW at \in Nat,
         189 * m <= at, at < 180 * n - 180
  PROVE  m + 1 < n
OBVIOUS

-------------------------------------------------------------------------------
LEMMA InitTaken ==
  ASSUME Message \subseteq Seq(Byte) \ {<<>>}, Init
  PROVE  SamplesTaken
<1>1. written \in Seq(Byte) /\ written # <<>> /\ Len(written) > 0
  BY DEF Init
<1>2. sound \in Seq(BOOLEAN) /\ Len(sound) = samplesPerByte * Len(written)
  BY <1>1, Encoded DEF Init
<1> QED
  BY <1>1, <1>2, Rates DEF Init, SamplesTaken, ByteLost

LEMMA StepTaken ==
  ASSUME SamplesTaken, [Next]_vars
  PROVE  SamplesTaken'
<1> USE Rates DEF SamplesTaken, ByteLost
<1>1. CASE Skip
  BY <1>1 DEF Skip
<1>2. CASE DecodeByte
  <2>1. PICK b \in Byte : output' = Append(output, b)
    <3> DEFINE b == [bit \in 0..7 |->
                       IF IsHigh(i + (bit + 1) * samplesPerBit) THEN 1 ELSE 0]
    <3>1. b \in Byte /\ output' = Append(output, b)
      BY <1>2 DEF DecodeByte, Byte
    <3> QED
      BY <3>1
  <2>2. output' \in Seq(Byte) /\ Len(output') = Len(output) + 1
    BY <2>1
  <2>3. i < 180 * Len(written) - 180
    BY <1>2 DEF DecodeByte, More
  <2>4. Len(output) + 1 < Len(written)
    BY <2>3, DecodedTooFew
  <2>5. i' = i + 189
    BY <1>2 DEF DecodeByte
  <2>6. written' = written /\ sound' = sound
    BY <1>2 DEF DecodeByte
  <2> QED
    BY <2>2, <2>4, <2>5, <2>6
<1>3. CASE Return
  BY <1>3 DEF Return
<1>4. CASE UNCHANGED vars
  BY <1>4 DEF vars
<1> QED
  BY <1>1, <1>2, <1>3, <1>4 DEF Next

(* Whatever is written, one byte or more, what RadioConn.Read returns of    *)
(* its sound is shorter: the modem never reads back a message, even when    *)
(* all of the sound arrives, unchanged, in one Read (afskDecode ends at 75  *)
(* samplesPerByte before the end of the sound).                             *)
THEOREM NeverReadBack ==
  ASSUME Message \subseteq Seq(Byte) \ {<<>>}
  PROVE  Spec => [](ByteLost /\ (returned => ~ ReadBack))
<1>1. Init => SamplesTaken
  BY InitTaken
<1>2. SamplesTaken /\ [Next]_vars => SamplesTaken'
  BY StepTaken
<1>3. SamplesTaken => ByteLost /\ (returned => ~ ReadBack)
  BY DEF SamplesTaken, ByteLost, ReadBack
<1> QED
  BY <1>1, <1>2, <1>3, PTL DEF Spec
================================================================================
