--------------------------------- MODULE Afsk ---------------------------------
(***************************************************************************)
(* The sound modem of internal/transport/radio.go: RadioConn.Write turns   *)
(* bytes into tones, RadioConn.Read turns sound back into bytes.  The best *)
(* case: the sound arrives as it was sent, all of it in one Read.  A sample*)
(* is represented by its sign, all that detectFrequency looks at; the      *)
(* signs are those of the rates RadioListen sets, 22050 and 1200 Hz.       *)
(***************************************************************************)
EXTENDS Integers, Sequences, FiniteSets

CONSTANT Message    \* what is written: sequences of bytes [0..7 -> 0..1]

VARIABLES
  written,   \* the bytes given to Write
  sound,     \* their samples: TRUE for one that is not negative
  i,         \* the loop variable of afskDecode
  output,    \* the bytes decoded so far
  returned   \* Read has returned them

vars == <<written, sound, i, output, returned>>

-------------------------------------------------------------------------------
samplesPerBit == 22050 \div 1200

(* generateTone: a tone begins with phase zero.  The samples that are not   *)
(* negative are those of the first half of each of its periods, which are   *)
(* 18.4 samples long at 1200 Hz and 10.02 at 2200 Hz.                       *)
HighHalf(freq) == IF freq = 1200 THEN 0..9 ELSE (0..5) \cup (11..15)

generateTone(freq) ==
  [k \in 1..samplesPerBit |-> k - 1 \in HighHalf(freq)]

mark  == generateTone(1200)
space == generateTone(2200)

(* Ten tones: a start bit, eight bits from the lowest on, a stop bit.       *)
samplesPerByte == 10 * samplesPerBit

EncodeByte(b) ==
  LET tone(t) == IF t = 9 \/ (t \in 1..8 /\ b[t - 1] = 1) THEN mark ELSE space
  IN  [k \in 1..samplesPerByte |->
         tone((k - 1) \div samplesPerBit)[((k - 1) % samplesPerBit) + 1]]

afskEncode(data) ==
  [k \in 1..(samplesPerByte * Len(data)) |->
     EncodeByte(data[(k - 1) \div samplesPerByte + 1])
               [((k - 1) % samplesPerByte) + 1]]

(* crossings * 22050 / (2 * 18), compared with (1200 + 2200) / 2.           *)
IsHigh(from) ==
  LET crossings == {k \in from + 1 .. from + samplesPerBit - 1 :
                      sound[k] # sound[k + 1]}
  IN  Cardinality(crossings) * 22050 > 1700 * 2 * samplesPerBit

-------------------------------------------------------------------------------
More == i < Len(sound) - samplesPerByte

(* This is no start bit: half a bit further.                                *)
Skip ==
  /\ ~returned /\ More
  /\ IsHigh(i)
  /\ i' = i + samplesPerBit \div 2
  /\ UNCHANGED <<written, sound, output, returned>>

(* The eight bits after it, then beyond the stop bit, where the loop adds   *)
(* half a bit more.                                                         *)
DecodeByte ==
  /\ ~returned /\ More
  /\ ~ IsHigh(i)
  /\ output' = Append(output,
       [bit \in 0..7 |-> IF IsHigh(i + (bit + 1) * samplesPerBit) THEN 1 ELSE 0])
  /\ i' = i + samplesPerByte + samplesPerBit \div 2
  /\ UNCHANGED <<written, sound, returned>>

Return ==
  /\ ~returned /\ ~ More
  /\ returned' = TRUE
  /\ UNCHANGED <<written, sound, i, output>>

Init ==
  /\ written \in Message
  /\ sound = afskEncode(written)
  /\ i = 0 /\ output = <<>> /\ returned = FALSE

Next == Skip \/ DecodeByte \/ Return

Spec == Init /\ [][Next]_vars

-------------------------------------------------------------------------------
(* "RadioConn implements net.Conn": what Read returns of the sound Write has*)
(* made are the bytes that were written.                                    *)
ReadBack == returned => output = written
================================================================================
