-------------------------------- MODULE MCAfsk --------------------------------
(* Two bytes, of which each is "A", all ones or all zeros.                  *)
EXTENDS Afsk

LetterA   == [k \in 0..7 |-> IF k \in {0, 6} THEN 1 ELSE 0]
AllOnes   == [k \in 0..7 |-> 1]
AllZeros  == [k \in 0..7 |-> 0]
MCBytes   == {LetterA, AllOnes, AllZeros}
MCMessage == {<<b, c>> : b \in MCBytes, c \in MCBytes}
================================================================================
