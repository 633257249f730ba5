---------------------------- MODULE BlockListProofs ----------------------------
(***************************************************************************)
(* The list a node enforces is a signed one, for any lists, guardians and  *)
(* quorums above zero.                                                     *)
(***************************************************************************)
EXTENDS BlockList, SequenceTheorems, FiniteSetTheorems, TLAPS

(* A list with signatures that are all of a given set.                      *)
Genuine(f, made) == f = Broken \/ f \in [doc : Doc, sigs : Seq(made)]

Genuines(made) ==
  Genuine(file, made) /\ Genuine(wiki, made)
    /\ Genuine(data, made) /\ Genuine(read, made)

(* No signature anywhere but was made; the tool is about to write one that  *)
(* was made.                                                                *)
SigInv ==
  /\ signed \subseteq Guardian \X Doc
  /\ Genuines(signed)
  /\ tool # "idle" => read # Broken /\ <<signer, read.doc>> \in signed
  /\ EnforcedSigned

LEMMA GenuineGrows ==
  ASSUME NEW S, NEW T, S \subseteq T, NEW f, Genuine(f, S)
  PROVE  Genuine(f, T)
<1>1. \A s \in Seq(S) : s \in Seq(T)
  OBVIOUS
<1> QED
  BY <1>1 DEF Genuine

(* A list that loads and has a quorum above zero has a valid signature.     *)
LEMMA LoadedSigned ==
  ASSUME signed \subseteq Guardian \X Doc,
         NEW f, Genuine(f, signed), LoadBlockList(f) # None,
         Quorum[LoadBlockList(f)] > 0
  PROVE  /\ f # Broken /\ LoadBlockList(f) = f.doc
         /\ \E g \in Guardians[f.doc] : <<g, f.doc>> \in signed
<1> DEFINE V == {i \in DOMAIN f.sigs : Valid(f.sigs[i], f.doc)}
<1>1. f # Broken /\ LoadBlockList(f) = f.doc /\ ValidSigs(f) >= Quorum[f.doc]
  BY DEF LoadBlockList
<1>2. f.doc \in Doc /\ f.sigs \in Seq(signed)
  BY <1>1 DEF Genuine
<1>3. V # {}
  <2> SUFFICES ASSUME V = {} PROVE FALSE
    OBVIOUS
  <2>1. ValidSigs(f) = 0
    BY FS_EmptySet DEF ValidSigs
  <2>2. Quorum[f.doc] \in Nat /\ Quorum[f.doc] > 0
    BY <1>1, <1>2, BlockListAssumption
  <2> QED
    BY <1>1, <2>1, <2>2
<1>4. PICK i \in DOMAIN f.sigs : Valid(f.sigs[i], f.doc)
  BY <1>3
<1>5. f.sigs[i] \in signed
  BY <1>2, <1>4
<1>6. f.sigs[i] = <<f.sigs[i][1], f.sigs[i][2]>>
  BY <1>5
<1> QED
  BY <1>1, <1>4, <1>5, <1>6 DEF Valid

(* What sign-block writes has one signature, and that was made.             *)
LEMMA SignedGenuine ==
  ASSUME NEW f \in [doc : Doc, sigs : Seq(signed)], NEW g,
         <<g, f.doc>> \in signed
  PROVE  Genuine(SignBlock(f, g), signed)
<1>1. <<<<g, f.doc>>>> \in Seq(signed)
  OBVIOUS
<1> QED
  BY <1>1 DEF SignBlock, Genuine

LEMMA SigInit == Init => SigInv
<1> SUFFICES ASSUME Init PROVE SigInv
  OBVIOUS
<1>1. <<>> \in Seq(signed)
  OBVIOUS
<1>2. file = Broken \/ \E d \in Doc : file = [doc |-> d, sigs |-> <<>>]
  BY DEF Init
<1>3. \A d \in Doc, s \in Seq(signed) :
        [doc |-> d, sigs |-> s] \in [doc : Doc, sigs : Seq(signed)]
  OBVIOUS
<1>4. Genuine(file, signed)
  BY <1>1, <1>2, <1>3 DEF Genuine
<1> QED
  BY <1>4 DEF Init, SigInv, Genuines, Genuine, EnforcedSigned

LEMMA SigStep == SigInv /\ [Next]_vars => SigInv'
<1> SUFFICES ASSUME SigInv, [Next]_vars PROVE SigInv'
  OBVIOUS
<1> USE DEF Genuines
<1>1. ASSUME NEW from, NEW next, Get(from, next) PROVE SigInv'
  BY <1>1 DEF Get, SigInv, Genuine, EnforcedSigned, signing
<1>2. CASE GetFails
  BY <1>2 DEF GetFails, SigInv, Genuine, EnforcedSigned, signing
<1>3. ASSUME NEW from, NEW next, Truncate(from, next) PROVE SigInv'
  BY <1>3 DEF Truncate, SigInv, Genuine, EnforcedSigned, signing
<1>4. ASSUME NEW from, NEW next, Write(from, next) PROVE SigInv'
  <2>1. file' \in {data, Broken} /\ data' = Broken
    BY <1>4 DEF Write, Writes
  <2>2. UNCHANGED <<wiki, enforced, signing>>
    BY <1>4 DEF Write
  <2> QED
    BY <2>1, <2>2 DEF SigInv, Genuine, EnforcedSigned, signing
<1>5. CASE Load
  <2>1. enforced' \in {enforced, LoadBlockList(file)}
    BY <1>5 DEF Load
  <2>2. Genuine(file, signed) /\ signed \subseteq Guardian \X Doc
    BY DEF SigInv
  <2>3. UNCHANGED <<file, wiki, data, signing>>
    BY <1>5 DEF Load
  <2>4. EnforcedSigned'
    BY <2>1, <2>2, <2>3, LoadedSigned DEF SigInv, EnforcedSigned, signing
  <2> QED
    BY <2>3, <2>4 DEF SigInv, Genuine, signing
<1>6. CASE Stop
  BY <1>6 DEF Stop, SigInv, Genuine, EnforcedSigned, signing
<1>7. ASSUME NEW g \in Guardian, ReadToSign(g) PROVE SigInv'
  <2>1. file \in [doc : Doc, sigs : Seq(signed)]
    BY <1>7 DEF ReadToSign, SigInv, Genuine
  <2>2. signed' \subseteq Guardian \X Doc /\ signed \subseteq signed'
    BY <1>7, <2>1 DEF ReadToSign, SigInv
  <2>3. UNCHANGED <<file, wiki, data, enforced>> /\ read' = file
    BY <1>7 DEF ReadToSign, node
  <2>4. Genuine(file, signed') /\ Genuine(wiki, signed')
          /\ Genuine(data, signed')
    BY <2>2, GenuineGrows DEF SigInv
  <2>5. read' # Broken /\ <<signer', read'.doc>> \in signed'
    BY <1>7 DEF ReadToSign
  <2> QED
    BY <2>2, <2>3, <2>4, <2>5 DEF SigInv, Genuine, EnforcedSigned
<1>8. CASE OpenToSign
  BY <1>8 DEF OpenToSign, SigInv, Genuine, EnforcedSigned, node
<1>9. CASE WriteSigned
  <2>1. /\ read \in [doc : Doc, sigs : Seq(signed)]
        /\ <<signer, read.doc>> \in signed
    BY <1>9 DEF WriteSigned, SigInv, Genuine
  <2>2. Genuine(SignBlock(read, signer), signed)
    BY <2>1, SignedGenuine
  <2>3. file' \in {SignBlock(read, signer), Broken}
    BY <1>9 DEF WriteSigned, Writes
  <2> QED
    BY <1>9, <2>2, <2>3
    DEF WriteSigned, EndTool, SigInv, Genuine, EnforcedSigned, node
<1>10. CASE KillTool
  BY <1>10 DEF KillTool, EndTool, SigInv, Genuine, EnforcedSigned, node
<1>11. CASE Edit
  <2>1. PICK d \in Doc :
          file' = [doc |-> d, sigs |-> IF file = Broken THEN <<>> ELSE file.sigs]
    BY <1>11 DEF Edit
  <2>2. (IF file = Broken THEN <<>> ELSE file.sigs) \in Seq(signed)
    BY DEF SigInv, Genuine
  <2>3. Genuine(file', signed)
    BY <2>1, <2>2 DEF Genuine
  <2> QED
    BY <1>11, <2>3
    DEF Edit, SigInv, Genuine, EnforcedSigned, node, signing
<1>12. CASE Paste
  <2>1. file \in [doc : Doc, sigs : Seq(signed)]
    BY <1>12 DEF Paste, SigInv, Genuine
  <2>2. PICK s \in signed : file' = [file EXCEPT !.sigs = Append(@, s)]
    BY <1>12 DEF Paste
  <2>3. Append(file.sigs, s) \in Seq(signed)
    BY <2>1
  <2>4. Genuine(file', signed)
    BY <2>1, <2>2, <2>3 DEF Genuine
  <2> QED
    BY <1>12, <2>4
    DEF Paste, SigInv, Genuine, EnforcedSigned, node, signing
<1>13. CASE Publish
  BY <1>13 DEF Publish, SigInv, Genuine, EnforcedSigned, node, signing
<1>14. CASE UNCHANGED vars
  BY <1>14 DEF vars, SigInv, Genuine, EnforcedSigned, node, signing
<1> QED
  BY <1>1, <1>2, <1>3, <1>4, <1>5, <1>6, <1>7, <1>8, <1>9, <1>10, <1>11,
     <1>12, <1>13, <1>14 DEF Next, Start, Sync

(* The list in force, unless it wants no signature, is one that a guardian  *)
(* it names has signed as it is.                                            *)
THEOREM EnforcedIsSigned == Spec => []EnforcedSigned
<1>1. SigInv => EnforcedSigned
  BY DEF SigInv
<1> QED
  BY <1>1, SigInit, SigStep, PTL DEF Spec
================================================================================
