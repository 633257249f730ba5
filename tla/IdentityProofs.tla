---------------------------- MODULE IdentityProofs ----------------------------
(***************************************************************************)
(* The invariants of Identity, for any number of processes and keys.       *)
(***************************************************************************)
EXTENDS Identity, TLAPS

Types ==
  /\ holds \subseteq Process
  /\ pc \in [Process -> {"off", "loadPriv", "loadPub", "running"} \cup Saving]
  /\ keys \in [Process -> [priv : Half, pub : Half]]
  /\ pub \in Key \cup {Absent, Broken}
  /\ saved \subseteq Key
  /\ harmed \in BOOLEAN

(* A node that has opened the database has it alone, a process that is off  *)
(* or still loads knows no public key, one that saves is a node.            *)
LockOK ==
  /\ \A r \in Run : pc[r] # "off" => holds = {r}
  /\ \A p \in Process :
       pc[p] \in {"off", "loadPriv", "loadPub"} => ~ Knows(p)
  /\ \A p \in Process : pc[p] \in Saving => p \in Run
  /\ \A p \in Process :
       pc[p] \in Saving => keys[p].priv = keys[p].pub /\ keys[p].pub \in Key

(* Unless there was harm: a public key on disk has its private key beside   *)
(* it and is the one saved; what was saved is on disk; while SaveKeys is at *)
(* work nothing is saved and no public key is there, and from openPub on the*)
(* private one is.                                                          *)
FilesOK ==
  /\ pub \in Key => priv = pub /\ pub \in saved
  /\ \A k \in saved : priv = k /\ pub = k
  /\ \A r \in Process :
       /\ pc[r] \in Saving => saved = {} /\ pub \notin Key
       /\ pc[r] \in {"openPub", "writePub"} => priv = keys[r].priv

(* What the processes know: a holder of the lock has the private key that is*)
(* on disk or the private half of its own pair, others have read a public   *)
(* key that was saved.                                                      *)
HalvesOK ==
  /\ \A p \in holds : pc[p] = "loadPub" => keys[p].priv = priv
  /\ \A p \in Process \ Run : Knows(p) => keys[p].pub \in saved

IdInv ==
  /\ Types /\ LockOK
  /\ ~harmed => FilesOK /\ HalvesOK /\ PairMatches /\ IdentityKept

LEMMA IdInit == Init => IdInv
<1> SUFFICES ASSUME Init PROVE IdInv
  OBVIOUS
<1>1. Types
  BY DEF Init, Types, Half, Blank
<1>2. \A p \in Process : pc[p] = "off" /\ ~ Knows(p)
  BY DEF Init, Knows, Blank
<1>3. LockOK
  BY <1>2 DEF LockOK, Saving, Process
<1>4. FilesOK
  BY <1>2, IdentityAssumption DEF Init, FilesOK, Saving
<1> QED
  BY <1>1, <1>2, <1>3, <1>4
  DEF Init, IdInv, HalvesOK, PairMatches, IdentityKept

LEMMA IdStep == IdInv /\ [Next]_vars => IdInv'
<1> SUFFICES ASSUME IdInv, [Next]_vars PROVE IdInv'
  OBVIOUS
<1> USE IdentityAssumption DEF IdInv, Types, LockOK, FilesOK, HalvesOK,
        PairMatches, IdentityKept, Saving, files, Half, Blank, Knows, Goto,
        Process
<1>1. ASSUME NEW r \in Run, Open(r) PROVE IdInv'
  BY <1>1 DEF Open
<1>2. ASSUME NEW r \in Run, GenerateKeys(r) PROVE IdInv'
  <2>1. PICK k \in Key : keys' = [keys EXCEPT ![r] = [priv |-> k, pub |-> k]]
    BY <1>2 DEF GenerateKeys
  <2>2. ~harmed' => ~harmed /\ ~Loadable
    BY <1>2 DEF GenerateKeys
  (* Were the public key readable, so would the private one be.             *)
  <2>3. ~harmed' => pub \notin Key /\ saved = {}
    BY <2>2, <1>2 DEF Loadable, GenerateKeys
  <2> QED
    BY <1>2, <2>1, <2>2, <2>3 DEF GenerateKeys
<1>3. ASSUME NEW r \in Run, OpenPriv(r) PROVE IdInv'
  BY <1>3 DEF OpenPriv
<1>4. ASSUME NEW r \in Run, WritePriv(r) PROVE IdInv'
  BY <1>4 DEF WritePriv
<1>5. ASSUME NEW r \in Run, OpenPub(r) PROVE IdInv'
  BY <1>5 DEF OpenPub
<1>6. ASSUME NEW r \in Run, WritePub(r) PROVE IdInv'
  BY <1>6 DEF WritePub
<1>7. ASSUME NEW r \in Run, SaveFails(r) PROVE IdInv'
  BY <1>7 DEF SaveFails
<1>8. ASSUME NEW t \in Tool, OpenReadOnly(t) PROVE IdInv'
  BY <1>8 DEF OpenReadOnly
<1>9. ASSUME NEW t \in Tool, Begin(t) PROVE IdInv'
  BY <1>9 DEF Begin
<1>10. ASSUME NEW p \in Process, LoadPriv(p) PROVE IdInv'
  BY <1>10 DEF LoadPriv
<1>11. ASSUME NEW p \in Process, LoadPub(p) PROVE IdInv'
  BY <1>11 DEF LoadPub
<1>12. ASSUME NEW p \in Process, End(p) PROVE IdInv'
  BY <1>12 DEF End
<1>13. CASE WriteBack
  BY <1>13 DEF WriteBack
<1>14. CASE PowerFails
  <2>1. ~harmed' => ~harmed /\ UNCHANGED <<priv, pub, saved>>
    BY <1>14 DEF PowerFails
  <2>2. pub' \in {pub, Broken, Absent}
    BY <1>14 DEF PowerFails
  <2> QED
    BY <1>14, <2>1, <2>2 DEF PowerFails
<1>15. CASE UNCHANGED vars
  BY <1>15 DEF vars
<1> QED
  BY <1>1, <1>2, <1>3, <1>4, <1>5, <1>6, <1>7, <1>8, <1>9, <1>10, <1>11, <1>12,
     <1>13, <1>14, <1>15 DEF Next, RunStep

(* Crashes, failing writes and commands at one time never make a holder of  *)
(* the lock have the halves of two pairs.                                   *)
THEOREM PairAlwaysMatches == Spec => []PairMatches
<1>1. IdInv => PairMatches
  BY DEF IdInv, PairMatches
<1> QED
  BY <1>1, IdInit, IdStep, PTL DEF Spec

(* An identity that was saved is the identity of every later process.       *)
THEOREM IdentityIsKept == Spec => []IdentityKept
<1>1. IdInv => IdentityKept
  BY DEF IdInv, IdentityKept
<1> QED
  BY <1>1, IdInit, IdStep, PTL DEF Spec

(* Processes of one data directory go by one key at any time.               *)
THEOREM OneKeyAtATime == Spec => []OneIdentity
<1>1. IdInv => OneIdentity
  <2> SUFFICES ASSUME IdInv, ~harmed, NEW p \in Process, NEW q \in Process,
                      Knows(p), Knows(q)
      PROVE  keys[p].pub = keys[q].pub
    BY DEF OneIdentity
  <2>1. CASE p \in Run /\ q \in Run
    BY <2>1 DEF IdInv, Types, LockOK, Process
  <2>2. CASE p \notin Run \/ q \notin Run
    BY <2>2 DEF IdInv, HalvesOK, IdentityKept
  <2> QED
    BY <2>1, <2>2
<1> QED
  BY <1>1, IdInit, IdStep, PTL DEF Spec
================================================================================
