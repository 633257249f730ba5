---------------------------- MODULE MailBucketProofs ----------------------------
(***************************************************************************)
(* Lemmas about the bucket's operators, for whatever keeps rows in it.     *)
(***************************************************************************)
EXTENDS MailBucket, WellFoundedInduction, TLAPS

(* With a new stamp no key is written twice: a store only adds a row.       *)
LEMMA NewStampAdds ==
  ASSUME NEW rows \in SUBSET Row, NEW now \in Nat, NEW m \in Mail,
         \A r \in rows : r.stamp <= now
  PROVE  StoreMessageForRelay(rows, m, now + 1) =
           rows \cup {[mail |-> m, stamp |-> now + 1]}
<1> DEFINE new == [mail |-> m, stamp |-> now + 1]
<1>1. ASSUME NEW r \in rows PROVE Key(r) # Key(new)
  <2>1. r.stamp \in Nat /\ r.stamp <= now
    BY DEF Row
  <2>2. r.stamp # new.stamp
    BY <2>1
  <2> QED
    BY <2>2 DEF Key
<1> QED
  BY <1>1 DEF StoreMessageForRelay

(* A FETCH finds rows of the bucket, and a DELETE leaves rows of it.        *)
LEMMA FetchedRows ==
  ASSUME NEW rows \in SUBSET Row, NEW a
  PROVE  /\ FetchMessagesForRelay(rows, a) \in SUBSET Row
         /\ MailOf(FetchMessagesForRelay(rows, a)) \subseteq Mail
  BY DEF FetchMessagesForRelay, MailOf, Row

LEMMA LeastStamp ==
  ASSUME NEW S \in SUBSET Nat, S # {}
  PROVE  \E s \in S : \A t \in S : s <= t
<1>1. PICK R : R = OpToRel(<, Nat)
  OBVIOUS
<1>2. \A x, y \in Nat : x < y => <<x, y>> \in R
  BY <1>1 DEF OpToRel
<1>3. IsWellFoundedOn(R, Nat)
  BY <1>1, NatLessThanWellFounded
<1>4. PICK s \in S : \A t \in S : ~(<<t, s>> \in R)
  BY <1>3, WFMin
<1>5. ASSUME NEW t \in S PROVE s <= t
  <2>1. s \in Nat /\ t \in Nat
    OBVIOUS
  <2>2. ~(t < s)
    BY <1>2, <1>4, <2>1, Zenon
  <2> QED
    BY <2>1, <2>2
<1> QED
  BY <1>5

(* A walk over rows has a first one.                                        *)
LEMMA FirstExists ==
  ASSUME NEW rows \in SUBSET Row, rows # {}
  PROVE  FirstOf(rows) # {}
<1> PICK e \in rows : TRUE
  OBVIOUS
<1> DEFINE Rivals == {r \in rows : To[r.mail] = To[e.mail] /\ From[r.mail] = From[e.mail]}
           Stamps == {r.stamp : r \in Rivals}
<1>1. Stamps \subseteq Nat /\ e.stamp \in Stamps
  BY DEF Row
<1>2. PICK s \in Stamps : \A t \in Stamps : s <= t
  <2> HIDE DEF Stamps
  <2> QED
    BY <1>1, LeastStamp
<1>3. PICK r \in Rivals : r.stamp = s
  OBVIOUS
<1>4. ASSUME NEW q \in rows, To[q.mail] = To[r.mail], From[q.mail] = From[r.mail]
      PROVE  r.stamp <= q.stamp
  <2>1. q \in Rivals
    BY <1>4
  <2>2. q.stamp \in Stamps /\ q.stamp \in Nat /\ r.stamp \in Nat
    BY <1>1, <2>1
  <2> QED
    BY <1>2, <1>3, <2>2
<1> QED
  BY <1>4 DEF FirstOf

(* A message a DELETE takes has the ID of one in the batch.                 *)
LEMMA DeletedById ==
  ASSUME NEW rows \in SUBSET Row, NEW gone \in SUBSET Row, NEW m \in MailOf(rows)
  PROVE  \/ m \in MailOf(DeleteMessagesForRelay(rows, gone))
         \/ \E n \in MailOf(gone) : Id[n] = Id[m]
<1>1. PICK r \in rows : m = r.mail
  BY DEF MailOf
<1>2. CASE r \in DeleteMessagesForRelay(rows, gone)
  BY <1>1, <1>2 DEF MailOf
<1>3. CASE r \notin DeleteMessagesForRelay(rows, gone)
  BY <1>1, <1>3 DEF DeleteMessagesForRelay, MailOf
<1> QED
  BY <1>2, <1>3

(* The three functions fit together.  A FETCH whose DELETE succeeds leaves  *)
(* nothing that the next FETCH of the same address would find: no mail is   *)
(* handed out for ever, whatever the IDs are and however addresses share    *)
(* their beginnings.  And it takes the recipient's rows and no others, when *)
(* they do not.                                                             *)
THEOREM FetchThenDelete ==
  ASSUME NEW rows \in SUBSET Row, NEW a \in Address,
         NEW left,
         left = DeleteMessagesForRelay(rows, FetchMessagesForRelay(rows, a))
  PROVE  /\ FetchMessagesForRelay(left, a) = {}
         /\ UniqueIds /\ PrefixFree => left = {r \in rows : To[r.mail] # a}
<1> DEFINE batch == FetchMessagesForRelay(rows, a)
<1>1. \A r \in rows : r.mail \in Mail /\ To[r.mail] \in Address
  BY MailAssumption DEF Row
<1>2. ASSUME NEW r \in left PROVE r \notin batch
  BY <1>2 DEF DeleteMessagesForRelay
<1>3. FetchMessagesForRelay(left, a) \subseteq batch \cap left
  BY DEF FetchMessagesForRelay, DeleteMessagesForRelay
<1>4. ASSUME UniqueIds, PrefixFree, NEW r \in rows
      PROVE  r \in left <=> To[r.mail] # a
  <2>1. \A q \in rows : q \in batch <=> To[q.mail] = a
    BY <1>1, <1>4, MailAssumption DEF FetchMessagesForRelay, PrefixFree
  <2>2. r \in left <=> \A b \in batch : Id[b.mail] # Id[r.mail]
    BY DEF DeleteMessagesForRelay
  <2>3. \A b \in batch : b \in rows
    BY DEF FetchMessagesForRelay
  <2>4. \A b \in batch : Id[b.mail] = Id[r.mail] => b.mail = r.mail
    BY <1>1, <1>4, <2>3 DEF UniqueIds
  <2> HIDE DEF batch
  <2> QED
    BY <2>1, <2>2, <2>3, <2>4
<1> QED
  BY <1>2, <1>3, <1>4 DEF DeleteMessagesForRelay
================================================================================
