------------------------------ MODULE MailBucket ------------------------------
(***************************************************************************)
(* The bbolt bucket "messages_msg" in which a node keeps mail for others,  *)
(* and the three functions of internal/boomex that touch it.  A bbolt      *)
(* transaction is atomic, so each function is an operator from the rows    *)
(* before the transaction to the rows after it (Store, Delete) or to its   *)
(* result (Fetch).  The variables live in the modules that EXTEND this one.*)
(***************************************************************************)
EXTENDS Naturals

CONSTANTS
  Address,   \* BM addresses and echo area names: what To and From may hold
  Mail,      \* the messages of the model
  To, From,  \* [Mail -> Address]: the fields Message.To and Message.From
  Id,        \* a function on Mail: the field Message.ID
  PrefixOf   \* the pairs <<a, b>> such that a row key made for b starts with a

(* A sender's ID is the decimal UnixNano of its own clock, so nothing here  *)
(* says that Id is injective; the properties that need it assume UniqueIds. *)
ASSUME MailAssumption ==
  /\ To \in [Mail -> Address]
  /\ From \in [Mail -> Address]
  /\ DOMAIN Id = Mail
  /\ PrefixOf \subseteq Address \X Address
  /\ \A a \in Address : <<a, a>> \in PrefixOf

UniqueIds  == \A m, n \in Mail : Id[m] = Id[n] => m = n
PrefixFree == \A a, b \in Address : <<a, b>> \in PrefixOf => a = b

(* A row: the marshalled message under the key To_From_UnixNano.            *)
Row == [mail : Mail, stamp : Nat]

Key(r) == <<To[r.mail], From[r.mail], r.stamp>>

MailOf(rows) == {r.mail : r \in rows}

(* b.Put under a key that exists overwrites the row of that key.            *)
StoreMessageForRelay(rows, m, now) ==
  LET new == [mail |-> m, stamp |-> now]
  IN  {r \in rows : Key(r) # Key(new)} \cup {new}

(* Mutant: the walk does not stop where the keys no longer match.           *)
FetchEveryRow(rows, recipient) == rows

(* The cursor seeks the recipient and walks on while the key starts with it.*)
FetchMessagesForRelay(rows, recipient) ==
  {r \in rows : <<recipient, To[r.mail]>> \in PrefixOf}

(* The walk is in key order: of two rows with one To and one From, the older*)
(* first.  How the keys of different senders compare is left open.          *)
FirstOf(rows) ==
  {r \in rows : \A q \in rows :
     /\ To[q.mail] = To[r.mail]
     /\ From[q.mail] = From[r.mail]
     => r.stamp <= q.stamp}

(* Mutant: the bucket is emptied.                                           *)
DeleteEveryRow(rows, batch) == {}

(* Every row of the bucket, whoever it is for, whose message has the ID of a*)
(* message of the batch.                                                    *)
DeleteMessagesForRelay(rows, batch) ==
  {r \in rows : \A b \in batch : Id[b.mail] # Id[r.mail]}
================================================================================
