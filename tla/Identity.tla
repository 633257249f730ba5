------------------------------- MODULE Identity -------------------------------
(***************************************************************************)
(* The identity of a node: the key pair in two files of its data directory *)
(* (internal/crypto).  "run" opens the database first, which locks it for  *)
(* itself (internal/storage), loads the keys and, when that fails for      *)
(* whatever reason, generates a pair and writes it over what is there.     *)
(* "ban" loads them under a lock it shares with other readers; "msg",      *)
(* "status", "pubkey" and "sign-block" load them without any lock.         *)
(* Commands start and end at any time, a write can fail, the machine can   *)
(* lose what the kernel had not yet written back, a read can fail.         *)
(***************************************************************************)
CONSTANTS
  Run,      \* processes of "run" in one data directory
  Tool,     \* processes of the other commands
  Key,      \* key pairs; a file holds one half of one
  NoKey,    \* a half that a process has not
  Absent,   \* there is no such file
  Broken    \* the file is empty or cut short: LoadKeys cannot parse it

Process == Run \cup Tool
Half    == Key \cup {NoKey}

ASSUME IdentityAssumption ==
  /\ NoKey \notin Key /\ Absent \notin Key /\ Broken \notin Key
  /\ Run \cap Tool = {}

VARIABLES
  priv, pub,  \* the files boomnode_ed25519 and boomnode_ed25519.pub
  dirty,      \* those of them the kernel has not written back
  holds,      \* the processes that hold the lock of boomnode.db
  pc,         \* where a process stands
  keys,       \* the halves it has in memory
  saved,      \* history: the pairs that SaveKeys has written without an error,
              \* since the last harm
  harmed      \* history: unwritten data was lost, or an intact file not read

files == <<priv, pub, dirty>>
vars  == <<files, holds, pc, keys, saved, harmed>>

Goto(p, at) == pc' = [pc EXCEPT ![p] = at]

-------------------------------------------------------------------------------
(* Mutant: the database is opened without its lock.                         *)
OpenUnlocked(r) ==
  /\ pc[r] = "off"
  /\ holds' = holds \cup {r}
  /\ Goto(r, "loadPriv")
  /\ UNCHANGED <<files, keys, saved, harmed>>

(* bolt.Open for "run": it waits until nobody has the database open.        *)
Open(r) ==
  /\ pc[r] = "off"
  /\ holds = {}
  /\ holds' = {r}
  /\ Goto(r, "loadPriv")
  /\ UNCHANGED <<files, keys, saved, harmed>>

(* bolt.Open for "ban": it waits until no "run" has the database open.      *)
OpenReadOnly(t) ==
  /\ pc[t] = "off"
  /\ holds \cap Run = {}
  /\ holds' = holds \cup {t}
  /\ Goto(t, "loadPriv")
  /\ UNCHANGED <<files, keys, saved, harmed>>

(* The other commands open no database.                                     *)
Begin(t) ==
  /\ pc[t] = "off"
  /\ Goto(t, "loadPriv")
  /\ UNCHANGED <<files, holds, keys, saved, harmed>>

-------------------------------------------------------------------------------
(* LoadKeys: the one file, then the other, is read and parsed; nobody asks  *)
(* whether they are a pair.  A command that cannot load them ends.          *)
LoadPriv(p) ==
  /\ pc[p] = "loadPriv"
  /\ priv \in Key
  /\ keys' = [keys EXCEPT ![p].priv = priv]
  /\ Goto(p, "loadPub")
  /\ UNCHANGED <<files, holds, saved, harmed>>

LoadPub(p) ==
  /\ pc[p] = "loadPub"
  /\ pub \in Key
  /\ keys' = [keys EXCEPT ![p].pub = pub]
  /\ Goto(p, "running")
  /\ UNCHANGED <<files, holds, saved, harmed>>

Loadable == priv \in Key /\ pub \in Key

(* LoadKeys fails, be it on intact files: runNode generates a pair, one that*)
(* is nowhere yet.                                                          *)
GenerateKeys(r) ==
  /\ pc[r] \in {"loadPriv", "loadPub"}
  /\ \E k \in Key \ ({priv, pub} \cup saved) :
       /\ \A p \in Process : k \notin {keys[p].priv, keys[p].pub}
       /\ keys' = [keys EXCEPT ![r] = [priv |-> k, pub |-> k]]
  /\ harmed' = (harmed \/ Loadable)
  /\ saved' = IF Loadable THEN {} ELSE saved
  /\ Goto(r, "openPriv")
  /\ UNCHANGED <<files, holds>>

-------------------------------------------------------------------------------
(* SaveKeys: os.WriteFile truncates, then writes, first the one file, then  *)
(* the other.                                                               *)
OpenPriv(r) ==
  /\ pc[r] = "openPriv"
  /\ priv' = Broken
  /\ dirty' = dirty \cup {"priv"}
  /\ Goto(r, "writePriv")
  /\ UNCHANGED <<pub, holds, keys, saved, harmed>>

WritePriv(r) ==
  /\ pc[r] = "writePriv"
  /\ priv' = keys[r].priv
  /\ dirty' = dirty \cup {"priv"}
  /\ Goto(r, "openPub")
  /\ UNCHANGED <<pub, holds, keys, saved, harmed>>

OpenPub(r) ==
  /\ pc[r] = "openPub"
  /\ pub' = Broken
  /\ dirty' = dirty \cup {"pub"}
  /\ Goto(r, "writePub")
  /\ UNCHANGED <<priv, holds, keys, saved, harmed>>

WritePub(r) ==
  /\ pc[r] = "writePub"
  /\ pub' = keys[r].pub
  /\ dirty' = dirty \cup {"pub"}
  /\ saved' = saved \cup {keys[r].pub}
  /\ Goto(r, "running")
  /\ UNCHANGED <<priv, holds, keys, harmed>>

Saving == {"openPriv", "writePriv", "openPub", "writePub"}

(* Mutant: SaveKeys does not look at the errors of its writes.              *)
SaveFailsUnseen(r) ==
  /\ pc[r] \in Saving
  /\ Goto(r, "running")
  /\ saved' = saved \cup {keys[r].pub}
  /\ UNCHANGED <<files, holds, keys, harmed>>

(* SaveKeys returns the error of an open or a write; runNode goes on.       *)
SaveFails(r) ==
  /\ pc[r] \in Saving
  /\ Goto(r, "running")
  /\ UNCHANGED <<files, holds, keys, saved, harmed>>

-------------------------------------------------------------------------------
Blank == [priv |-> NoKey, pub |-> NoKey]

(* A process ends, by itself or not, and with it its lock.                  *)
End(p) ==
  /\ pc[p] # "off"
  /\ Goto(p, "off")
  /\ keys' = [keys EXCEPT ![p] = Blank]
  /\ holds' = holds \ {p}
  /\ UNCHANGED <<files, saved, harmed>>

WriteBack ==
  /\ \E f \in dirty : dirty' = dirty \ {f}
  /\ UNCHANGED <<priv, pub, holds, pc, keys, saved, harmed>>

PowerFails ==
  /\ dirty # {}
  /\ priv' \in IF "priv" \in dirty THEN {priv, Broken, Absent} ELSE {priv}
  /\ pub' \in IF "pub" \in dirty THEN {pub, Broken, Absent} ELSE {pub}
  /\ dirty' = {}
  /\ LET lost == <<priv', pub'>> # <<priv, pub>> IN
       /\ harmed' = (harmed \/ lost)
       /\ saved' = IF lost THEN {} ELSE saved
  /\ holds' = {}
  /\ pc' = [p \in Process |-> "off"]
  /\ keys' = [p \in Process |-> Blank]

-------------------------------------------------------------------------------
Init ==
  /\ priv = Absent /\ pub = Absent /\ dirty = {}
  /\ holds = {}
  /\ pc = [p \in Process |-> "off"]
  /\ keys = [p \in Process |-> Blank]
  /\ saved = {} /\ harmed = FALSE

RunStep(r) ==
  \/ Open(r) \/ GenerateKeys(r)
  \/ OpenPriv(r) \/ WritePriv(r) \/ OpenPub(r) \/ WritePub(r) \/ SaveFails(r)

Next ==
  \/ \E r \in Run : RunStep(r)
  \/ \E t \in Tool : OpenReadOnly(t) \/ Begin(t)
  \/ \E p \in Process : LoadPriv(p) \/ LoadPub(p) \/ End(p)
  \/ WriteBack \/ PowerFails

Spec == Init /\ [][Next]_vars

-------------------------------------------------------------------------------
Knows(p) == keys[p].pub # NoKey

(* Unless data was lost or an intact file could not be read, a command that *)
(* holds the lock, a node above all, has the private half of the very key   *)
(* its address is made from: commands started at the same time, stopped     *)
(* between the two writes, or with failing writes, never leave or read the  *)
(* halves of two pairs.  (A command without the lock can read them while    *)
(* one node that has not saved its keys makes room for the next.)           *)
PairMatches ==
  ~harmed => \A p \in holds : Knows(p) => keys[p].priv = keys[p].pub

(* Once SaveKeys has succeeded, every later node and every command, with the*)
(* lock or without, goes by the key it saved.                               *)
IdentityKept ==
  ~harmed => \A p \in Process, k \in saved : Knows(p) => keys[p].pub = k

(* Nodes and commands that run at one time in one data directory go by one  *)
(* key: "ban", "msg self" and "status" speak of the node that runs.         *)
OneIdentity ==
  ~harmed => \A p, q \in Process : Knows(p) /\ Knows(q) =>
                                     keys[p].pub = keys[q].pub
================================================================================
