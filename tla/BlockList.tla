------------------------------ MODULE BlockList ------------------------------
(***************************************************************************)
(* The global block list, block.json: guardians sign it with "sign-block", *)
(* it is published, a node downloads it at its start and once an hour over *)
(* its own copy, and loads that copy at its start (internal/block and      *)
(* cmd/boomnode).  The node and the tool work in one directory.  Writes    *)
(* are os.WriteFile: truncate, then write; either may fail, and the        *)
(* process may end between them.                                           *)
(***************************************************************************)
EXTENDS Naturals, Sequences, FiniteSets

CONSTANTS
  Guardian,   \* key holders
  Doc,        \* the lists there are: a file without its signatures
  Guardians,  \* [Doc -> SUBSET Guardian]: the guardians a list names
  Quorum,     \* [Doc -> Nat]
  BansMe,     \* the lists that have this node's address
  Broken,     \* what does not parse: no file, an empty or a mixed-up one
  None,
  MaxSigs     \* bound: signatures in one file

ASSUME BlockListAssumption ==
  /\ Guardians \in [Doc -> SUBSET Guardian]
  /\ Quorum \in [Doc -> Nat]
  /\ BansMe \subseteq Doc
  /\ None \notin Doc
  /\ MaxSigs \in Nat

VARIABLES
  file,      \* block.json in the working directory: [doc, sigs], or Broken
  wiki,      \* what is published at blockListURL
  pc,        \* where the node stands: its start, or the hourly sync
  data,      \* what it has downloaded and not written yet
  enforced,  \* the list in force, runNode's map "banned"; None for nil
  tool,      \* where a sign-block stands
  read,      \* the file it has read
  signer,    \* whose key it signs with
  signed     \* history: the signatures ever made, <<guardian, list>>

node    == <<pc, data, enforced>>
signing == <<tool, read, signer, signed>>
vars    == <<file, wiki, node, signing>>

-------------------------------------------------------------------------------
(* Mutant: what is signed is the file as it was, not the list it holds.     *)
ValidForAny(s, d) == s[1] \in Guardians[d]

(* ed25519.Verify, of any of the guardians the list names.                  *)
Valid(s, d) == s[1] \in Guardians[d] /\ s[2] = d

ValidSigs(f) == Cardinality({i \in DOMAIN f.sigs : Valid(f.sigs[i], f.doc)})

LoadBlockList(f) ==
  IF f # Broken /\ ValidSigs(f) >= Quorum[f.doc] THEN f.doc ELSE None

(* The field "signatures" is deleted before the signing, so the list that is*)
(* appended to afterwards is always a new one.                              *)
SignBlock(f, g) == [doc |-> f.doc, sigs |-> <<<<g, f.doc>>>>]

(* os.WriteFile after its truncation: done, or failed, or mixed up with what*)
(* another process writes.                                                  *)
Writes(content) == file' \in {content, Broken}

-------------------------------------------------------------------------------
(* downloadBlockList and the load, at the start of "run".                   *)

(* http.Get, and a body of status 200, which need not be a list.            *)
Get(from, next) ==
  /\ pc = from
  /\ data' \in {wiki, Broken}
  /\ pc' = next
  /\ UNCHANGED <<file, wiki, enforced, signing>>

GetFails ==
  /\ pc = "off"
  /\ pc' = "load"
  /\ UNCHANGED <<file, wiki, data, enforced, signing>>

Truncate(from, next) ==
  /\ pc = from
  /\ file' = Broken
  /\ pc' = next
  /\ UNCHANGED <<wiki, data, enforced, signing>>

(* An error of the write is reported as one of the download: "Using local   *)
(* block.json", of which nothing is left.                                   *)
Write(from, next) ==
  /\ pc = from
  /\ Writes(data)
  /\ pc' = next
  /\ data' = Broken
  /\ UNCHANGED <<wiki, enforced, signing>>

Load ==
  /\ pc = "load"
  /\ LET d == LoadBlockList(file) IN
       IF d \in BansMe THEN pc' = "off" /\ UNCHANGED enforced
       ELSE pc' = "running" /\ enforced' = d
  /\ UNCHANGED <<file, wiki, data, signing>>

Stop ==
  /\ pc # "off"
  /\ pc' = "off"
  /\ data' = Broken /\ enforced' = None
  /\ UNCHANGED <<file, wiki, signing>>

Start == Get("off", "open") \/ Truncate("open", "write")
           \/ Write("write", "load")

(* The list in force stays the one loaded at the start.                     *)
Sync == Get("running", "syncOpen") \/ Truncate("syncOpen", "syncWrite")
          \/ Write("syncWrite", "running")

-------------------------------------------------------------------------------
(* sign-block.  On a file that does not parse it ends without writing.      *)
ReadToSign(g) ==
  /\ tool = "idle"
  /\ file # Broken
  /\ read' = file
  /\ signer' = g
  /\ signed' = signed \cup {<<g, file.doc>>}
  /\ tool' = "open"
  /\ UNCHANGED <<file, wiki, node>>

OpenToSign ==
  /\ tool = "open"
  /\ file' = Broken
  /\ tool' = "write"
  /\ UNCHANGED <<wiki, node, read, signer, signed>>

EndTool == tool' = "idle" /\ read' = Broken /\ signer' = None

WriteSigned ==
  /\ tool = "write"
  /\ Writes(SignBlock(read, signer))
  /\ EndTool
  /\ UNCHANGED <<wiki, node, signed>>

KillTool ==
  /\ tool # "idle"
  /\ EndTool
  /\ UNCHANGED <<file, wiki, node, signed>>

-------------------------------------------------------------------------------
(* The people: they change the list and leave the signatures of the old one *)
(* in the file, paste in a signature that was made, and publish.            *)
Edit ==
  /\ tool = "idle"
  /\ \E d \in Doc :
       file' = [doc |-> d, sigs |-> IF file = Broken THEN <<>> ELSE file.sigs]
  /\ UNCHANGED <<wiki, node, signing>>

Paste ==
  /\ tool = "idle"
  /\ file # Broken /\ Len(file.sigs) < MaxSigs
  /\ \E s \in signed : file' = [file EXCEPT !.sigs = Append(@, s)]
  /\ UNCHANGED <<wiki, node, signing>>

Publish ==
  /\ wiki' = file
  /\ UNCHANGED <<file, node, signing>>

-------------------------------------------------------------------------------
Init ==
  /\ file \in {Broken} \cup {[doc |-> d, sigs |-> <<>>] : d \in Doc}
  /\ wiki = Broken
  /\ pc = "off" /\ data = Broken /\ enforced = None
  /\ tool = "idle" /\ read = Broken /\ signer = None /\ signed = {}

Next ==
  \/ Start \/ GetFails \/ Load \/ Sync \/ Stop
  \/ \E g \in Guardian : ReadToSign(g)
  \/ OpenToSign \/ WriteSigned \/ KillTool
  \/ Edit \/ Paste \/ Publish

Spec == Init /\ [][Next]_vars

-------------------------------------------------------------------------------
(* The list in force, if it asks for signatures at all, is one that a       *)
(* guardian it names has signed as it is: signatures left from an earlier   *)
(* list, torn or mixed-up files, and a tool that signs what the sync is     *)
(* replacing do not bring in another one.                                   *)
EnforcedSigned ==
  enforced # None /\ Quorum[enforced] > 0 =>
    \E g \in Guardians[enforced] : <<g, enforced>> \in signed

(* Signing adds a signature: what a file had stays ("Verify the             *)
(* multisignature" needs as many as the quorum says).                       *)
SignaturesKept ==
  tool = "write" =>
    \A i \in DOMAIN read.sigs :
      \E j \in DOMAIN SignBlock(read, signer).sigs :
        SignBlock(read, signer).sigs[j] = read.sigs[i]
================================================================================
