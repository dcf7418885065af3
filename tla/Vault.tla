-------------------------------- MODULE Vault ---------------------------------
(***************************************************************************)
(* LocalVault of crates/electro-vault/src/local.rs: secrets in a cache and *)
(* in one file, which every change writes anew: to a temporary file named  *)
(* after the process, then renamed.  The lock on the cache is not held     *)
(* while the file is written, so every step of a write is a step here.     *)
(* Files are inodes, since a writer keeps the one it opened.               *)
(***************************************************************************)
EXTENDS Naturals, FiniteSets

CONSTANTS
  VaultWriters,    \* tasks that change secrets at the same time
  Secrets,         \* names of secrets
  MaxChanges       \* bound: changes; the n-th one stores the value n

ASSUME VaultAssumption == IsFiniteSet(VaultWriters) /\ Secrets # {} /\ MaxChanges \in Nat

VARIABLES
  secretCache,  \* the cache: the value of each secret, 0 where there is none
  changes,      \* changes so far
  writer,       \* per writer: how far it is
  changing,     \* per writer: the secret and the value it changes
  snap,         \* per writer: the snapshot it writes
  opened,       \* per writer: the inode it has open, 0 if none
  inode,        \* content of each inode
  vaultFile,    \* inode named vault.enc, 0 if there is no such file
  tmpFile,      \* inode named .vault.enc.tmp-<pid>, 0 if there is none
  settled,      \* per secret: the value an answered change left, Unsettled
                \* once another change begins (history variable)
  overlap       \* "now" once writers under way have met; "past" when those have
                \* ended and no write has replaced what they left (history variable)

vaultVars == <<secretCache, changes, writer, changing, snap, opened, inode,
               vaultFile, tmpFile, settled, overlap>>

Unsettled == MaxChanges + 1
TornMark == MaxChanges + 2
NoSecrets == [s \in Secrets |-> 0]
\* Two texts over each other: serde_json does not read it, the vault does not open.
Torn == [s \in Secrets |-> TornMark]
NoChange == [key |-> CHOOSE s \in Secrets : TRUE, value |-> 0]
Inodes == 1 .. (Cardinality(VaultWriters) + 2)
Content(i) == IF i = 0 THEN NoSecrets ELSE inode[i]
WriterAt(w, place) == writer[w] = place
WriterTo(w, place) == writer' = [writer EXCEPT ![w] = place]
WriterRests(w) ==
  /\ WriterTo(w, "idle") /\ snap' = [snap EXCEPT ![w] = NoSecrets]
  /\ changing' = [changing EXCEPT ![w] = NoChange]
FreeInode(i) == i \notin {vaultFile} \cup {opened[v] : v \in VaultWriters}

VaultInit ==
  /\ secretCache = NoSecrets /\ changes = 0
  /\ writer = [w \in VaultWriters |-> "idle"]
  /\ changing = [w \in VaultWriters |-> NoChange]
  /\ snap = [w \in VaultWriters |-> NoSecrets] /\ opened = [w \in VaultWriters |-> 0]
  /\ inode = [i \in Inodes |-> NoSecrets] /\ vaultFile = 0 /\ tmpFile = 0
  /\ settled = NoSecrets /\ overlap = "none"

\* A writer sets out: beside another, or alone.
SetsOut(w) ==
  overlap' = IF \E v \in VaultWriters \ {w} : ~WriterAt(v, "idle") THEN "now"
             ELSE IF overlap = "now" THEN "past" ELSE overlap

\* store_secret and delete_secret: the change of the cache.
ChangeSecret(w, s) ==
  /\ WriterAt(w, "idle") /\ changes < MaxChanges
  /\ changes' = changes + 1
  /\ \E value \in {0, changes + 1} :
       /\ secretCache' = [secretCache EXCEPT ![s] = value]
       /\ changing' = [changing EXCEPT ![w] = [key |-> s, value |-> value]]
  /\ settled' = [settled EXCEPT ![s] = Unsettled]
  /\ WriterTo(w, "flush") /\ SetsOut(w)
  /\ UNCHANGED <<snap, opened, inode, vaultFile, tmpFile>>

\* flush: the whole cache as it is now.
TakeSnapshot(w) ==
  /\ WriterAt(w, "flush") /\ WriterTo(w, "create")
  /\ snap' = [snap EXCEPT ![w] = secretCache]
  /\ UNCHANGED <<secretCache, changes, changing, opened, inode, vaultFile, tmpFile, settled, overlap>>

\* Mutant: the vault file itself is opened, without a temporary one.
CreateInPlace(w) ==
  /\ WriterAt(w, "create") /\ WriterTo(w, "fill")
  /\ \E i \in Inodes :
       /\ IF vaultFile # 0 THEN i = vaultFile ELSE i \notin {opened[v] : v \in VaultWriters}
       /\ vaultFile' = i /\ opened' = [opened EXCEPT ![w] = i]
       /\ inode' = [inode EXCEPT ![i] = NoSecrets]
  /\ UNCHANGED <<secretCache, changes, changing, snap, tmpFile, settled, overlap>>

\* fs::write opens the temporary file, cut to nothing, or makes it.
CreateTmp(w) ==
  /\ WriterAt(w, "create") /\ WriterTo(w, "fill")
  /\ \E i \in Inodes :
       /\ IF tmpFile # 0 THEN i = tmpFile ELSE \A j \in 1 .. i : FreeInode(j) <=> j = i
       /\ tmpFile' = i /\ opened' = [opened EXCEPT ![w] = i]
       /\ inode' = [inode EXCEPT ![i] = NoSecrets]
  /\ UNCHANGED <<secretCache, changes, changing, snap, vaultFile, settled, overlap>>

\* It writes the snapshot: over what another writer has written meanwhile, a
\* longer text leaves its end behind.  The disk may be full.
FillTmp(w) ==
  /\ WriterAt(w, "fill") /\ opened' = [opened EXCEPT ![w] = 0]
  /\ \/ /\ \/ inode' = [inode EXCEPT ![opened[w]] = snap[w]]
           \/ inode[opened[w]] # NoSecrets /\ inode' = [inode EXCEPT ![opened[w]] = Torn]
        /\ WriterTo(w, "rename") /\ UNCHANGED <<snap, changing>>
     \/ inode' = [inode EXCEPT ![opened[w]] = Torn] /\ WriterRests(w)
  /\ UNCHANGED <<secretCache, changes, vaultFile, tmpFile, settled, overlap>>

\* The caller is answered Ok: its change has settled unless another is under way.
VaultOk(w) ==
  LET c == changing[w]
      busy == \E v \in VaultWriters \ {w} : ~WriterAt(v, "idle") /\ changing[v].key = c.key
  IN settled' = IF busy \/ secretCache[c.key] # c.value THEN settled
                ELSE [settled EXCEPT ![c.key] = c.value]

\* rename; when it fails the temporary file is removed.  A write that met no
\* other replaces what others have left.
RenameTmp(w) ==
  /\ WriterAt(w, "rename") /\ WriterRests(w) /\ tmpFile' = 0
  /\ \/ /\ tmpFile # 0 /\ vaultFile' = tmpFile /\ VaultOk(w)
        /\ overlap' = IF overlap = "past" THEN "none" ELSE overlap
     \/ UNCHANGED <<vaultFile, settled, overlap>>
  /\ UNCHANGED <<secretCache, changes, opened, inode>>

\* The process ends and a new one, with another pid, loads the file: it answers
\* for what it has read, where its predecessor's writers had overlapped.
VaultRestart ==
  /\ Content(vaultFile) # Torn
  /\ \E w \in VaultWriters : ~WriterAt(w, "idle")
  /\ secretCache' = Content(vaultFile)
  /\ writer' = [w \in VaultWriters |-> "idle"] /\ opened' = [w \in VaultWriters |-> 0]
  /\ snap' = [w \in VaultWriters |-> NoSecrets]
  /\ changing' = [w \in VaultWriters |-> NoChange] /\ tmpFile' = 0 /\ overlap' = "none"
  /\ settled' = IF overlap = "none" THEN settled ELSE [s \in Secrets |-> Unsettled]
  /\ UNCHANGED <<changes, inode, vaultFile>>

VaultNext ==
  \/ \E w \in VaultWriters :
       \/ \E s \in Secrets : ChangeSecret(w, s)
       \/ TakeSnapshot(w) \/ CreateTmp(w) \/ FillTmp(w) \/ RenameTmp(w)
  \/ VaultRestart

VaultSpec == VaultInit /\ [][VaultNext]_vaultVars

-----------------------------------------------------------------------------
\* Every variable keeps its type.
VaultTypeOK ==
  LET contents == [Secrets -> 0 .. TornMark]
  IN /\ secretCache \in [Secrets -> 0 .. MaxChanges] /\ changes \in 0 .. MaxChanges
     /\ writer \in [VaultWriters -> {"idle", "flush", "create", "fill", "rename"}]
     /\ changing \in [VaultWriters -> [key : Secrets, value : 0 .. MaxChanges]]
     /\ snap \in [VaultWriters -> contents] /\ opened \in [VaultWriters -> {0} \cup Inodes]
     /\ inode \in [Inodes -> contents]
     /\ vaultFile \in {0} \cup Inodes /\ tmpFile \in {0} \cup Inodes
     /\ settled \in [Secrets -> 0 .. Unsettled] /\ overlap \in {"none", "now", "past"}

\* Wherever the process ends, the file can be read and holds every change that
\* was answered Ok: "persistence across vault instances".  Writers that overlap
\* share the name of the temporary file and may leave half of it, or an older
\* snapshot, in its place; the first whole write that meets no other makes good
\* what they left, the changes of all of them included.
VaultDurable ==
  overlap = "none" =>
    /\ Content(vaultFile) # Torn
    /\ \A s \in Secrets : settled[s] # Unsettled => Content(vaultFile)[s] = settled[s]
=============================================================================
