-------------------------------- MODULE Markdown -------------------------------
(***************************************************************************)
(* MarkdownMemory of crates/electro-memory/src/markdown.rs: entries in     *)
(* files that are read whole, changed in memory and written back, by calls *)
(* that no lock keeps apart.  A file is a sequence of blocks: entries, and *)
(* text somebody wrote around them.  A write truncates the file first, and *)
(* the process may stop in between.                                        *)
(***************************************************************************)
EXTENDS Naturals, Sequences, FiniteSets, SequencesExt

CONSTANTS
  MdFiles,    \* MEMORY.md and the daily files
  MdEntries,  \* bound: the entries, each stored once
  MdCalls,    \* calls under way at the same time
  FileOf,     \* the file store puts an entry in
  NoFile

\* Blocks of other text, which no call writes.
Prose == "prose"

ASSUME MarkdownAssumption ==
  FileOf \in [MdEntries -> MdFiles] /\ NoFile \notin MdFiles /\ Prose \notin MdEntries

VARIABLES
  blocks,    \* what the files hold
  mdStep,    \* per call
  target,    \* per call: the entry to store or delete
  todo,      \* per delete: files still to look at
  reading,   \* per call: the file it read
  content,   \* per call: what it read
  stored,    \* entries whose store was confirmed (history)
  deleting,   \* entries whose delete was begun (history)
  gone,      \* entries whose delete was confirmed (history)
  spoiled    \* files that were read while another call rewrote them, or whose
             \* rewriting was cut off (history)

markdownVars == <<blocks, mdStep, target, todo, reading, content, stored, deleting, gone, spoiled>>

MarkdownInit ==
  /\ blocks \in [MdFiles -> {<<>>, <<Prose>>}]
  /\ mdStep = [c \in MdCalls |-> "idle"] /\ target = [c \in MdCalls |-> Prose]
  /\ todo = [c \in MdCalls |-> {}] /\ reading = [c \in MdCalls |-> NoFile]
  /\ content = [c \in MdCalls |-> <<>>]
  /\ stored = {} /\ deleting = {} /\ gone = {} /\ spoiled = {}

InUse == {target[c] : c \in MdCalls}
MdAt(c, place) == mdStep[c] = place
MdTo(c, place) == mdStep' = [mdStep EXCEPT ![c] = place]
\* Another call has read this file and is going to write it.
Rewriting(c, f) == \E d \in MdCalls \ {c} : reading[d] = f

\* store: append_to_file reads the file,
Store(c, e) ==
  /\ MdAt(c, "idle") /\ e \notin stored \cup deleting \cup InUse
  /\ target' = [target EXCEPT ![c] = e] /\ MdTo(c, "append")
  /\ reading' = [reading EXCEPT ![c] = FileOf[e]]
  /\ content' = [content EXCEPT ![c] = blocks[FileOf[e]]]
  /\ spoiled' = spoiled \cup {f \in {FileOf[e]} : Rewriting(c, f)}
  /\ UNCHANGED <<blocks, todo, stored, deleting, gone>>

\* delete: the files are looked at one after the other,
Delete(c, e) ==
  /\ MdAt(c, "idle") /\ e \in stored \ (deleting \cup InUse)
  /\ target' = [target EXCEPT ![c] = e] /\ deleting' = deleting \cup {e}
  /\ MdTo(c, "look") /\ todo' = [todo EXCEPT ![c] = MdFiles]
  /\ UNCHANGED <<blocks, reading, content, stored, gone, spoiled>>
LookIn(c, f) ==
  /\ MdAt(c, "look") /\ f \in todo[c] /\ todo' = [todo EXCEPT ![c] = @ \ {f}]
  /\ IF target[c] \in Range(blocks[f])
     THEN /\ MdTo(c, "rewrite") /\ reading' = [reading EXCEPT ![c] = f]
          /\ content' = [content EXCEPT ![c] = blocks[f]]
     ELSE UNCHANGED <<mdStep, reading, content>>
  /\ spoiled' = spoiled \cup {g \in {f} : Rewriting(c, g)}
  /\ UNCHANGED <<blocks, target, stored, deleting, gone>>

\* fs::write truncates the file before it writes what the call made of it.
TruncateFile(c) ==
  /\ mdStep[c] \in {"append", "rewrite"}
  /\ blocks' = [blocks EXCEPT ![reading[c]] = <<>>]
  /\ MdTo(c, IF MdAt(c, "append") THEN "appending" ELSE "rewriting")
  /\ UNCHANGED <<target, todo, reading, content, stored, deleting, gone, spoiled>>

EndMdCall(c) ==
  /\ MdTo(c, "idle") /\ target' = [target EXCEPT ![c] = Prose]
  /\ reading' = [reading EXCEPT ![c] = NoFile] /\ content' = [content EXCEPT ![c] = <<>>]
  /\ todo' = [todo EXCEPT ![c] = {}]

\* Mutant: the new entry replaces what the file held.
AppendOver(c) ==
  /\ MdAt(c, "appending") /\ EndMdCall(c)
  /\ blocks' = [blocks EXCEPT ![reading[c]] = <<target[c]>>]
  /\ stored' = stored \cup {target[c]} /\ UNCHANGED <<deleting, gone, spoiled>>

\* A store writes what it read and the entry after it.
AppendEntry(c) ==
  /\ MdAt(c, "appending") /\ EndMdCall(c)
  /\ blocks' = [blocks EXCEPT ![reading[c]] = Append(content[c], target[c])]
  /\ stored' = stored \cup {target[c]} /\ UNCHANGED <<deleting, gone, spoiled>>

\* Mutant: the rewritten file keeps the entry.
RewriteAll(c) ==
  /\ MdAt(c, "rewriting") /\ EndMdCall(c)
  /\ blocks' = [blocks EXCEPT ![reading[c]] = content[c]]
  /\ gone' = gone \cup {target[c]} /\ UNCHANGED <<stored, deleting, spoiled>>

\* The blocks of s that are in keep.
KeptBlocks(s, keep) ==
  LET kept[n \in 0 .. Len(s)] ==
        IF n = 0 THEN <<>>
        ELSE IF s[n] \in keep THEN Append(kept[n - 1], s[n]) ELSE kept[n - 1]
  IN  kept[Len(s)]

\* A delete writes the entries it read but one, without the text around them,
\* and looks no further.
RewriteEntries(c) ==
  /\ MdAt(c, "rewriting") /\ EndMdCall(c)
  /\ blocks' = [blocks EXCEPT ![reading[c]] = KeptBlocks(content[c], MdEntries \ {target[c]})]
  /\ gone' = gone \cup {target[c]} /\ UNCHANGED <<stored, deleting, spoiled>>
NotFound(c) ==
  /\ MdAt(c, "look") /\ todo[c] = {} /\ EndMdCall(c)
  /\ gone' = gone \cup {target[c]} /\ UNCHANGED <<blocks, stored, deleting, spoiled>>

\* The process stops, and what was truncated stays so.
MdCrash ==
  /\ spoiled' = spoiled \cup {f \in MdFiles : \E c \in MdCalls : reading[c] = f}
  /\ mdStep' = [c \in MdCalls |-> "idle"] /\ target' = [c \in MdCalls |-> Prose]
  /\ todo' = [c \in MdCalls |-> {}] /\ reading' = [c \in MdCalls |-> NoFile]
  /\ content' = [c \in MdCalls |-> <<>>]
  /\ UNCHANGED <<blocks, stored, deleting, gone>>

MarkdownNext ==
  \/ \E c \in MdCalls :
       \/ \E e \in MdEntries : Store(c, e) \/ Delete(c, e)
       \/ \E f \in MdFiles : LookIn(c, f)
       \/ TruncateFile(c) \/ AppendEntry(c) \/ RewriteEntries(c) \/ NotFound(c)
  \/ MdCrash
MarkdownSpec == MarkdownInit /\ [][MarkdownNext]_markdownVars

-----------------------------------------------------------------------------
\* Every variable keeps its type.
MarkdownTypeOK ==
  /\ blocks \in [MdFiles -> Seq(MdEntries \cup {Prose})]
  /\ mdStep \in [MdCalls -> {"idle", "append", "appending", "look", "rewrite", "rewriting"}]
  /\ target \in [MdCalls -> MdEntries \cup {Prose}] /\ todo \in [MdCalls -> SUBSET MdFiles]
  /\ reading \in [MdCalls -> MdFiles \cup {NoFile}]
  /\ content \in [MdCalls -> Seq(MdEntries \cup {Prose})]
  /\ stored \cup deleting \cup gone \subseteq MdEntries /\ spoiled \subseteq MdFiles

\* A file that was neither rewritten by two calls at once nor cut off holds
\* every entry once that was stored in it and is not being deleted, and none
\* whose delete has ended, whatever happens to the other files.
EntriesKept == \A f \in MdFiles \ spoiled : ~(\E c \in MdCalls : reading[c] = f) =>
  \A e \in MdEntries : FileOf[e] = f =>
    LET copies == Cardinality({i \in DOMAIN blocks[f] : blocks[f][i] = e})
    IN  /\ e \in stored \ deleting => copies = 1
        /\ e \in gone => copies = 0
=============================================================================
