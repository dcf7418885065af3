--------------------------------- MODULE Slack --------------------------------
(***************************************************************************)
(* poll_slack_messages of crates/electro-channels/src/slack.rs for one     *)
(* conversation: rounds of fetching what is newer than a cursor, and the   *)
(* loop that forwards it message by message.  The service (external) may   *)
(* refuse a fetch, and answers with at most a page of messages, the newest *)
(* or the oldest ones.  Messages are numbered in the order of their        *)
(* timestamps; the process may stop and start again.                       *)
(***************************************************************************)
EXTENDS Naturals, Sequences, SequencesExt

CONSTANTS
  MaxPosts,    \* bound: messages posted
  PageSize,    \* limit
  MaxStarts    \* bound: starts of the process

ASSUME PollAssumption == {MaxPosts, PageSize, MaxStarts} \subseteq Nat \ {0}

VARIABLES
  posts,      \* what was posted, see PostKinds
  cursor,     \* latest_ts of the conversation, or startup_ts
  page,       \* the messages of this round still to process
  polling,    \* "list", "history", "page", "stopped"
  shutdown,   \* the flag
  forwarded,  \* the messages sent to the queue since the last start (history)
  starts,     \* how often the process was started
  began,      \* startup_ts of this start
  overfull    \* more than a page was new at a fetch (history)

pollVars == <<posts, cursor, page, polling, shutdown, forwarded, starts, began, overfull>>

\* Skipped is what comes from a bot, from itself, from nobody or from a user
\* who is not allowed, and what has neither text nor files.
PostKinds == {"user", "skipped"}

PollInit ==
  /\ posts = <<>> /\ cursor = 0 /\ began = 0 /\ page = <<>> /\ polling = "list"
  /\ shutdown = FALSE /\ forwarded = <<>> /\ starts = 1 /\ overfull = FALSE

PostMessage(kind) ==
  /\ Len(posts) < MaxPosts /\ posts' = Append(posts, kind)
  /\ UNCHANGED <<cursor, page, polling, shutdown, forwarded, starts, began, overfull>>

\* The flag is looked at before a round and before a conversation.
ListConversations ==
  /\ polling = "list" /\ polling' = (IF shutdown THEN "stopped" ELSE "history")
  /\ UNCHANGED <<posts, cursor, page, shutdown, forwarded, starts, began, overfull>>
ListFails == polling = "list" /\ ~shutdown /\ UNCHANGED pollVars

Unread == [i \in 1 .. (Len(posts) - cursor) |-> cursor + i]
Pages == IF Len(Unread) <= PageSize THEN {Unread}
         ELSE {SubSeq(Unread, 1, PageSize),
               SubSeq(Unread, Len(Unread) - PageSize + 1, Len(Unread))}
\* Mutant: the page is processed as it comes.
FetchUnreversed ==
  /\ polling = "history" /\ ~shutdown /\ polling' = "page"
  /\ \E p \in Pages : page' = Reverse(p)
  /\ overfull' = (overfull \/ Len(Unread) > PageSize)
  /\ UNCHANGED <<posts, cursor, shutdown, forwarded, starts, began>>
HistoryFails ==
  /\ polling = "history" /\ polling' = "list"
  /\ UNCHANGED <<posts, cursor, page, shutdown, forwarded, starts, began, overfull>>
\* A page comes newest first and is reversed.
FetchHistory ==
  /\ polling = "history" /\ ~shutdown /\ page' \in Pages /\ polling' = "page"
  /\ overfull' = (overfull \/ Len(Unread) > PageSize)
  /\ UNCHANGED <<posts, cursor, shutdown, forwarded, starts, began>>

Advance(m) == cursor' = IF m > cursor THEN m ELSE cursor

\* Mutant: one message takes the cursor to the end of what was posted.
ProcessToEnd ==
  /\ polling = "page" /\ page # <<>>
  /\ LET m == Head(page)
     IN  forwarded' = IF posts[m] = "user" THEN Append(forwarded, m) ELSE forwarded
  /\ cursor' = Len(posts) /\ page' = Tail(page)
  /\ UNCHANGED <<posts, polling, shutdown, starts, began, overfull>>
\* Every message moves the cursor; a user's is sent before that.
ProcessMessage ==
  /\ polling = "page" /\ page # <<>>
  /\ LET m == Head(page)
     IN  /\ Advance(m)
         /\ forwarded' = IF posts[m] = "user" THEN Append(forwarded, m) ELSE forwarded
  /\ page' = Tail(page)
  /\ UNCHANGED <<posts, polling, shutdown, starts, began, overfull>>
\* The receiver of the queue is gone.
ReceiverDropped ==
  /\ polling = "page" /\ page # <<>> /\ posts[Head(page)] = "user" /\ polling' = "stopped"
  /\ page' = <<>>
  /\ UNCHANGED <<posts, cursor, shutdown, forwarded, starts, began, overfull>>
RoundEnds ==
  /\ polling = "page" /\ page = <<>> /\ polling' = "list"
  /\ UNCHANGED <<posts, cursor, page, shutdown, forwarded, starts, began, overfull>>

StopPolling ==
  /\ ~shutdown /\ shutdown' = TRUE
  /\ UNCHANGED <<posts, cursor, page, polling, forwarded, starts, began, overfull>>

\* A start takes the second that now is in as its cursor: a message of that
\* second may count as new.
StartAgain ==
  /\ starts < MaxStarts /\ starts' = starts + 1
  /\ began' \in {Len(posts)} \cup {n \in {Len(posts) - 1} : posts # <<>>}
  /\ cursor' = began' /\ page' = <<>> /\ polling' = "list" /\ shutdown' = FALSE
  /\ forwarded' = <<>> /\ overfull' = FALSE
  /\ UNCHANGED posts

PollNext ==
  \/ \E kind \in PostKinds : PostMessage(kind)
  \/ ListConversations \/ ListFails \/ FetchHistory \/ HistoryFails
  \/ ProcessMessage \/ ReceiverDropped \/ RoundEnds \/ StopPolling \/ StartAgain

-----------------------------------------------------------------------------
\* Every variable keeps its type.
PollTypeOK ==
  /\ posts \in Seq(PostKinds) /\ {cursor, began} \subseteq 0 .. Len(posts)
  /\ \A m \in Range(page) \cup Range(forwarded) : m \in DOMAIN posts
  /\ polling \in {"list", "history", "page", "stopped"} /\ shutdown \in BOOLEAN
  /\ starts \in 1 .. MaxStarts /\ overfull \in BOOLEAN

\* Whatever fetches fail, no message is forwarded twice or after a later one,
\* and the cursor is behind no user's message that was not forwarded, unless
\* more than a page came at once.
PollSound ==
  /\ \A i, j \in DOMAIN forwarded : i < j => forwarded[i] < forwarded[j]
  /\ ~overfull => \A m \in DOMAIN posts :
       began < m /\ m <= cursor /\ posts[m] = "user" => m \in Range(forwarded)

-----------------------------------------------------------------------------
(***************************************************************************)
(* split_message of crates/electro-channels/src/slack.rs, the same in      *)
(* discord.rs: how an answer longer than the service allows is cut, at a   *)
(* newline, else at a space, else at the limit.  A text is a sequence of   *)
(* letters, spaces and newlines.                                           *)
(***************************************************************************)

CONSTANTS
  MaxLen,    \* max_len
  MaxText    \* bound: the longest text

ASSUME SplitterAssumption == MaxLen \in Nat \ {0} /\ MaxText \in Nat

VARIABLES
  longText,      \* text
  rest,
  chunks,      \* the chunks, but for the empty ones
  blank,       \* an empty chunk was pushed
  cutting      \* the loop has not ended

splitterVars == <<longText, rest, chunks, blank, cutting>>

Letters == {"x", "space", "newline"}
Texts == UNION {[1 .. n -> Letters] : n \in 0 .. MaxText}

\* A text that fits is returned as it is.
SplitterInit ==
  /\ longText \in Texts
  /\ cutting = (Len(longText) > MaxLen)
  /\ rest = IF cutting THEN longText ELSE <<>>
  /\ chunks = IF cutting \/ longText = <<>> THEN <<>> ELSE <<longText>>
  /\ blank = (longText = <<>>)

\* rfind: how many letters stand before the last c of the first MaxLen.
LastBefore(s, c) == SelectLastInSeq(SubSeq(s, 1, MaxLen), LAMBDA x : x = c)
\* Mutant: the space stays with the chunk, beyond the limit.
CutAfter(s) ==
  LET newline == LastBefore(s, "newline")  space == LastBefore(s, "space")
  IN  IF newline > 0 THEN newline - 1 ELSE IF space > 0 THEN space + 1 ELSE MaxLen

CutAt(s) ==
  LET newline == LastBefore(s, "newline")  space == LastBefore(s, "space")
  IN  IF newline > 0 THEN newline - 1 ELSE IF space > 0 THEN space - 1 ELSE MaxLen

\* trim_start_matches('\n'): the spaces at the front stay.
WithoutNewlines(s) ==
  LET first == SelectInSeq(s, LAMBDA x : x # "newline")
  IN  IF first = 0 THEN <<>> ELSE SubSeq(s, first, Len(s))

PushChunk(chunk) == chunks' = (IF chunk = <<>> THEN chunks ELSE Append(chunks, chunk))
               /\ blank' = (blank \/ chunk = <<>>)

\* One round of the loop, which a rest that fits ends.
Cut ==
  /\ cutting /\ Len(rest) > MaxLen
  /\ PushChunk(SubSeq(rest, 1, CutAt(rest)))
  /\ rest' = WithoutNewlines(SubSeq(rest, CutAt(rest) + 1, Len(rest)))
  /\ UNCHANGED <<longText, cutting>>
LastChunk ==
  /\ cutting /\ Len(rest) <= MaxLen
  /\ IF rest = <<>> THEN UNCHANGED <<chunks, blank>> ELSE PushChunk(rest)
  /\ rest' = <<>> /\ cutting' = FALSE
  /\ UNCHANGED longText

SplitterNext == Cut \/ LastChunk
SplitterSpec == SplitterInit /\ [][SplitterNext]_splitterVars /\ WF_splitterVars(SplitterNext)

-----------------------------------------------------------------------------
\* Every variable keeps its type.
SplitterTypeOK ==
  /\ {longText, rest} \subseteq Seq(Letters) /\ Len(longText) <= MaxText
  /\ chunks \in Seq(Seq(Letters)) /\ blank \in BOOLEAN /\ cutting \in BOOLEAN

\* What is seen of a text: all but the newlines.
Visible(s) ==
  LET seen[n \in 0 .. Len(s)] ==
        IF n = 0 THEN <<>>
        ELSE IF s[n] \in Letters \ {"newline"} THEN Append(seen[n - 1], s[n]) ELSE seen[n - 1]
  IN seen[Len(s)]

\* Every chunk fits, and the chunks and the rest are the text, in order and
\* without anything lost but newlines.
ChunksAreTheText ==
  /\ \A i \in DOMAIN chunks : Len(chunks[i]) <= MaxLen
  /\ Visible(FlattenSeq(chunks) \o rest) = Visible(longText)

\* A round leaves the rest as it was: the loop has no end.  It takes a text
\* with a word of at least MaxLen - 1 letters.
Endless == cutting /\ Len(rest) > MaxLen /\ CutAt(rest) = 0
           /\ rest[1] # "newline"
LongWord(s) == \E i \in 1 .. Len(s) + 2 - MaxLen :
                 \A j \in i .. i + MaxLen - 2 : s[j] = "x"
ShortWordsEnd == Endless => LongWord(longText)

\* Only such a text, the empty one or one that starts with a newline makes
\* an empty chunk, which the service would refuse.
NoBlankChunk == blank => \/ longText = <<>> \/ longText[1] = "newline" \/ LongWord(longText)

\* All three: an answer is cut into chunks the service takes.
SplitSound == ChunksAreTheText /\ ShortWordsEnd /\ NoBlankChunk

\* Every text is split.
SplitEnds == <>~cutting
=============================================================================
