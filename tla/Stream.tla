-------------------------------- MODULE Stream --------------------------------
(***************************************************************************)
(* StreamBuffer of crates/electro-agent/src/streaming.rs: text comes in    *)
(* fragments and goes out at word boundaries, not before an interval has   *)
(* passed.  A text is a sequence of letters and break characters.          *)
(***************************************************************************)
EXTENDS Naturals, Sequences, SequencesExt

CONSTANTS
  MaxChars,      \* bound: characters pushed
  LongToken      \* above this length an unbroken text is flushed (500)

ASSUME StreamAssumption == MaxChars \in Nat /\ LongToken \in Nat

VARIABLES
  pushed,      \* everything pushed so far
  buffered,    \* the buffer
  flushedOut,  \* what the flushes returned
  due,         \* min_flush_interval has elapsed
  closed,      \* flush_all was called at the end of the answer
  halves       \* a flush ended inside a word it need not have cut

streamVars == <<pushed, buffered, flushedOut, due, closed, halves>>

Letter == "a"
Break == " "
Chars == {Letter, Break}
Fragments == {<<a>> : a \in Chars} \cup {<<a, b>> : a, b \in Chars}

StreamInit == /\ pushed = <<>> /\ buffered = <<>> /\ flushedOut = <<>>
              /\ due = FALSE /\ closed = FALSE /\ halves = FALSE

PushFragment ==
  /\ ~closed
  /\ \E fragment \in Fragments :
       /\ Len(pushed \o fragment) <= MaxChars
       /\ pushed' = pushed \o fragment /\ buffered' = buffered \o fragment
  /\ UNCHANGED <<flushedOut, due, closed, halves>>
IntervalElapses == ~due /\ due' = TRUE /\ UNCHANGED <<pushed, buffered, flushedOut, closed, halves>>

\* Mutant: the position of the last break, not the one after it.
BoundaryBefore(text) ==
  LET breaks == {i \in DOMAIN text : text[i] = Break}
  IN IF breaks = {} THEN 0 ELSE (CHOOSE i \in breaks : \A j \in breaks : j <= i) - 1

\* find_last_word_boundary: the position after the last break, 0 if there is none.
LastBoundary(text) ==
  LET breaks == {i \in DOMAIN text : text[i] = Break}
  IN IF breaks = {} THEN 0 ELSE CHOOSE i \in breaks : \A j \in breaks : j <= i

\* Mutant: what follows the boundary is cleared with the rest.
FlushClearing ==
  LET end == LastBoundary(buffered)
      cut == IF end = 0 THEN Len(buffered) ELSE end
  IN /\ buffered # <<>> /\ due /\ ~closed
     /\ end > 0 \/ Len(buffered) > LongToken
     /\ flushedOut' = flushedOut \o SubSeq(buffered, 1, cut)
     /\ buffered' = <<>>
     /\ due' = FALSE
     /\ halves' = (halves \/ (end = 0 /\ Len(buffered) <= LongToken))
     /\ UNCHANGED <<pushed, closed>>

\* try_flush: up to the last boundary; all of a long text without one.
TryFlush ==
  LET end == LastBoundary(buffered)
      cut == IF end = 0 THEN Len(buffered) ELSE end
  IN /\ buffered # <<>> /\ due /\ ~closed
     /\ end > 0 \/ Len(buffered) > LongToken
     /\ flushedOut' = flushedOut \o SubSeq(buffered, 1, cut)
     /\ buffered' = SubSeq(buffered, cut + 1, Len(buffered))
     /\ due' = FALSE
     /\ halves' = (halves \/ (Len(buffered) <= LongToken /\ buffered[cut] # Break))
     /\ UNCHANGED <<pushed, closed>>

FlushAll ==
  /\ ~closed /\ closed' = TRUE /\ due' = FALSE
  /\ flushedOut' = flushedOut \o buffered /\ buffered' = <<>>
  /\ UNCHANGED <<pushed, halves>>

StreamNext == PushFragment \/ IntervalElapses \/ TryFlush \/ FlushAll

StreamSpec == StreamInit /\ [][StreamNext]_streamVars

-----------------------------------------------------------------------------
\* Every variable keeps its type.
StreamTypeOK ==
  /\ pushed \in Seq(Chars) /\ buffered \in Seq(Chars) /\ flushedOut \in Seq(Chars)
  /\ due \in BOOLEAN /\ closed \in BOOLEAN /\ halves \in BOOLEAN

\* Nothing is lost, doubled or reordered between the provider and the user, and
\* a short text is only cut after a break character.
StreamWhole ==
  /\ flushedOut \o buffered = pushed
  /\ closed => flushedOut = pushed
  /\ ~halves
=============================================================================
