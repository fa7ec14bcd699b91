------------------------------ MODULE StreamText ------------------------------
(***************************************************************************)
(* From the bytes of an upstream's stream to the text a client is shown:   *)
(* extract_sse_frames, which keeps what is not a whole frame yet, and      *)
(* filter_stream_event_thinking, which hides what a provider puts between  *)
(* thinking tags and keeps what may become a tag.  The network may cut the *)
(* bytes anywhere, the upstream the text.                                  *)
(*                                                                         *)
(* Abstracted: a line's content is one byte (where it is cut makes no      *)
(* difference), its JSON is the delta it means, the tags are shorter than  *)
(* <think> and </think> and have no upper case.  Left out: characters of   *)
(* several bytes (FramePanics of StreamRelay) and streams that mix line    *)
(* ends.                                                                   *)
(***************************************************************************)
EXTENDS Naturals, Sequences, SequencesExt

CONSTANTS
  Open, Close,  \* tags, sequences of characters
  Letters,      \* other characters
  Items,        \* output items whose text is streamed
  None,
  MaxText,      \* bound of the model: characters of all items
  MaxWire       \* bound of the model: bytes on the way when more are sent

Chars == Range(Open) \cup Range(Close) \cup Letters
Texts == Seq(Chars)

ASSUME TextAssumption ==
  /\ {Open, Close} \subseteq Texts \ {<<>>}
  /\ None \notin Items
  /\ MaxText \in Nat /\ MaxWire \in Nat

VARIABLES
  ends,     \* line ends of this upstream
  wire,     \* external: bytes on the way; history: the delta a byte completes
  left,     \* characters the upstream may still send
  buffer,   \* parse_buffer
  filters,  \* thinking_filters
  shown,    \* text the client was given
  heard     \* history: text whose frames have arrived, blank line included

vars == <<ends, wire, left, buffer, filters, shown, heard>>

Byte(is, item, text) == [is |-> is, item |-> item, text |-> text]
CR == Byte("CR", None, <<>>)
LF == Byte("LF", None, <<>>)
Comment == Byte("comment", None, <<>>)
EventName == Byte("event", None, <<>>)
Bytes == [is : {"data"}, item : Items, text : Texts] \cup {CR, LF, Comment, EventName}
Deltas == [item : Items, text : Texts]
NoDelta == [item |-> None, text |-> <<>>]
Filters == [hidden : BOOLEAN, pending : Texts]
Plain == [hidden |-> FALSE, pending |-> <<>>]

TextOf(i, deltas) ==
  FlattenSeq([k \in DOMAIN deltas |-> IF deltas[k].item = i THEN deltas[k].text ELSE <<>>])

Init ==
  /\ ends \in {<<LF>>, <<CR, LF>>}
  /\ wire = <<>> /\ left = MaxText
  /\ buffer = <<>>
  /\ filters = [i \in Items |-> Plain]
  /\ shown = [i \in Items |-> <<>>] /\ heard = shown

-----------------------------------------------------------------------------
(* External: the upstream.                                                  *)

\* A delta comes with the name of its event, or as JSON on two lines after a comment
\* and a blank line too many.
Frames(i, text) ==
  LET data == <<Byte("data", i, text)>> \o ends
      more == <<Byte("data", i, <<>>)>> \o ends IN
  {<<EventName>> \o ends \o data \o ends,
   <<Comment>> \o ends \o ends \o ends \o data \o more \o ends}

Send ==
  /\ Len(wire) <= MaxWire
  /\ \E i \in Items, text \in UNION {[1 .. n -> Chars] : n \in 1 .. left} :
     \E bytes \in Frames(i, text) :
      /\ wire' = wire \o [k \in DOMAIN bytes |->
           [byte |-> bytes[k],
            whole |-> IF k = Len(bytes) THEN [item |-> i, text |-> text] ELSE NoDelta]]
      /\ left' = left - Len(text)
      /\ UNCHANGED <<ends, buffer, filters, shown, heard>>

-----------------------------------------------------------------------------
(* extract_sse_frames.                                                      *)

At(s, tag, k) ==
  k + Len(tag) <= Len(s) + 1 /\ \A j \in DOMAIN tag : s[k + j - 1] = tag[j]
Found(s, tag) == {k \in DOMAIN s : At(s, tag, k)}

\* Mutant: everything up to the last blank line is one frame.
LastOf(D) == CHOOSE d \in D : \A e \in D : d[1] >= e[1]

\* find_frame_delimiter: where the first blank line begins and how long it is.
Delimiters(b) == Found(b, <<LF, LF>>) \X {2} \cup Found(b, <<CR, LF, CR, LF>>) \X {4}
First(D) == CHOOSE d \in D : \A e \in D : d[1] <= e[1]

\* The data lines of a frame, joined; nothing for a comment or a blank frame.
DeltasOf(frame) ==
  LET data == {k \in DOMAIN frame : frame[k].is = "data"}
      lines == [k \in DOMAIN frame |-> IF k \in data THEN frame[k].text ELSE <<>>] IN
  IF data = {} THEN <<>> ELSE <<[item |-> frame[Min(data)].item, text |-> FlattenSeq(lines)]>>

Extracted[b \in Seq(Bytes)] ==
  IF Delimiters(b) = {} THEN [deltas |-> <<>>, rest |-> b]
  ELSE LET d == First(Delimiters(b))
           after == Extracted[SubSeq(b, d[1] + d[2], Len(b))] IN
       [deltas |-> DeltasOf(SubSeq(b, 1, d[1] - 1)) \o after.deltas, rest |-> after.rest]

-----------------------------------------------------------------------------
(* filter_provider_thinking_delta.                                          *)

\* Mutant: only a whole tag is looked for.
PendingNever(s, tag) == <<>>

\* longest_tag_prefix_suffix: the longest end of s that begins a tag.
Pending(s, tag) ==
  LET begins == {k \in 1 .. Len(tag) - 1 : k <= Len(s) /\ IsSuffix(SubSeq(tag, 1, k), s)}
  IN IF begins = {} THEN <<>> ELSE SubSeq(tag, 1, Max(begins))

Filtered[filter \in Filters] ==
  LET s == filter.pending
      tag == IF filter.hidden THEN Close ELSE Open
      found == Found(s, tag)
      kept == Pending(s, tag)
      before(k) == IF filter.hidden THEN <<>> ELSE SubSeq(s, 1, k) IN
  IF found = {}
  THEN [hidden |-> filter.hidden, pending |-> kept, visible |-> before(Len(s) - Len(kept))]
  ELSE LET k == Min(found)
           after == Filtered[[hidden |-> ~filter.hidden,
                              pending |-> SubSeq(s, k + Len(tag), Len(s))]] IN
       [after EXCEPT !.visible = before(k - 1) \o @]

\* One delta of the worker's loop: each item has a filter of its own.
Show(state, delta) ==
  LET i == delta.item
      new == Filtered[[state.filters[i] EXCEPT !.pending = @ \o delta.text]] IN
  [filters |-> [state.filters EXCEPT ![i] = [hidden |-> new.hidden, pending |-> new.pending]],
   shown |-> [state.shown EXCEPT ![i] = @ \o new.visible]]
ShowAll(state, deltas) ==
  LET after[k \in 0 .. Len(deltas)] ==
        IF k = 0 THEN state ELSE Show(after[k - 1], deltas[k]) IN
  after[Len(deltas)]

\* One chunk of the upstream's body.
Receive ==
  \E n \in 1 .. Len(wire) :
    LET bytes == [k \in 1 .. n |-> wire[k].byte]
        found == Extracted[buffer \o bytes]
        after == ShowAll([filters |-> filters, shown |-> shown], found.deltas) IN
    /\ buffer' = found.rest
    /\ filters' = after.filters /\ shown' = after.shown
    /\ heard' = [i \in Items |-> heard[i] \o TextOf(i, [k \in 1 .. n |-> wire[k].whole])]
    /\ wire' = SubSeq(wire, n + 1, Len(wire))
    /\ UNCHANGED <<ends, left>>

Next == Send \/ Receive
Spec == Init /\ [][Next]_vars

-----------------------------------------------------------------------------
\* strip_provider_thinking_text on a whole text, in terms of where its tags are: a
\* character is visible outside the tags and what is between them.
Strip[s \in Texts] ==
  IF Found(s, Open) = {} THEN s
  ELSE LET k == Min(Found(s, Open))
           inside == SubSeq(s, k + Len(Open), Len(s)) IN
       SubSeq(s, 1, k - 1) \o
         IF Found(inside, Close) = {} THEN <<>>
         ELSE Strip[SubSeq(inside, Min(Found(inside, Close)) + Len(Close), Len(inside))]

\* However bytes and text are cut, a client is shown what it would be shown of the
\* text in one piece, but for what is held back because it may begin a tag
\* (sse.rs:137, relay.rs:2758; the plan, 3592-3596): no frame is lost, split, or
\* given to another item.
CutsDoNotMatter ==
  \A i \in Items :
    shown[i] \o (IF filters[i].hidden THEN <<>> ELSE filters[i].pending) = Strip[heard[i]]

\* What was shown need not be taken back, whatever comes next: no part of a tag and
\* nothing behind one is let through (the plan, 75, 1641).
NothingTakenBack ==
  \A i \in Items : \A more \in {SubSeq(Open, k, Len(Open)) : k \in DOMAIN Open} :
    IsPrefix(shown[i], Strip[heard[i] \o more])
=============================================================================
