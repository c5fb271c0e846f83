------------------------------ MODULE Protocols ------------------------------
(* What the four API formats say of one answer of a model, as far as the    *)
(* response translators of internal/translator tell them apart: pieces of   *)
(* thought, of text and of the arguments of tool calls, numbered in the     *)
(* order they are said.                                                     *)
(*                                                                          *)
(* A format's stream is a sequence of events.  Blocks of the Claude and the *)
(* Responses format, and tool calls of the chat format, have an index (at). *)
(* The providers that write these events and the clients that read them are *)
(* outside the repository.                                                  *)
EXTENDS Integers, Sequences, SequencesExt

(* A content is what a client has of an answer, whatever the format. *)
NoContent == [thought |-> <<>>, text |-> <<>>, calls |-> <<>>]

(* Streams of the Claude, chat, Responses and Gemini formats. *)
Start == [ev |-> "start"]
Open(i, k, n) == [ev |-> "open", at |-> i, kind |-> k, name |-> n, slot |-> i]
(* Items of the Responses format have an id and a place in the output, its slot. *)
Added(i, s, k, n) == [Open(i, k, n) EXCEPT !.slot = s]
Delta(i, k, d) == [ev |-> "delta", at |-> i, kind |-> k, data |-> d]
Close(i) == [ev |-> "close", at |-> i]
(* A call in one event: of the Gemini format, or with an index of the chat's. *)
Call(i, n, d) == [ev |-> "call", at |-> i, name |-> n, data |-> d]
(* output_item.done of the Responses format repeats the whole item. *)
Item(i, k, n, d) == [ev |-> "item", at |-> i, kind |-> k, name |-> n, data |-> d]
Reason(r) == [ev |-> "reason", reason |-> r]
(* The end of a stream: message_stop of Claude; response.completed repeats the whole answer. *)
Stop == [ev |-> "stop"]
Completed(c) == [ev |-> "completed", content |-> c]

(* Where text and thought go in the formats without blocks. *)
Message == -1

(* A chunk of a chat completion, with the fields a translator looks at; the  *)
(* finish_reason "null" is there and empty.                                  *)
Chunk == [role |-> FALSE, thought |-> <<>>, text |-> <<>>, calls |-> <<>>,
          finish |-> "null", choice |-> TRUE, usage |-> FALSE, done |-> FALSE]
ToolDelta(i, n, d) == [at |-> i, name |-> n, args |-> d]
NoName == 0

(* A chunk of a Gemini stream: parts, perhaps the reason and the counts. *)
Candidate == [parts |-> <<>>, finish |-> "none", usage |-> FALSE, counted |-> FALSE, done |-> FALSE]
TextPart(d) == [kind |-> "text", name |-> NoName, data |-> d, signed |-> FALSE]
ThoughtPart(d) == [TextPart(d) EXCEPT !.kind = "thought"]
CallPart(n, d) == [TextPart(d) EXCEPT !.kind = "call", !.name = n]

(* Every translator's state t keeps in out what it writes for the chunk at hand. *)
Emit(t, events) == [t EXCEPT !.out = @ \o events]

(****************************************************************************)
(* A client that follows a stream.                                          *)
(****************************************************************************)
Reader0 == [got |-> NoContent, blocks |-> << >>, started |-> FALSE,
            reason |-> "none", ended |-> FALSE, faults |-> {}]

Faulty(r, f, k) == [r EXCEPT !.faults = @ \cup {<<f, k>>}]
Has(r, i) == \E n \in DOMAIN r.blocks : r.blocks[n].at = i
BlockAt(r, i) == CHOOSE n \in DOMAIN r.blocks : r.blocks[n].at = i
OpenAt(r, i, k) == Has(r, i) /\ r.blocks[BlockAt(r, i)].open /\ r.blocks[BlockAt(r, i)].kind = k

AddText(c, k, d) == IF k = "thought" THEN [c EXCEPT !.thought = @ \o d] ELSE [c EXCEPT !.text = @ \o d]
AddCall(c, n, d) == [c EXCEPT !.calls = Append(@, [name |-> n, args |-> d])]
AddArgs(c, n, d) == [c EXCEPT !.calls[n].args = @ \o d]

Opened(r, e) ==
    [r EXCEPT !.blocks = Append(@, [at |-> e.at, kind |-> e.kind, open |-> TRUE, data |-> <<>>, slot |-> e.slot,
                                    call |-> Len(r.got.calls) + 1]),
              !.got = IF e.kind = "call" THEN AddCall(@, e.name, <<>>) ELSE @]
ReadOpen(r, e) ==
    IF Has(r, e.at) THEN Faulty(r, "taken", e.kind)
    ELSE IF \E n \in DOMAIN r.blocks : r.blocks[n].slot = e.slot THEN Faulty(Opened(r, e), "slot taken", e.kind)
    ELSE Opened(r, e)

ReadDelta(r, e) ==
    IF e.at = Message THEN [r EXCEPT !.got = AddText(@, e.kind, e.data)]
    ELSE IF ~OpenAt(r, e.at, e.kind) THEN Faulty(r, "stray", e.kind)
    ELSE LET n == BlockAt(r, e.at)
             c == r.blocks[n].call
         IN  [r EXCEPT !.blocks[n].data = @ \o e.data,
                       !.got = IF e.kind = "call" THEN AddArgs(@, c, e.data) ELSE AddText(@, e.kind, e.data)]

ReadClose(r, e) ==
    IF ~(Has(r, e.at) /\ r.blocks[BlockAt(r, e.at)].open) THEN Faulty(r, "stray", "close")
    ELSE [r EXCEPT !.blocks[BlockAt(r, e.at)].open = FALSE]

ReadItem(r, e) ==
    IF ~OpenAt(r, e.at, e.kind) THEN Faulty(r, "stray", "close")
    ELSE LET n == BlockAt(r, e.at)
             closed == [r EXCEPT !.blocks[n].open = FALSE]
         IN  IF r.blocks[n].data = e.data THEN closed ELSE Faulty(closed, "differs", e.kind)

(* A call of the chat format takes an index; Gemini's have none. *)
ReadCall(r, e) ==
    LET block == [at |-> e.at, kind |-> "call", open |-> FALSE, data |-> e.data, slot |-> e.at, call |-> 0]
    IN  IF e.at # Message /\ Has(r, e.at) THEN Faulty(r, "taken", "call")
        ELSE [r EXCEPT !.got = AddCall(@, e.name, e.data),
                       !.blocks = IF e.at = Message THEN @ ELSE Append(@, block)]

ReadEnd(r) ==
    [r EXCEPT !.ended = TRUE,
              !.faults = @ \cup {<<"left open", r.blocks[n].kind>> : n \in {m \in DOMAIN r.blocks : r.blocks[m].open}}]

ReadReason(r, e) ==
    [(IF r.reason \notin {"none", e.reason} THEN Faulty(r, "changed", "reason") ELSE r) EXCEPT !.reason = e.reason]

Says(e) == e.ev \in {"open", "call"} \/ (e.ev = "delta" /\ e.data # <<>>)

(* framed: the format opens a stream with an event of its own. *)
Read(framed, r, e) ==
    LET early == IF framed /\ ~r.started /\ e.ev # "start" THEN Faulty([r EXCEPT !.started = TRUE], "before the start", e.ev)
                 ELSE r
        late == IF r.reason # "none" /\ Says(e) THEN Faulty(early, "after the reason", e.ev) ELSE early
    IN  IF r.ended THEN Faulty(r, "after the end", e.ev)
        ELSE CASE e.ev = "start" -> IF r.started THEN Faulty(r, "started", "again") ELSE [r EXCEPT !.started = TRUE]
               [] e.ev = "open" -> ReadOpen(late, e)
               [] e.ev = "delta" -> ReadDelta(late, e)
               [] e.ev = "close" -> ReadClose(late, e)
               [] e.ev = "call" -> ReadCall(late, e)
               [] e.ev = "item" -> ReadItem(late, e)
               [] e.ev = "reason" -> ReadReason(late, e)
               [] e.ev = "stop" -> ReadEnd(late)
               [] e.ev = "completed" ->
                    IF e.content = r.got THEN ReadEnd(late) ELSE Faulty(ReadEnd(late), "differs", "output")

(****************************************************************************)
(* A complete answer: the blocks a provider says.  more: a thought that goes *)
(* on in a new summary part of the same reasoning item (Codex).              *)
(****************************************************************************)
Block(k, n, d) == [kind |-> k, name |-> n, data |-> d, more |-> FALSE]
TextBlock(k, d) == IF d = <<>> THEN <<>> ELSE <<Block(k, NoName, d)>>
CallBlocks(calls) == [n \in DOMAIN calls |-> Block("call", calls[n].name, calls[n].args)]
AddBlock(c, b) == IF b.kind = "call" THEN AddCall(c, b.name, b.data) ELSE AddText(c, b.kind, b.data)
Content(blocks) == FoldLeft(AddBlock, NoContent, blocks)
Unary(blocks, reason) == [content |-> Content(blocks), reason |-> reason]
HasCall(blocks) == \E n \in DOMAIN blocks : blocks[n].kind = "call"
=============================================================================
