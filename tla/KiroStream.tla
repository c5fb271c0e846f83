------------------------------ MODULE KiroStream ------------------------------
(* The Kiro executor turns the events of an Amazon event stream into Claude  *)
(* events, one block at a time, before any translator sees them              *)
(* (streamToChannel, processToolUseEvent), and the events of a complete      *)
(* answer into a Claude message (parseEventStream, buildClaudeResponse).     *)
(*                                                                           *)
(* A tool use comes whole inside an assistantResponseEvent or in fragments,  *)
(* toolUseEvents that repeat its id; whole says the arguments so far are a   *)
(* complete JSON object.  Ids are numbers, and the name of a use too.        *)
EXTENDS Protocols

Text(d) == [ev |-> "text", data |-> d]
WholeUse(id, d) == [ev |-> "use", id |-> id, data |-> d]
Fragment(id, d, whole, stop) == [ev |-> "fragment", id |-> id, data |-> d, whole |-> whole, stop |-> stop]
EOF == [ev |-> "EOF"]

NoUse == [id |-> 0, data |-> <<>>, whole |-> FALSE]
Kiro0 == [out |-> <<>>, started |-> FALSE, block |-> -1, textOpen |-> FALSE, processed |-> {}, current |-> NoUse,
          hasToolUses |-> FALSE]

KiroStart(k) == IF k.started THEN k ELSE [Emit(k, <<Start>>) EXCEPT !.started = TRUE]
KiroCloseText(k) == IF k.textOpen THEN [Emit(k, <<Close(k.block)>>) EXCEPT !.textOpen = FALSE] ELSE k
KiroText(k, d) ==
    LET o == IF k.textOpen THEN k
             ELSE [Emit(k, <<Open(k.block + 1, "text", NoName)>>) EXCEPT !.block = @ + 1, !.textOpen = TRUE]
    IN  IF d = <<>> THEN k ELSE Emit(o, <<Delta(o.block, "text", d)>>)
KiroUse(k, use) ==
    LET c == KiroCloseText(k)
        at == c.block + 1
        input == IF use.data = <<>> THEN <<>> ELSE <<Delta(at, "call", use.data)>>
    IN  [Emit(c, <<Open(at, "call", use.id)>> \o input \o <<Close(at)>>) EXCEPT !.block = at, !.hasToolUses = TRUE]

(* Arguments that are not complete JSON when a use ends come to nothing. *)
Parsed(use) == IF use.whole THEN use ELSE [use EXCEPT !.data = <<>>]

MutToolUseEvent(k, e) ==
    LET fresh == k.current.id # e.id
        base == IF fresh THEN [NoUse EXCEPT !.id = e.id] ELSE k.current
        use == [base EXCEPT !.data = @ \o e.data, !.whole = e.whole]
    IN  IF e.stop THEN [emit |-> <<Parsed(use)>>, current |-> NoUse, processed |-> k.processed \cup {use.id}]
        ELSE [emit |-> <<>>, current |-> use, processed |-> k.processed]

(* processToolUseEvent: the uses to emit, the use in progress, the ids seen. A  *)
(* use cut short by another is given up with what it has; when the other turns  *)
(* out to be a duplicate the function returns early, without the one cut short. *)
ToolUseEvent(k, e) ==
    LET other == k.current.id \notin {0, e.id}
        cut == IF other /\ k.current.id \notin k.processed THEN <<Parsed(k.current)>> ELSE <<>>
        seen == k.processed \cup {cut[n].id : n \in DOMAIN cut}
        fresh == other \/ k.current.id = 0
        base == IF fresh THEN [NoUse EXCEPT !.id = e.id] ELSE k.current
        use == [base EXCEPT !.data = @ \o e.data, !.whole = e.whole]
    IN  IF fresh /\ e.id \in seen THEN [emit |-> <<>>, current |-> NoUse, processed |-> seen]
        ELSE IF e.stop THEN [emit |-> Append(cut, Parsed(use)), current |-> NoUse, processed |-> seen \cup {use.id}]
        ELSE [emit |-> cut, current |-> use, processed |-> seen]

(* message_delta and message_stop are one chunk for the translator, see buildClaudeMessageStopEvent. *)
KiroEvent(k, e) ==
    CASE e.ev = "text" -> KiroText(KiroStart(k), e.data)
      [] e.ev = "use" ->
           IF e.id \in k.processed THEN KiroStart(k)
           ELSE [KiroUse(KiroStart(k), e) EXCEPT !.processed = @ \cup {e.id}]
      [] e.ev = "fragment" ->
           LET u == ToolUseEvent(k, e)
           IN  [FoldLeft(KiroUse, KiroStart(k), u.emit) EXCEPT !.current = u.current, !.processed = u.processed]
      [] e.ev = "EOF" -> Emit(KiroCloseText(k), <<Reason(IF k.hasToolUses THEN "tool" ELSE "stop"), Stop>>)

(* The same events of a complete answer: the text and the uses are gathered. *)
Parsed0 == [text |-> <<>>, uses |-> <<>>, current |-> NoUse, processed |-> {}]
ParseEvent(m, e) ==
    CASE e.ev = "text" -> [m EXCEPT !.text = @ \o e.data]
      [] e.ev = "use" -> IF e.id \in m.processed THEN m
                         ELSE [m EXCEPT !.uses = Append(@, e), !.processed = @ \cup {e.id}]
      [] e.ev = "fragment" ->
           LET u == ToolUseEvent(m, e)
           IN  [m EXCEPT !.uses = @ \o u.emit, !.current = u.current, !.processed = u.processed]
      [] e.ev = "EOF" -> m
KiroMessage(m) ==
    LET Unseen(n) == \A i \in 1..(n - 1) : m.uses[i].id # m.uses[n].id
        unique == SelectSeq([n \in DOMAIN m.uses |-> n], Unseen)
    IN  TextBlock("text", m.text)
        \o [n \in DOMAIN unique |-> Block("call", m.uses[unique[n]].id, m.uses[unique[n]].data)]
=============================================================================
