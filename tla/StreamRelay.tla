----------------------------- MODULE StreamRelay -----------------------------
(***************************************************************************)
(* What the proxy promises the client of one streaming request: the chunks *)
(* upstream sends arrive once each and in order, and the response ends     *)
(* only behind the last of them, unless the client leaves first.  Chunks   *)
(* are numbered 1, 2, ... in the order upstream sends them.                *)
(***************************************************************************)
EXTENDS Naturals, Sequences

VARIABLES
  sent,      \* how many data chunks upstream has sent
  ended,     \* upstream sends no more
  received,  \* the chunks the client received
  outcome    \* "open" | "done" | "error" | "gone"

relayVars == <<sent, ended, received, outcome>>

Init ==
  /\ sent = 0
  /\ ended = FALSE
  /\ received = <<>>
  /\ outcome = "open"

Send ==
  /\ ~ended
  /\ sent' = sent + 1
  /\ UNCHANGED <<ended, received, outcome>>

End ==
  /\ ~ended
  /\ ended' = TRUE
  /\ UNCHANGED <<sent, received, outcome>>

Deliver ==
  /\ outcome = "open"
  /\ Len(received) < sent
  /\ received' = Append(received, Len(received) + 1)
  /\ UNCHANGED <<sent, ended, outcome>>

Finish ==
  /\ outcome = "open"
  /\ ended
  /\ Len(received) = sent
  /\ outcome' \in {"done", "error"}
  /\ UNCHANGED <<sent, ended, received>>

Leave ==
  /\ outcome = "open"
  /\ outcome' = "gone"
  /\ UNCHANGED <<sent, ended, received>>

Next == Send \/ End \/ Deliver \/ Finish \/ Leave

Spec == Init /\ [][Next]_relayVars
=============================================================================
