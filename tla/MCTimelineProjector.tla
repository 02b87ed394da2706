-------------------------- MODULE MCTimelineProjector --------------------------
(***************************************************************************)
(* Model checking of TimelineProjector: one prompt, whose model thinks,    *)
(* sums its thoughts up, answers and calls a tool.  Some deltas come       *)
(* without the text so far, and the finals come without text: what the     *)
(* projector remembers has to fill in.                                     *)
(***************************************************************************)
EXTENDS TimelineProjector

F(kind, id, full) == [kind |-> kind, id |-> id, full |-> full]

MCScript == <<
  << F("chat.message", "user", TRUE) >>,
  << F("llm.thinking.start", "thought", TRUE) >>,
  << F("llm.thinking.delta", "thought", TRUE) >>,
  << F("llm.thinking.delta", "thought", FALSE) >>,
  << F("llm.thinking.final", "thought", FALSE) >>,
  << F("llm.thinking.summary", "thought", TRUE) >>,
  << F("llm.start", "answer", TRUE) >>,
  << F("llm.delta", "answer", TRUE) >>,
  << F("llm.final", "answer", FALSE) >>,
  << F("tool.start", "call", TRUE) >>,
  << F("tool.result", "call", TRUE), F("tool.done", "call", TRUE) >> >>

ASSUME ScriptIsWellFormed == WellFormed

=============================================================================
