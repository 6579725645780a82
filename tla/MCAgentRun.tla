----------------------------- MODULE MCAgentRun -----------------------------
(***************************************************************************)
(* Small instances of AgentRun for TLC: two attempts of one run, a handful *)
(* of answers the model may give.                                          *)
(***************************************************************************)
EXTENDS AgentRun

Answer(tool, path, content) == [tool |-> tool, path |-> path, content |-> content, ext |-> NULL]

Write(content) == Answer("write_file", "p", content)
RunCode == Answer("run_code", "p", NULL)
Finish == Answer("finish", NULL, NULL)

\* Two answers that differ only in the provider's metadata.
Signed(action, sig) == [action EXCEPT !.ext = sig]

\* "n" stands for a content that is not a string.
StepActions == {Write("x"), Write("n")}
Escape == Answer("write_file", "../q", "x")
AllActions ==
  {Signed(Write("x"), "s"), Signed(Write("x"), "t"), Write("n"), Escape, RunCode, Finish}
=============================================================================
