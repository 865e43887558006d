---------------------------- MODULE MCPipeline ----------------------------
(***************************************************************************)
(* Pipeline on lines that hold the cases of interest.                      *)
(***************************************************************************)
EXTENDS Pipeline

\* Frames only; frames of an earlier run ahead of an echo; a log line between
\* delimiters, then a frame that a reset may cut, and the boot text.
SomeLines ==
    { <<"head", "tail", "head", "tail", "head", "tail">>,
      <<"head", "tail", "text", "head", "tail">>,
      <<"mark", "text", "mark", "head", "text", "head", "tail">> }

=============================================================================
