-------------------------- MODULE MCModelRequest ----------------------------
(* Bodies of text, of interleaved fragments of two calls, of both, without *)
(* a choice, with errors, and with events after [DONE].                    *)
EXTENDS ModelRequest

Text(d) == [type |-> "text", delta |-> d]
Part(index, n, closing) ==
  [type |-> "call", index |-> index, part |-> [n |-> n, last |-> closing]]
Usage == [type |-> "usage"]
Comment == [type |-> "comment"]
Garbled == [type |-> "garbled"]
Error(overflow) == [type |-> "error", overflow |-> overflow]

MCRetryAfters == {0, 3, 9}
MCBodies ==
  { <<Comment, Text("a"), Text("b"), Done>>,
    <<Part(1, 1, FALSE), Part(0, 1, TRUE), Part(1, 2, TRUE), Usage>>,
    <<Text("a"), Part(0, 1, TRUE), Done>>,
    <<Usage, Done, Text("a")>>,
    <<Text("a"), Done, Text("b")>>,
    <<Text("a"), Garbled, Done>>,
    <<Text("a"), Error(TRUE)>>,
    <<Error(FALSE)>> }
=============================================================================
