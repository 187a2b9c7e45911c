-------------------------- MODULE MCGatewaySession --------------------------
(***************************************************************************)
(* The model values of the GatewaySession runs.                            *)
(***************************************************************************)
EXTENDS GatewaySessionProps, TLC

\* u: user turns, t: a tool result; a, b: what the model may generate;
\* x: an assistant message that only a client writes.
MCMessages  == {"u", "t", "a", "b", "x"}
MCAssistant == {"a", "b", "x"}
MCUser      == {"u"}
MCOutputs   == {"a", "b"}
MCOutLen    == [o \in MCOutputs |-> IF o = "a" THEN 1 ELSE 2]

Call(messages) == [messages |-> messages, tools |-> "none"]

\* A conversation, its continuation, an echo of it, and rewrites of its first
\* and second answer.
MCCalls ==
  {Call(<<"u">>), Call(<<"u", "a">>), Call(<<"u", "a", "t">>),
   Call(<<"u", "x", "t">>), Call(<<"u", "a", "t", "x">>)}

\* The same with another tool list, and a request too long for any chain.
MCWideCalls ==
  MCCalls \cup {[messages |-> <<"u", "a", "t">>, tools |-> "other"],
                Call(<<"u", "t", "u", "t", "u", "t">>)}

\* An answer is rewritten, and the rewrite rewritten.
MCRewriteCalls == {Call(<<"u">>), Call(<<"u", "t">>), Call(<<"u", "t", "t">>)}

\* An answer is echoed, and what followed the echo rewritten.
MCEchoCalls == {Call(<<"u">>), Call(<<"u", "a">>), Call(<<"u", "a", "x">>)}

\* Two siblings of one prompt, one of them continued twice.
MCSiblingCalls == {Call(<<"u">>), Call(<<"u", "a", "t">>)}

RequestSymmetry == Permutations(Requests)
=============================================================================
