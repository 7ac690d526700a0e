----------------------------- MODULE MCWebChat ------------------------------
(* The chat page with the requests it can post: its three lengths, of which  *)
(* two suffice, private or not, always adaptive and with 500 ms.             *)
EXTENDS WebChat, TLC

Prompt(hidden, tokens) ==
  [path |-> "/infer", private |-> hidden, mode |-> "routeedge",
   expected_output_tokens |-> tokens, network_latency_ms |-> 500, priority |-> Full]
Prompts == {Prompt(FALSE, 64), Prompt(TRUE, 256)}
Interchangeable == Permutations(Jobs)
=============================================================================
