--------------------------- MODULE MCIpcImportCache ---------------------------
EXTENDS IpcImportCache

Call(b) == [op |-> "call", buf |-> b]
Register(b) == [op |-> "register", buf |-> b]
AgainWrapped(b) == [op |-> "rewrap", buf |-> b]

(* Reuse, prefilling, more buffers than cache entries, and a wrapper that  *)
(* is renewed between, right before and right after a call that uses it.   *)
SymmetricPrograms == {
    <<Call("a"), Call("a"), Call("b"), Call("a")>>,
    <<Register("a"), Call("b"), Call("c"), Call("a")>>,
    <<Call("a"), AgainWrapped("a"), Call("a"), AgainWrapped("a"), Call("a")>>,
    <<Call("a"), Call("b"), AgainWrapped("a"), Call("b"), Call("a")>>}

(* No buffer is used twice in a row; in the last program a binding can     *)
(* become the least recently used import of its row.                       *)
AlternatingPrograms == {
    <<Call("a"), Call("b"), Call("a"), Call("b")>>,
    <<Register("a"), Register("b"), Call("c"), Call("a"), Call("b")>>,
    <<Call("a"), Call("b"), Call("c"), Call("a"), Call("c")>>}

(* Imports fail only where no buffer is used twice in a row: after a       *)
(* failure that is another question, asked with TwoBuffers.                *)
AllPrograms == SymmetricPrograms \cup AlternatingPrograms
SomeFailures == [p \in AllPrograms |-> IF p \in AlternatingPrograms THEN 3 ELSE 0]

TwoBuffers == {<<Call("a"), Call("b")>>}
OneFailure == [p \in TwoBuffers |-> 1]
===============================================================================
