------------------------------ MODULE MCLoading ------------------------------
(* Two fragments; every kind of file that matters.                         *)
EXTENDS Loading

Both == {"port", "old"}
Txt(p, b, i) == [toml |-> p, bytes |-> b, include |-> i]
Plain == Txt("plain", "some", {})
Including == Txt("plain", "some", Both)
Long == Txt("plain", "many", Both)
Empty == Txt("plain", "none", {})
NotToml == Txt("not", "some", {"port"})
Misread == Txt("other", "some", {"port"})
Texts == {Plain, Including, Long, Empty, NotToml, Misread}

A(t) == [there |-> TRUE, regular |-> TRUE, safe |-> TRUE, text |-> t]
Missing == [A(Plain) EXCEPT !.there = FALSE]
Unsafe(t) == [A(t) EXCEPT !.safe = FALSE]
Directory == [A(Plain) EXCEPT !.regular = FALSE]

AnyMain == {A(Including), A(Misread), A(Plain), A(Long), A(Empty), A(NotToml), Unsafe(Including), Missing, Directory}
AnyFragment == {A(Plain), A(Misread), A(Empty), A(NotToml), Unsafe(Plain), Missing, Directory}
==============================================================================
