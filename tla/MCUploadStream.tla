---- MODULE MCUploadStream ----
EXTENDS UploadStream

Words(alphabet, n) == UNION {[1 .. m -> alphabet] : m \in 0 .. n}

\* Documents and texts with every order of what matters in their first bytes, and
\* documents of up to one byte above the limit.
SomeFiles ==
    {<<"pdf">> \o [i \in 1 .. n |-> "char"] : n \in 0 .. 12}
        \union Words({"pdf", "char"}, 3)
        \union Words({"riff", "webp", "char"}, 4)
        \union Words({"zip", "empty"}, 2)
        \union Words({"lead", "tail", "control", "char"}, 4)
====
