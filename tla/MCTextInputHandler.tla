--------------------------- MODULE MCTextInputHandler ---------------------------
(* Characters of one to four bytes; carets at both ends, inside and past
   the end of the texts. *)
EXTENDS TextInputHandler

MCInputs == {<<Letter>>, <<Space>>, <<Lead2, Cont>>, <<Lead3, Cont, Cont, Letter>>,
             <<Lead4, Cont, Cont, Cont>>}
MCGameTexts == {<<>>, <<Lead2, Cont, Space, Letter>>}
MCCarets == {-1, 1, 3}
================================================================================
