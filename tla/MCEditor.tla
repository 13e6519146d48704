------------------------------ MODULE MCEditor ------------------------------
(***************************************************************************)
(* The reducer on small documents: a typist who types, erases, splits and  *)
(* joins lines, operates, moves, scrolls, undoes and redoes in any order.  *)
(***************************************************************************)
EXTENDS Editor

Chars == {"a", "A", "b", "B", "(", ")", "\"", ".", " ", "tab", "wide", "ctrl"}
SmallDocs ==
    {<<<<"a", " ", "(">>, <<>>, <<" ", "B", ")">>>>,
     <<<<"\"", ".", "a", "\"", " ">>>>,
     <<<<"(", ")">>, <<"(", "wide", "tab", "(", ")", ")">>>>,
     <<<<>>, <<"ctrl">>, <<>>, <<>>, <<"a">>>>}
=============================================================================
