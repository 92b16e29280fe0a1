------------------------------ MODULE MCFileTools ------------------------------
(* A small instance of FileTools: an edit that grows the file, one that      *)
(* shrinks it, texts in which a string occurs twice or overlaps itself,      *)
(* empty lines, several kinds of line breaks, a file longer than may be      *)
(* written.                                                                  *)
EXTENDS FileTools

SomeFiles == {<<>>, <<"a", "n", "n", "b">>, <<"a", "a">>, <<"a", "n", "b", "n">>, <<"a", "a", "a">>,
              <<"a", "r", "n", "b">>, <<"f", "n", "r", "n">>}

SomeContents == {<<"b">>, <<"a", "b", "a">>}

SomeEdits == {<<<<"a">>, <<"b", "b">>>>, <<<<"a", "a">>, <<>>>>}

SomeLimits == {1, None}

=============================================================================
