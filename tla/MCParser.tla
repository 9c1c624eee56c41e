-------------------------------- MODULE MCParser --------------------------------
(***************************************************************************)
(* Documents for the parser.  Each of the first set is accepted on some    *)
(* path; together they call every routine.  Rejected is one no edit of      *)
(* those gives: a shared array with values.  Edited are these and all that *)
(* differ from one of them by a token lost, a token become a brace, or the *)
(* rest of the document lost.                                              *)
(***************************************************************************)
EXTENDS Parser

Accepted ==
  {
  <<"pipeline", "P", "{", "pass", "p1", "{", "vertex", "{", "int", "x", "=", "1", "+", "x", ";", "if", "(", "x", ")",
    "{", "return", ";", "}", "else", "discard", ";", "x", "[", "1", "]", ".", "y", "+=", "-", "1", ";", "{", "}",
    "return", "x", "if", "(", "y", ")", ";", "}", "}", "}", "EOF">>,
  <<"pipeline", "P", "{", "pass", "p1", "{", "fragment", "{", "foreach", "(", "x", "in", "0", "..", "1", ",", "y",
    "in", "0", "..", "x", "by", "1", ")", "{", "skip", ";", "}", "for", "(", "x", "in", "1", "..=", "1", ")", "{",
    "}", "for", "(", "y", "=", "0", ";", "y", "<", "1", ";", "y", "++", ")", "{", "}", "while", "(", "x", ")", "{",
    "break", "if", "(", "x", ")", ";", "}", "loop", "{", "}", "until", "(", "x", ")", "}", "}", "}", "EOF">>,
  <<"pipeline", "P", "{", "pass", "p1", "{", "vertex", "{", "switch", "(", "x", ")", "{", "case", "1", ",", "0", ":",
    "x", "=", "1", ";", "case", "x", ":", "default", ":", "{", "}", "}", "eval", "{", "x", "=", "1", ";", "}", "eval",
    "if", "(", "1", ")", "{", "}", "else", "x", "=", "1", ";", "const", "int", "z", "=", "1", ";", "}", "}", "}",
    "EOF">>,
  <<"pipeline", "P", "{", "enum", "E", ":", "int", "{", "A", "(", "int", ",", "V", ")", "=", "1", ",", "B", ",", "f",
    "::", "(", ")", "->", "int", "{", "A", "(", "x", ")", ":", "1", ";", "default", ":", "{", "}", "}", "}", "struct",
    "V", "{", "@bounds", "(", ">", "0", ")", "float", "[", "1", "]", "x", ";", "g", "::", "(", "V", "y", ")", "->",
    "V", "{", "return", "y", ";", "}", "}", ";", "}", "EOF">>,
  <<"pipeline", "P", "{", "attributes", "{", "x", ":", "float2", "@instance", "@bounds", "(", "0", "<", "x", "<=",
    "1", ")", "}", "resources", "{", "t", ":", "cbuffer", "<", "float2", "[", "1", "]", ">", ";", "}", "variants",
    "{", "v", ":", "bool", "=", "true", ";", "rules", "{", "require", "v", "->", "v", ";", "conflict", "v", ",", "v",
    ";", "}", "}", "pass", "p1", "{", "use", "attributes", "{", "x", "?", "}", "use", "resources", "{", "t", ",", "}",
    "vertex", "{", "t", "=", "resources", ".", "t", "+", "attributes", ".", "x", "+", "variants", ".", "v", ";", "}",
    "}", "}", "EOF">>,
  <<"submodule", "S", "extends", "M", "{", "struct", "V", "{", "int", "x", ";", "}", "}", "module", "M", "{",
    "import", "Noise", "as", "n", "const", "int", "x", "=", "1", ";", "f", "::", "(", "int", "^", "x", ",", "y", ":",
    "int", "[", "1", "]", ")", "->", "float2", "{", "return", "x", ";", "}", "}", "pipeline", "P", "{", "import", "M",
    "using", "M", "using", "q", "=", "int", "constraint", "C", "=", "int", "|", "float", ";", "}", "EOF">>,
  <<"pipeline", "P", "{", "constraint", "C", "=", "int", ";", "eval", "f", "::", "(", ")", "->", "int", "{", "return",
    "if", "(", "1", ")", "0", ";", "return", "1", ";", "}", "g", "::", "(", "C", "x", ")", "->", "C", "{", "int", ":",
    "x", "default", ":", "{", "}", "}", "h", "::", "(", ")", "->", "vertex_function", "{", "vertex", "{", "}", "}",
    "}", "EOF">>,
  <<"pipeline", "P", "{", "k", "::", "(", ")", "->", "pass_block", "{", "pass", "{", "outputs", "{", "x", ":",
    "float4", "@location", "(", "0", ")", ",", "}", "const", "int", "[", "1", "]", "x", "=", "{", "1", "}", ";", "}",
    "}", "pass", "p1", "=", "k", "(", ")", "{", "use", "attributes", "{", "x", "=", "y", ";", "}", "variants", "{",
    "v", "}", "}", "}", "EOF">>,
  <<"pipeline", "P", "{", "compute_graph", "{", "node", "p1", "{", "inputs", "{", "x", "readonly", ",", "y", "}",
    "outputs", "{", "t", "}", "}", "}", "pass", "p1", "{", "compute", "c1", "[", "1", ",", "1", ",", "1", "]", "{",
    "shared", "int", "y", ";", "int", "[", "1", "]", "x", "=", "{", "1", "}", ";", "M", "::", "f", "(", "x", ")", ";",
    "x", "=", "sin", "(", "y", ")", ";", "}", "}", "}", "EOF">>,
  <<"pipeline", "P", "{", "pass", "p1", "{", "vertex", "=", "p2", ".", "vertex", "fragment", "=", "x", "?", "f", "(",
    ")", ":", "k", "(", ")", "}", "pass", "p2", "{", "fragment", "{", "@flat", "output", ".", "x", "=", "int", "[",
    "1", "]", "[", "1", "]", ";", "}", "}", "}", "EOF">>,
  <<"pipeline", "P", "{", "struct", "V", "{", "}", "pass", "p1", "{", "vertex", "{", "V", "x", ";", "V", "^", "y",
    "=", "x", "^", ";", "V", "[", "1", "]", "z", "=", "{", "x", "}", ";", "M", "::", "V", "n", ";", "x", "=", "-",
    "y", "*", "(", "z", "==", "n", ")", "?", "E", "::", "A", ":", "!", "t", ";", "@branch", "if", "(", "x", ")", ";",
    "f", "(", "x", ",", "y", ")", ";", "eval", "for", "(", "x", "in", "y", ")", "{", "}", "}", "}", "}", "EOF">>,
  <<"pipeline", "P", "{", "attributes", "{", "x", ":", "float2", "@compressed", "(", "y", ")", "}", "}", "EOF">>}

Delete(d, k) == SubSeq(d, 1, k - 1) \o SubSeq(d, k + 1, Len(d))
Cut(d, k) == SubSeq(d, 1, k - 1) \o <<"EOF">>
Brace(d, k) == [d EXCEPT ![k] = "}"]
Edits(d) == UNION {{Delete(d, k), Cut(d, k), Brace(d, k)} : k \in 1..(Len(d) - 1)}
Rejected ==
  {<<"pipeline", "P", "{", "pass", "p1", "{", "compute", "c1", "[", "1", ",", "1", ",", "1", "]", "{", "shared", "int",
    "[", "1", "]", "y", "=", "{", "1", "}", ";", "}", "}", "}", "EOF">>}
Edited == Accepted \cup Rejected \cup UNION {Edits(d) : d \in Accepted \cup Rejected}

(* A switch whose first case has four more: the room for switches is four. *)
Switch(body) == <<"switch", "(", "x", ")", "{">> \o body \o <<"}">>
Crowded ==
  {<<"pipeline", "P", "{", "pass", "p1", "{", "vertex", "{">> \o
   Switch(<<"case", "1", ":">> \o Switch(<<>>) \o Switch(<<>>) \o Switch(<<>>) \o Switch(<<>>) \o
          <<"case", "0", ":", "x", "=", "1", ";">>) \o
   <<"}", "}", "}", "EOF">>}
=============================================================================
