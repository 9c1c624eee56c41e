--------------------------- MODULE MCComputeGraph ---------------------------
(***************************************************************************)
(* Blocks of two and three nodes: every combination of a menu of node      *)
(* shapes over a buffer, an image and a uniform buffer, so chains, fan-in, *)
(* self-reads, repeated slots and cycles occur, and of another over bad    *)
(* passes, resources and access modes, so each error does.                 *)
(***************************************************************************)
EXTENDS ComputeGraph

In(r, a) == [name |-> r, access |-> a]
Shape(ins, outs) == [inputs |-> ins, outputs |-> outs]

MCPasses == {"a", "b", "c", "unlisted", "missing"}
MCResources == {"buf", "img", "uni", "nowhere"}
MCPipelinePasses == {"a", "b", "c", "unlisted"}
MCPassType == [p \in {"a", "b", "c"} |-> IF p = "c" THEN "render" ELSE "compute"]
MCKind == [r \in {"buf", "img", "uni"} |->
             IF r = "buf" THEN "Buffer" ELSE IF r = "img" THEN "Image" ELSE "Uniform"]

RO(r) == In(r, "ReadOnly")
RW(r) == In(r, "ReadWrite")
WO(r) == In(r, "WriteOnly")

OrderShapes == {
  Shape(<<>>, <<"buf">>),
  Shape(<<>>, <<"img">>),
  Shape(<<>>, <<"buf", "img">>),
  Shape(<<RO("buf")>>, <<>>),
  Shape(<<RO("buf"), RO("buf")>>, <<"img">>),
  Shape(<<RO("buf"), RO("img")>>, <<>>),
  Shape(<<RO("img"), RO("uni")>>, <<"buf">>),
  Shape(<<RW("buf")>>, <<"buf">>),
  Shape(<<RW("img"), RO("img")>>, <<"img">>),
  Shape(<<WO("buf")>>, <<"buf", "buf">>) }

Named(shape, p) == [pass |-> p, inputs |-> shape.inputs, outputs |-> shape.outputs]

OrderGraphs ==
  {<<Named(s, "a"), Named(t, "b"), Named(u, "c")>> :
     s \in OrderShapes, t \in OrderShapes, u \in OrderShapes}

ErrorShapes == {
  Shape(<<>>, <<"buf">>),
  Shape(<<RO("buf")>>, <<>>),
  Shape(<<RO("buf")>>, <<"buf">>),
  Shape(<<RW("buf")>>, <<"buf">>),
  Shape(<<WO("buf"), RO("buf")>>, <<"buf">>),
  Shape(<<RO("img"), WO("nowhere")>>, <<>>),
  Shape(<<RO("uni")>>, <<"img", "uni">>),
  Shape(<<RO("buf")>>, <<"nowhere">>),
  Shape(<<RO("uni"), RO("img")>>, <<"buf">>) }

ErrorGraphs ==
  {<<Named(s, p), Named(t, q)>> :
     s \in ErrorShapes, t \in ErrorShapes,
     p \in {"a", "unlisted", "missing"}, q \in {"a", "b"}}

MCGraphs == OrderGraphs \cup ErrorGraphs
=============================================================================
