----------------------------- MODULE MCSession -----------------------------
(* Streams for model-checking Session: each has a message in the middle of *)
(* which a connection may be closed.                                       *)
EXTENDS Session

Stream(cells, start) == [cells |-> cells, start |-> start]

\* A codec header and a chunk.
Music == Stream(<<1, 2, 1, 5, 2, 4, 3, 2, 2, 4>>, <<0, 4, 10>>)
\* A chunk without a codec header, whose cells read as a Time message.
Mute  == Stream(<<2, 4, 4, 2, 1, 4>>, <<0, 6>>)
\* A Time message and a tag.
Talk  == Stream(<<4, 1, 3, 6, 1, 1>>, <<0, 3, 6>>)
\* A Time message and a tag that does not fit the buffer.
Long  == Stream(<<4, 1, 3, 6, 5, 1, 1, 1, 1, 1>>, <<0, 3, 10>>)

MCStreams == {Music, Mute, Talk, Long}
=============================================================================
