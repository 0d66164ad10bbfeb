-------------------------- MODULE MCStreamReader --------------------------
(* Streams for model-checking StreamReader, made of a small repertoire of  *)
(* messages whose bodies read as headers of every kind when the framing is *)
(* lost.                                                                   *)
EXTENDS StreamReader, SequencesExt

Message(type, body) == <<type, Len(body)>> \o body

Flatten(script) ==
  [cells |-> FlattenSeq(script),
   start |-> FoldLeft(LAMBDA offsets, m : Append(offsets, Last(offsets) + Len(m)),
                      <<0>>, script)]

StreamsOf(scripts) == {Flatten(script) : script \in scripts}

Flac     == Message(1, <<1, 5>>)
Vorbis   == Message(1, <<2, 5>>)        \* not supported
Chunk    == Message(2, <<3, 2, 2, 9>>)  \* its timestamp reads as settings
Settings == Message(3, <<2, 9, 1, 1>>)  \* reads as a chunk of negative size
Time     == Message(4, <<1>>)           \* reads as the start of a codec header
Tags     == Message(6, <<3, 1, 6>>)     \* reads as settings without a prefix
BigChunk == Message(2, <<3, 5, 2, 9, 2, 9, 2>>)  \* larger than the buffer

Repertoire == {Flac, Vorbis, Chunk, Settings, Time, Tags}

(* Every pair of messages, every message between a codec and a chunk, and  *)
(* three messages of which some do not fit the buffer.                     *)
MCStreams ==
  StreamsOf(BoundedSeq(Repertoire, 2)
              \cup {<<Flac, m, Chunk>> : m \in Repertoire}
              \cup BoundedSeq({Flac, BigChunk, Chunk}, 3))
=============================================================================
