-------------------------------- MODULE LcmGl --------------------------------
(***************************************************************************)
(* Remote drawing: a client queues commands and sends them as one message    *)
(* (lcmgl.c), a viewer draws what the last message says (lcmgl_decode.c,      *)
(* lcmgl_bot_renderer.c).  How commands become bytes (also in LCMGL.java and  *)
(* lcmgl.py) and bytes become commands are lists of cases that must agree.    *)
(*                                                                         *)
(* A command has an op, the client library that queues it and the arguments   *)
(* that shape its bytes: n is the length of a text, the bytes in a row of a   *)
(* texture, or the number of a texture; rows and zip are of textures.  An     *)
(* argument is a value <<what, n>> and takes `of' bytes, of which a byte      *)
(* knows which it is.                                                       *)
(***************************************************************************)
EXTENDS Integers, Sequences, SequencesExt, TLC

CONSTANTS
  Programs,         \* what clients draw: sequences of commands
  InitialAlloc,     \* INITIAL_ALLOC
  UseBotVis,        \* USE_BOT_VIS
  MaxScenes         \* bound: messages sent

VARIABLES
  data,             \* the arguments that are encoded in the buffer
  data_alloc,       \* bytes allocated for it
  overrun,          \* whether more was ever written than is allocated
  texture_count,
  queued,           \* the commands queued since the buffer was switched (history)
  rest,             \* what the client has yet to draw
  scenes,           \* what was queued for each message that was sent (history)
  network,          \* messages under way
  front             \* the messages that the viewer draws, at most one

vars == <<data, data_alloc, overrun, texture_count, queued, rest, scenes,
          network, front>>

Init ==
  /\ data = << >> /\ data_alloc = InitialAlloc /\ overrun = FALSE
  /\ texture_count = 0
  /\ rest \in Programs /\ queued = << >> /\ scenes = << >>
  /\ network = << >> /\ front = << >>

-----------------------------------------------------------------------------
Repeat(n, x) == [k \in 1..n |-> x]

-----------------------------------------------------------------------------
(* Encoding. *)

\* The widths of the arguments of commands that always have the same, in C: those of OpenGL ...
GlWidths ==
  [BEGIN |-> <<4>>, END |-> << >>, VERTEX2D |-> Repeat(2, 8), VERTEX2F |-> Repeat(2, 4),
   VERTEX3F |-> Repeat(3, 4), VERTEX3D |-> Repeat(3, 8), NORMAL3F |-> Repeat(3, 4),
   SCALEF |-> Repeat(3, 4), TRANSLATED |-> Repeat(3, 8), ROTATED |-> Repeat(4, 8),
   PUSH_MATRIX |-> << >>, POP_MATRIX |-> << >>, MULT_MATRIXF |-> Repeat(16, 4),
   MULT_MATRIXD |-> Repeat(16, 8), LOAD_IDENTITY |-> << >>, MATRIX_MODE |-> <<4>>,
   ORTHO |-> Repeat(6, 8), COLOR3F |-> Repeat(3, 4), NOP |-> << >>]
StateWidths ==
  [COLOR4F |-> Repeat(4, 4), POINTSIZE |-> <<4>>, ENABLE |-> <<4>>, DISABLE |-> <<4>>,
   MATERIALF |-> Repeat(6, 4), PUSH_ATTRIB |-> <<4>>, POP_ATTRIB |-> << >>, DEPTH_FUNC |-> <<4>>]
\* ... and shapes.
ShapeWidths ==
  [BOX |-> Repeat(3, 8) \o Repeat(3, 4), CIRCLE |-> Repeat(3, 8) \o <<4>>,
   DISK |-> Repeat(3, 8) \o <<4, 4>>, CYLINDER |-> Repeat(6, 8) \o <<4, 4>>,
   SPHERE |-> Repeat(4, 8) \o <<4, 4>>, LINE_WIDTH |-> <<4>>,
   RECT |-> Repeat(5, 8) \o <<1>>, SCALE_TO_VIEWER_AR |-> << >>]
CWidths == GlWidths @@ StateWidths @@ ShapeWidths

\* The same of the Java class, with add0 ... add4d: fewer commands.
JavaWidths ==
  [BEGIN |-> <<4>>, END |-> << >>, ENABLE |-> <<4>>, DISABLE |-> <<4>>, PUSH_MATRIX |-> << >>,
   POP_MATRIX |-> << >>, LOAD_IDENTITY |-> << >>, MULT_MATRIXF |-> Repeat(16, 4),
   MULT_MATRIXD |-> Repeat(16, 8), POINTSIZE |-> <<4>>, LINE_WIDTH |-> <<4>>,
   COLOR3F |-> Repeat(3, 4), COLOR4F |-> Repeat(4, 4), SCALEF |-> Repeat(3, 4),
   TRANSLATED |-> Repeat(3, 8), ROTATED |-> Repeat(4, 8), NORMAL3F |-> Repeat(3, 4),
   VERTEX2D |-> Repeat(2, 8), VERTEX2F |-> Repeat(2, 4), VERTEX3D |-> Repeat(3, 8),
   VERTEX3F |-> Repeat(3, 4), CIRCLE |-> Repeat(3, 8) \o <<4>>,
   DISK |-> Repeat(3, 8) \o <<4, 4>>]

\* The opcode that the Java class writes: glMultMatrixd writes that of floats.
JavaOpcode(op) == IF op = "MULT_MATRIXD" THEN "MULT_MATRIXF" ELSE op

\* The same of the Python class, whose functions are made from format strings.
PythonWidths ==
  [BEGIN |-> <<4>>, END |-> << >>, VERTEX2F |-> Repeat(2, 4), VERTEX2D |-> Repeat(2, 8),
   VERTEX3F |-> Repeat(3, 4), VERTEX3D |-> Repeat(3, 8), COLOR3F |-> Repeat(3, 4),
   COLOR4F |-> Repeat(4, 4), POINTSIZE |-> <<4>>, LINE_WIDTH |-> <<4>>, ENABLE |-> <<4>>,
   DISABLE |-> <<4>>, TRANSLATED |-> Repeat(3, 8), ROTATED |-> Repeat(4, 8),
   SCALEF |-> Repeat(3, 4), LOAD_IDENTITY |-> << >>, PUSH_MATRIX |-> << >>,
   POP_MATRIX |-> << >>, NORMAL3F |-> Repeat(3, 4), MATERIALF |-> Repeat(6, 4),
   BOX |-> Repeat(3, 8) \o Repeat(3, 4), CIRCLE |-> Repeat(3, 8) \o <<4>>,
   DISK |-> Repeat(3, 8) \o <<4, 4>>, SPHERE |-> Repeat(4, 8) \o <<4, 4>>,
   CYLINDER |-> Repeat(6, 8) \o <<4, 4>>]

Widths == [C |-> CWidths, Java |-> JavaWidths, Python |-> PythonWidths]

Argument(width, what, n) == [width |-> width, value |-> <<what, n>>]

Numbered(widths, what) == [k \in DOMAIN widths |-> Argument(widths[k], what, k)]

\* bot_lcmgl_text_ex: the length goes before the characters.
TextArguments(c) ==
  Numbered(<<4, 4, 8, 8, 8>>, "of text") \o <<Argument(4, "len", c.n)>>
    \o Numbered(Repeat(c.n, 1), "char")

\* bot_lcmgl_texture2d: each row as it is, or its compressed size (1) and the row.  The
\* texture2d of Python leaves the type out, and compresses nothing.
TextureArguments(c, tex_id) ==
  << Argument(4, "tex_id", tex_id), Argument(4, "width", c.n), Argument(4, "height", c.rows),
     Argument(4, "format", 1) >>
  \o (IF c.client = "Python" THEN << >> ELSE <<Argument(4, "type", 1)>>)
  \o << Argument(4, "compression", IF c.zip THEN 1 ELSE 0),
     Argument(4, "datalen", c.rows * c.n) >>
  \o FlattenSeq([row \in 1..c.rows |->
       IF c.zip THEN <<Argument(4, "size", 1), Argument(1, "row", row)>>
       ELSE <<Argument(c.n, "row", row)>>])

\* The opcode and the arguments of a command, queued after so many textures.
Arguments(c, ntextures) ==
  <<Argument(1, IF c.client = "Java" THEN JavaOpcode(c.op) ELSE c.op, 0)>> \o
    CASE c.op = "TEXT_LONG" -> TextArguments(c)
      [] c.op = "TEX_2D" -> TextureArguments(c, ntextures + 1)
      [] c.op = "TEX_DRAW_QUAD" ->
           <<Argument(4, "tex_id", c.n)>> \o Numbered(Repeat(12, 8), "corner")
      [] OTHER -> Numbered(Widths[c.client][c.op], "argument")

Bytes(arguments) ==
  FlattenSeq([k \in DOMAIN arguments |->
    [b \in 1..arguments[k].width |->
       [value |-> arguments[k].value, byte |-> b, of |-> arguments[k].width]]])

-----------------------------------------------------------------------------
(* Decoding. *)

\* Of commands that always have the same: how many doubles are read, then how many
\* words of four bytes, then how many bytes.
ReadsOfMatrices ==
  [BEGIN |-> <<0, 1, 0>>, END |-> <<0, 0, 0>>, VERTEX2D |-> <<2, 0, 0>>,
   VERTEX2F |-> <<0, 2, 0>>, VERTEX3F |-> <<0, 3, 0>>, VERTEX3D |-> <<3, 0, 0>>,
   NORMAL3F |-> <<0, 3, 0>>, TRANSLATED |-> <<3, 0, 0>>, ROTATED |-> <<4, 0, 0>>,
   LOAD_IDENTITY |-> <<0, 0, 0>>, PUSH_MATRIX |-> <<0, 0, 0>>, POP_MATRIX |-> <<0, 0, 0>>,
   MULT_MATRIXF |-> <<0, 16, 0>>, MULT_MATRIXD |-> <<16, 0, 0>>, MATRIX_MODE |-> <<0, 1, 0>>,
   ORTHO |-> <<6, 0, 0>>, SCALEF |-> <<0, 3, 0>>]
ReadsOfState ==
  [COLOR3F |-> <<0, 3, 0>>, COLOR4F |-> <<0, 4, 0>>, POINTSIZE |-> <<0, 1, 0>>,
   LINE_WIDTH |-> <<0, 1, 0>>, ENABLE |-> <<0, 1, 0>>, DISABLE |-> <<0, 1, 0>>,
   NOP |-> <<0, 0, 0>>, PUSH_ATTRIB |-> <<0, 1, 0>>, POP_ATTRIB |-> <<0, 0, 0>>,
   DEPTH_FUNC |-> <<0, 1, 0>>]
ReadsOfShapes ==
  [BOX |-> <<3, 3, 0>>, RECT |-> <<5, 0, 1>>, CIRCLE |-> <<3, 1, 0>>,
   SPHERE |-> <<4, 2, 0>>, DISK |-> <<3, 2, 0>>, CYLINDER |-> <<6, 2, 0>>,
   MATERIALF |-> <<0, 6, 0>>, SCALE_TO_VIEWER_AR |-> <<0, 0, 0>>]
Reads == ReadsOfMatrices @@ ReadsOfState @@ ReadsOfShapes

Garbled == <<"garbled", 0>>

\* What a decoding function makes of the next bytes.
Value(bytes, pos, width) ==
  IF \A b \in 1..width :
       /\ pos + b - 1 \in DOMAIN bytes
       /\ bytes[pos + b - 1] = [value |-> bytes[pos].value, byte |-> b, of |-> width]
  THEN bytes[pos].value ELSE Garbled

Total(widths) == FoldLeft(LAMBDA sum, width : sum + width, 0, widths)

\* What is read with these widths one after the other.
Values(bytes, pos, widths) ==
  [k \in DOMAIN widths |-> Value(bytes, pos + Total(SubSeq(widths, 1, k - 1)), widths[k])]

\* The widths that the decoder reads after an opcode; those of texts and textures
\* depend on what it reads first.  Without USE_BOT_VIS it reads nothing of these.
ReadWidths(bytes, pos, op, use_bot_vis) ==
  CASE op \in DOMAIN Reads ->
         Repeat(Reads[op][1], 8) \o Repeat(Reads[op][2], 4) \o Repeat(Reads[op][3], 1)
    [] op \in {"TEXT_LONG", "TEX_2D", "TEX_DRAW_QUAD"} /\ ~use_bot_vis -> << >>
    [] op = "TEXT_LONG" ->
         LET len == Value(bytes, pos + 32, 4)[2]
         IN  <<4, 4, 8, 8, 8, 4>> \o Repeat(len, 1)
    [] op = "TEX_2D" ->
         LET word(k) == Value(bytes, pos + 4 * (k - 1), 4)[2]
             row == IF word(6) = 1 THEN <<4, 1>> ELSE <<word(2)>>
         IN  Repeat(7, 4) \o FlattenSeq(Repeat(word(3), row))
    [] op = "TEX_DRAW_QUAD" -> <<4>> \o Repeat(12, 8)
    [] OTHER -> << >>

\* bot_lcmgl_decode from a position on: the commands with what was read of each.  A
\* quad is drawn if there are so many textures.
RECURSIVE Decoded(_, _, _, _)
Decoded(bytes, pos, ntextures, use_bot_vis) ==
  IF pos > Len(bytes) THEN << >>
  ELSE LET op == Value(bytes, pos, 1)[1]
           widths == ReadWidths(bytes, pos + 1, op, use_bot_vis)
           values == Values(bytes, pos + 1, widths)
           others == Decoded(bytes, pos + 1 + Total(widths),
                             IF op = "TEX_2D" THEN ntextures + 1 ELSE ntextures, use_bot_vis)
       IN  IF op = "TEX_DRAW_QUAD" /\ use_bot_vis /\ values[1][2] > ntextures THEN others
           ELSE << <<op, values>> >> \o others

-----------------------------------------------------------------------------
(* The client. *)

\* ensure_space
Grown(alloc, datalen, needed) == IF datalen + needed < alloc THEN alloc ELSE 2 * alloc

\* The allocation while arguments are appended, and whether they fitted.
Appended(arguments) ==
  FoldLeft(LAMBDA buffer, argument :
             LET alloc == Grown(buffer.alloc, buffer.len, argument.width)
                 len == buffer.len + argument.width
             IN  [alloc |-> alloc, len |-> len, over |-> buffer.over \/ len > alloc],
           [alloc |-> data_alloc, len |-> Len(Bytes(data)), over |-> overrun],
           arguments)

\* A drawing function.  The texture of a quad must be of this buffer.
Draw(c) ==
  /\ rest' = Tail(rest)
  /\ IF c.op = "TEX_DRAW_QUAD" /\ c.n \notin 1..texture_count
     THEN UNCHANGED <<data, data_alloc, overrun, texture_count, queued>>
     ELSE LET arguments == Arguments(c, texture_count)
          IN  /\ data' = data \o arguments
              /\ data_alloc' = Appended(arguments).alloc
              /\ overrun' = Appended(arguments).over
              /\ texture_count' = texture_count + (IF c.op = "TEX_2D" THEN 1 ELSE 0)
              /\ queued' = Append(queued,
                   [command |-> c,
                    drawn |-> <<c.op, [k \in 1..Len(arguments) - 1 |-> arguments[k + 1].value]>>])
  /\ UNCHANGED <<scenes, network, front>>

\* Defect: textures go on being counted.
SwitchBufferKeepsCount ==
  /\ Len(scenes) < MaxScenes
  /\ scenes' = Append(scenes, queued)
  /\ network' \in {network, Append(network, Bytes(data))}
  /\ data' = << >> /\ queued' = << >>
  /\ UNCHANGED <<data_alloc, overrun, texture_count, rest, front>>

\* bot_lcmgl_switch_buffer.  The message may be lost.
SwitchBuffer ==
  /\ Len(scenes) < MaxScenes
  /\ scenes' = Append(scenes, queued)
  /\ network' \in {network, Append(network, Bytes(data))}
  /\ data' = << >> /\ texture_count' = 0 /\ queued' = << >>
  /\ UNCHANGED <<data_alloc, overrun, rest, front>>

-----------------------------------------------------------------------------
(* The viewer. *)

OnLcmglData ==
  /\ network # << >>
  /\ front' = <<Head(network)>>
  /\ network' = Tail(network)
  /\ UNCHANGED <<data, data_alloc, overrun, texture_count, queued, rest, scenes>>

OnClearButton ==
  /\ front # << >>
  /\ front' = << >>
  /\ UNCHANGED <<data, data_alloc, overrun, texture_count, queued, rest, scenes,
                 network>>

Next == SwitchBuffer \/ OnLcmglData \/ OnClearButton \/ (rest # << >> /\ Draw(Head(rest)))

Spec == Init /\ [][Next]_vars

-----------------------------------------------------------------------------
(* Properties. *)

Drawn(scene) == [k \in DOMAIN scene |-> scene[k].drawn]

\* Matrices of doubles from Java and textures from Python (LCMGL.java:191, lcmgl.py:224).
IsMisread(c) == <<c.client, c.op>> \in {<<"Java", "MULT_MATRIXD">>, <<"Python", "TEX_2D">>}

\* What the viewer draws is what the client queued for one of its messages: each
\* command with its own arguments, nothing taken for something else, and every quad
\* with a texture (bot_lcmgl_decode, bot_lcmgl_switch_buffer), unless it has a command that is
\* misread.  And nothing was written past the end of the buffer, although it is doubled
\* only once for each argument: none is longer than the first allocation (ensure_space).
DrawnAsQueued ==
  /\ ~overrun
  /\ front # << >> =>
       \E scene \in Range(scenes) :
         \/ Decoded(front[1], 1, 0, UseBotVis) = Drawn(scene)
         \/ \E k \in DOMAIN scene : IsMisread(scene[k].command)
=============================================================================
