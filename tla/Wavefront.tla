------------------------------ MODULE Wavefront ------------------------------
(***************************************************************************)
(* Models in files (glm.c, wavefront.c).  A file is read twice: the first    *)
(* pass counts what the second stores.  Programs give the model normals and   *)
(* texture coordinates, turn it inside out, weld and scale it, draw it and    *)
(* write it to a file that can be read again.                               *)
(*                                                                         *)
(* A file is a sequence of statements, of which a face lists its corners      *)
(* [v, t, n]: numbers, from 1, of a position, of a texture coordinate and of   *)
(* a normal, or Absent.  Positions are triples of integers, in parts of       *)
(* `unit', and a normal is the set of directions that it is the mean of.     *)
(***************************************************************************)
EXTENDS Integers, Sequences, FiniteSets, Functions, SequencesExt, FiniteSetsExt

CONSTANTS
  Files,            \* the files that programs read
  MaterialLibraries,    \* the libraries that they may name: sequences of statements
  Modes,            \* how programs draw and write: sets of bits
  MaxActs           \* bound: what is done to models

VARIABLES
  model,            \* the model that was read, at most one
  library,          \* the library as it is in the file
  unflushed,        \* a library that was written to a file which is not closed, at most one
  written,          \* the file that was written last, with its mode and model, at most one
  opened,           \* the file that was read last, and what came of it, at most one (history)
  ended,            \* how the program ended, if it did
  drawn,            \* what was drawn last, and how, at most one
  acts

vars == <<model, library, unflushed, written, opened, ended, drawn, acts>>

Absent == -1
Nameless == ""
Corners == 1..3

Init ==
  /\ model = << >> /\ library \in MaterialLibraries /\ unflushed = << >> /\ written = << >>
  /\ opened = << >> /\ ended = "no" /\ drawn = << >> /\ acts = 0

-----------------------------------------------------------------------------
(* Materials, numbered from 0. *)

Material(name) == [name |-> name, blends |-> FALSE, map |-> Absent]

\* glmFindOrAddTexture.  A texture that cannot be loaded counts as well.
WithTexture(textures, name) ==
  IF name \in Range(textures) THEN textures ELSE Append(textures, name)
Texture(textures, name) == (CHOOSE k \in DOMAIN textures : textures[k] = name) - 1

Count(file, op) == Len(SelectSeq(file, LAMBDA statement : statement.op = op))

\* The first pass of glmReadMTL: room for the default and one for each newmtl.
RoomFor(lib) ==
  [k \in 0 .. Count(lib, "newmtl") |-> Material(IF k = 0 THEN "default" ELSE Nameless)]

\* The second: a map that is not of a colour takes the next line with it.
ReadMTL(lib, textures) ==
  LET Line(s, statement) ==
        CASE s.eaten -> [s EXCEPT !.eaten = FALSE]
          [] ~s.eaten /\ statement.op = "newmtl" ->
               [s EXCEPT !.last = @ + 1, !.materials[s.last + 1].name = statement.name]
          [] ~s.eaten /\ statement.op = "d" -> [s EXCEPT !.materials[s.last].blends = TRUE]
          [] ~s.eaten /\ statement.op = "map_Kd" ->
               LET more == WithTexture(s.textures, statement.name)
               IN  [s EXCEPT !.textures = more,
                             !.materials[s.last].map = Texture(more, statement.name)]
          [] ~s.eaten /\ statement.op = "map_other" -> [s EXCEPT !.eaten = TRUE]
          [] OTHER -> s
  IN  FoldLeft(Line,
        [materials |-> RoomFor(lib), last |-> 0, textures |-> textures, eaten |-> FALSE], lib)

\* glmFindMaterial stops at a material that has no name.
FindMaterial(materials, name) ==
  LET found == { k \in DOMAIN materials : materials[k].name \in {name, Nameless} }
  IN  IF found = {} THEN 0 ELSE Min(found)
IsNameless(materials, m) == m \in DOMAIN materials /\ materials[m].name = Nameless

\* glmWriteMTL: names and colours, but neither transparency nor textures.  The file is not
\* closed; it loses the last letter of its name, here and where it is read.
WriteMTL(materials) ==
  [k \in 1..Cardinality(DOMAIN materials) |->
    [op |-> "newmtl", name |-> IF IsNameless(materials, k - 1) THEN "(null)"
                               ELSE materials[k - 1].name]]

-----------------------------------------------------------------------------
(* Reading a model. *)

\* glmFindGroup, glmAddGroup: the newest group is the first.
Group(groups, name) == CHOOSE k \in DOMAIN groups : groups[k].name = name
WithGroup(groups, name) ==
  IF \E k \in DOMAIN groups : groups[k].name = name THEN groups
  ELSE <<[name |-> name, count |-> 0, triangles |-> << >>, material |-> 0]>> \o groups

\* The triangles of a face: each but the first has the first corner of the one before it and
\* the last.
Fan(corners) ==
  [k \in 1 .. Len(corners) - 2 |-> <<corners[1], corners[k + 1], corners[k + 2]>>]

\* glmFirstPass: the groups, and how many triangles each gets.  Libraries are read on the way.
FirstPass(file) ==
  LET Statement(s, statement) ==
        CASE statement.op = "g" -> [groups |-> WithGroup(s.groups, statement.name),
                                    group |-> statement.name]
          [] statement.op = "f" ->
               [s EXCEPT !.groups[Group(s.groups, s.group)].count =
                           @ + Len(Fan(statement.corners))]
          [] OTHER -> s
  IN  FoldLeft(Statement, [groups |-> WithGroup(<< >>, "default"), group |-> "default"], file)

\* A group has the material of its first face that has one.
Taking(group, material) == [group EXCEPT !.material = IF @ = 0 THEN material ELSE @]

\* A face in the second pass.  A number that is not given becomes Absent.
FaceRead(s, corners) ==
  LET fan == Fan(corners)
      read == [k \in DOMAIN fan |->
                 [v |-> [j \in Corners |-> fan[k][j].v], t |-> [j \in Corners |-> fan[k][j].t],
                  n |-> [j \in Corners |-> fan[k][j].n], material |-> s.material]]
      numbers == [k \in DOMAIN fan |-> Len(s.triangles) + k]
  IN  [s EXCEPT !.triangles = @ \o read,
                !.groups[s.group] =
                  [Taking(@, s.material) EXCEPT !.triangles = @ \o numbers]]

\* glmSecondPass, which begins in the newest group.
SecondPass(file, groups, materials) ==
  LET Statement(s, statement) ==
        CASE statement.op = "v" ->
               [s EXCEPT !.positions = Append(@, statement.at), !.unit = statement.unit]
          [] statement.op = "vn" -> [s EXCEPT !.normals = Append(@, {statement.to})]
          [] statement.op = "vt" -> [s EXCEPT !.texcoords = @ + 1]
          [] statement.op = "usemtl" ->
               LET m == FindMaterial(materials, statement.name)
               IN  [s EXCEPT !.material = m,
                             !.groups[s.group] = IF @.triangles = << >> THEN @ ELSE Taking(@, m),
                             !.asserted = @ \/ IsNameless(materials, m)]
          [] statement.op = "g" -> [s EXCEPT !.group = Group(groups, statement.name)]
          [] statement.op = "f" -> FaceRead(s, statement.corners)
          [] OTHER -> s
  IN  FoldLeft(Statement,
        [positions |-> << >>, unit |-> 1, normals |-> << >>, texcoords |-> 0, triangles |-> << >>,
         groups |-> groups, group |-> 1, material |-> 0, asserted |-> FALSE], file)

\* What was stored in a group that had no room for it.
Overruns(groups) == \E k \in DOMAIN groups : Len(groups[k].triangles) > groups[k].count

\* The facet normal of a triangle: glmNormalize leaves its direction.
Direction(v) ==
  LET size == Max({ IF v[k] < 0 THEN -v[k] ELSE v[k] : k \in Corners })
      divisors == { d \in 1..size : \A k \in Corners : v[k] % d = 0 }
  IN  IF size = 0 THEN v ELSE [k \in Corners |-> v[k] \div Max(divisors)]
Minus(p, q) == [k \in Corners |-> p[k] - q[k]]
Cross(u, v) ==
  <<u[2] * v[3] - u[3] * v[2], u[3] * v[1] - u[1] * v[3], u[1] * v[2] - u[2] * v[1]>>
Dot(u, v) == u[1] * v[1] + u[2] * v[2] + u[3] * v[3]
Facet(positions, t) ==
  Direction(Cross(Minus(positions[t.v[2]], positions[t.v[1]]),
                  Minus(positions[t.v[3]], positions[t.v[1]])))
FacetNormals(m) == [k \in DOMAIN m.triangles |-> Facet(m.positions, m.triangles[k])]

\* The numbers that glmReadOBJ verifies; those of texture coordinates it does not.
Verified(s) ==
  \A k \in DOMAIN s.triangles, j \in Corners :
    /\ s.triangles[k].v[j] \in DOMAIN s.positions
    /\ s.triangles[k].n[j] \in DOMAIN s.normals \cup {Absent}

\* A program that reads the library as another file of it is still open sees part of that.
LibraryRead ==
  IF unflushed = << >> THEN {library}
  ELSE { SubSeq(unflushed[1], 1, n) : n \in {0, Len(unflushed[1])} }

\* glmReadOBJ.  Facet normals are computed before the numbers are verified.
ReadOBJ(file, lib) ==
  LET named == Count(file, "mtllib") > 0
      mtl == ReadMTL(lib, << >>)
      materials == IF named THEN mtl.materials ELSE << >>
      s == SecondPass(file, FirstPass(file).groups, materials)
      read == [positions |-> s.positions, unit |-> s.unit, normals |-> s.normals,
               texcoords |-> s.texcoords, triangles |-> s.triangles, groups |-> s.groups,
               materials |-> materials, facets |-> << >>, smoothed |-> FALSE, stale |-> FALSE,
               textures |-> IF named THEN mtl.textures ELSE << >>]
  IN  CASE named /\ Count(lib, "unknown") > 0 -> [ended |-> "fatal", model |-> << >>]
        [] s.asserted -> [ended |-> "abort", model |-> << >>]
        [] Overruns(s.groups) -> [ended |-> "overrun", model |-> << >>]
        [] ~s.asserted /\ ~Overruns(s.groups) /\ ~Verified(s) ->
             [ended |-> "fatal", model |-> << >>]
        [] OTHER -> [ended |-> "no", model |-> <<[read EXCEPT !.facets = FacetNormals(read)]>>]

Opened(file) ==
  \E lib \in LibraryRead :
    LET result == ReadOBJ(file, lib)
    IN  /\ ended' = result.ended /\ model' = result.model
        /\ opened' = <<[file |-> file, library |-> lib, result |-> result]>>

\* bot_wavefront_model_create
Create ==
  /\ ended = "no" /\ model = << >>
  /\ \E file \in IF written = << >> THEN Files ELSE {written[1].file} : Opened(file)
  /\ drawn' = << >>
  /\ UNCHANGED <<library, unflushed, written, acts>>

\* bot_wavefront_model_destroy
Destroy ==
  /\ ended = "no" /\ model # << >>
  /\ model' = << >> /\ drawn' = << >> /\ opened' = << >>
  /\ UNCHANGED <<library, unflushed, written, ended, acts>>

\* The program ends: what it wrote comes to the disk.
Exit ==
  /\ ended = "no" /\ model = << >> /\ unflushed # << >>
  /\ library' = unflushed[1] /\ unflushed' = << >>
  /\ UNCHANGED <<model, written, opened, ended, drawn, acts>>

-----------------------------------------------------------------------------
(* What programs do to a model.  stale and smoothed are history: whether the facets are those of  *)
(* other positions, and all normals were made.                                       *)

\* A negative direction faces the other way.
Negative(v) == [k \in Corners |-> -v[k]]
Swapped(numbers) == <<numbers[3], numbers[2], numbers[1]>>
\* Defect: facet normals go on facing the way they did.
ReverseWindingKeepsFacets(m) ==
  [m EXCEPT
     !.triangles = [k \in DOMAIN @ |->
       [@[k] EXCEPT !.v = Swapped(@),
                    !.n = IF m.normals = << >> THEN @ ELSE Swapped(@),
                    !.t = IF m.texcoords = 0 THEN @ ELSE Swapped(@)]],
     !.normals = [k \in DOMAIN @ |-> { Negative(v) : v \in @[k] }]]

\* glmReverseWinding
ReverseWinding(m) ==
  [m EXCEPT
     !.triangles = [k \in DOMAIN @ |->
       [@[k] EXCEPT !.v = Swapped(@),
                    !.n = IF m.normals = << >> THEN @ ELSE Swapped(@),
                    !.t = IF m.texcoords = 0 THEN @ ELSE Swapped(@)]],
     !.facets = [k \in DOMAIN @ |-> Negative(@[k])],
     !.normals = [k \in DOMAIN @ |-> { Negative(v) : v \in @[k] }]]

\* glmVertexNormals: the triangles at a vertex, the last first and once for each corner.
Members(m, i) ==
  FlattenSeq([k \in 1..Len(m.triangles) |->
    LET number == Len(m.triangles) + 1 - k
    IN  [c \in 1..Cardinality({ j \in Corners : m.triangles[number].v[j] = i }) |-> number]])

\* Those of which the normal of the vertex is the mean: at less than 90 degrees to the first.
Averaged(m, i) ==
  { k \in Range(Members(m, i)) : Dot(m.facets[k], m.facets[Head(Members(m, i))]) > 0 }

\* The corners of a triangle at the vertex get the mean, or a facet normal of their own.
Wanting(triangle, i, keep) ==
  { j \in Corners : triangle.v[j] = i /\ (~keep \/ triangle.n[j] = Absent) }
NodeNormals(m, i, keep, s, k) ==
  LET wanting == Wanting(s.triangles[k], i, keep)
      shares == k \in Averaged(m, i)
      makes == ~shares \/ s.average = Absent
      of == IF shares THEN { m.facets[q] : q \in Averaged(m, i) } ELSE {m.facets[k]}
      number == IF makes THEN Len(s.normals) + 1 ELSE s.average
  IN  IF wanting = {} THEN s
      ELSE [s EXCEPT !.normals = IF makes THEN Append(@, of) ELSE @,
                     !.average = IF shares THEN number ELSE @,
                     !.triangles[k].n =
                       [j \in Corners |-> IF j \in wanting THEN number ELSE @[j]]]

VertexNormals(m, keep) ==
  LET Vertex(s, i) ==
        FoldLeft(LAMBDA t, k : NodeNormals(m, i, keep, t, k), [s EXCEPT !.average = Absent],
                 Members(m, i))
      made == FoldLeft(Vertex,
                [normals |-> IF keep THEN m.normals ELSE << >>, triangles |-> m.triangles,
                 average |-> Absent],
                [i \in DOMAIN m.positions |-> i])
  IN  [m EXCEPT !.normals = made.normals, !.triangles = made.triangles,
            !.smoothed = ~keep /\ ~m.stale]

\* glmLinearTexture, glmSpheremapTexture: a coordinate for each position, or for each normal.
LinearTexture(m) ==
  [m EXCEPT !.texcoords = Len(m.positions),
            !.triangles = [k \in DOMAIN @ |-> [@[k] EXCEPT !.t = m.triangles[k].v]]]
SpheremapTexture(m) ==
  [m EXCEPT !.texcoords = Len(m.normals),
            !.triangles = [k \in DOMAIN @ |-> [@[k] EXCEPT !.t = m.triangles[k].n]]]

\* glmWeldVectors.  A vector is compared with the copies and with what is where the next is to
\* come: the first finds itself there, and is lost when the next comes.
WeldVectors(vectors) ==
  LET Vector(s, i) ==
        LET equal == { j \in 1..s.copied : s.copies[j] = vectors[i] }
        IN  IF equal # {} THEN [s EXCEPT !.index = Append(@, Min(equal))]
            ELSE [s EXCEPT !.copies[s.copied] = vectors[i], !.copied = @ + 1,
                           !.index = Append(@, s.copied)]
  IN  FoldLeft(Vector, [copies |-> vectors, copied |-> 1, index |-> << >>],
               [i \in DOMAIN vectors |-> i])

\* glmWeld
Weld(m) ==
  LET welded == WeldVectors(m.positions)
  IN  [m EXCEPT !.positions = SubSeq(welded.copies, 1, welded.copied - 1),
                !.triangles = [k \in DOMAIN @ |->
                  [@[k] EXCEPT !.v = [j \in Corners |-> welded.index[@[j]]]]],
                !.stale = TRUE, !.smoothed = FALSE]

\* glmDimensions, of which glmUnitize takes the greatest: from the center of the axes.
Coordinates(m, axis) == { m.positions[i][axis] : i \in DOMAIN m.positions }
Magnitude(n) == IF n < 0 THEN -n ELSE n
Extrema(m) == [low |-> [axis \in Corners |-> Min(Coordinates(m, axis))],
               high |-> [axis \in Corners |-> Max(Coordinates(m, axis))]]
Dimensions(m) ==
  [axis \in Corners |-> Magnitude(Extrema(m).high[axis]) + Magnitude(Extrema(m).low[axis])]

\* glmUnitize, in parts of a new unit.
Unitize(m) ==
  [m EXCEPT
     !.unit = Max(Range(Dimensions(m))),
     !.positions = [i \in DOMAIN @ |-> [axis \in Corners |->
       2 * @[i][axis] - (Extrema(m).high[axis] + Extrema(m).low[axis])]]]

Becomes(m) ==
  /\ acts < MaxActs /\ acts' = acts + 1
  /\ model' = <<m>> /\ drawn' = << >>
  /\ UNCHANGED <<library, unflushed, written, opened, ended>>

Change(m) ==
  \/ Becomes([m EXCEPT !.facets = FacetNormals(m), !.stale = FALSE])
  \/ Becomes(ReverseWinding(m))
  \/ \E keep \in BOOLEAN : Becomes(VertexNormals(m, keep))
  \/ Becomes(LinearTexture(m))
  \/ m.normals # << >> /\ Becomes(SpheremapTexture(m))
  \/ Becomes(Weld(m))
  \/ Becomes(Unitize(m))

-----------------------------------------------------------------------------
(* Drawing and writing. *)

\* What is left of a mode: not what the model lacks, smooth rather than flat, materials rather
\* than colours.
Masked(m, mode) ==
  LET has == mode \ ( (IF m.facets = << >> THEN {"FLAT"} ELSE {})
                        \cup (IF m.normals = << >> THEN {"SMOOTH"} ELSE {})
                        \cup (IF m.texcoords = 0 THEN {"TEXTURE"} ELSE {})
                        \cup (IF m.materials = << >> THEN {"COLOR", "MATERIAL"} ELSE {}) )
  IN  has \ ( (IF "SMOOTH" \in has THEN {"FLAT"} ELSE {})
                \cup (IF "MATERIAL" \in has THEN {"COLOR"} ELSE {}) )

\* The material, and the texture if it is another, are to be set before the next triangle.
Looking(m, s, material) ==
  LET of == m.materials[material]
  IN  [s EXCEPT !.material = material, !.blending = of.blends, !.newmaterial = TRUE,
                !.blendmodel = @ \/ of.blends,
                !.newtexture = @ \/ of.map # s.map, !.map = of.map]

\* A triangle in the pass of those that blend or of the others.
DrawTriangle(m, mode, blended, s, k) ==
  LET t == m.triangles[k]
      looks == mode \cap {"MATERIAL", "COLOR", "TEXTURE"} # {}
      now == IF looks /\ t.material \notin {0, s.material} THEN Looking(m, s, t.material) ELSE s
      binds == now.newmaterial /\ "TEXTURE" \in mode /\ now.newtexture
      set == [now EXCEPT
                !.newmaterial = FALSE, !.newtexture = @ /\ ~binds,
                !.bound = IF binds THEN now.map ELSE @,
                !.lit = IF now.newmaterial /\ mode \cap {"MATERIAL", "COLOR"} # {}
                        THEN now.material ELSE @]
      corner(j) ==
        [v |-> t.v[j],
         n |-> IF "SMOOTH" \in mode THEN t.n[j] ELSE Absent,
         t |-> IF "TEXTURE" \in mode /\ now.map # Absent THEN t.t[j] ELSE Absent]
  IN  IF now.blending # blended THEN now
      ELSE [set EXCEPT !.calls = Append(@,
              [triangle |-> k, blended |-> blended, material |-> set.lit, texture |-> set.bound,
               flat |-> "FLAT" \in mode, corners |-> [j \in Corners |-> corner(j)]])]

DrawGroup(m, mode, blended, s, group) ==
  LET looks == mode \cap {"MATERIAL", "COLOR", "TEXTURE"} # {} /\ group.material # 0
  IN  FoldLeft(LAMBDA t, k : DrawTriangle(m, mode, blended, t, k),
               IF looks THEN Looking(m, s, group.material) ELSE s, group.triangles)

DrawPass(m, mode, blended, s) ==
  FoldLeft(LAMBDA t, group : DrawGroup(m, mode, blended, t, group),
           [s EXCEPT !.material = Absent, !.map = Absent, !.blending = FALSE,
                     !.newmaterial = FALSE, !.newtexture = FALSE],
           m.groups)

\* glmDraw: a second pass if any material blends.
Calls(m, mode) ==
  LET before == [material |-> Absent, map |-> Absent, blending |-> FALSE, newmaterial |-> FALSE,
                 newtexture |-> FALSE, blendmodel |-> FALSE, bound |-> Absent, lit |-> Absent,
                 calls |-> << >>]
      first == DrawPass(m, mode, FALSE, before)
  IN  IF first.blendmodel THEN DrawPass(m, mode, TRUE, first).calls ELSE first.calls

\* A coordinate that the file does not have is met only here.
IsCoordinate(m, call) ==
  \A j \in Corners : call.corners[j].t \in (1..m.texcoords) \cup {Absent}

Draw(m, mode) ==
  LET calls == Calls(m, Masked(m, mode))
      stops == \E k \in DOMAIN calls : ~IsCoordinate(m, calls[k])
  IN  /\ ended' = IF stops THEN "abort" ELSE "no"
      /\ model' = <<m>>
      /\ drawn' = IF stops THEN << >> ELSE <<[mode |-> Masked(m, mode), calls |-> calls]>>
      /\ UNCHANGED <<library, unflushed, written, opened, acts>>

\* bot_wavefront_model_gl_draw: normals are made if the file has none.
GlDraw(m) ==
  Draw(IF m.normals = << >> THEN VertexNormals(m, FALSE) ELSE m, {"SMOOTH", "MATERIAL", "TEXTURE"})

\* How glmWriteOBJ writes a corner: with all three, the reader takes n for t; flat normals are
\* written where the reader takes them for t.
CornerWritten(m, mode, k, j) ==
  LET t == m.triangles[k]
      corner(tex, normal) == [v |-> t.v[j], t |-> tex, n |-> normal]
  IN  CASE {"SMOOTH", "TEXTURE"} \subseteq mode -> corner(t.n[j], t.t[j])
        [] {"FLAT", "TEXTURE"} \subseteq mode -> corner(k, Absent)
        [] mode \cap {"SMOOTH", "FLAT", "TEXTURE"} = {"TEXTURE"} -> corner(t.t[j], Absent)
        [] mode \cap {"SMOOTH", "FLAT", "TEXTURE"} = {"SMOOTH"} -> corner(Absent, t.n[j])
        [] mode \cap {"SMOOTH", "FLAT", "TEXTURE"} = {"FLAT"} -> corner(Absent, k)
        [] OTHER -> corner(Absent, Absent)

UseMtl(m, material) == [op |-> "usemtl", name |-> m.materials[material].name]
GroupWritten(m, mode, group) ==
  LET Face(s, k) ==
        LET t == m.triangles[k]
            turns == t.material \notin {0, s.material}
            uses == IF turns THEN <<UseMtl(m, t.material)>> ELSE << >>
            face == [op |-> "f", corners |-> [j \in Corners |-> CornerWritten(m, mode, k, j)]]
        IN  [material |-> IF turns THEN t.material ELSE s.material,
             file |-> s.file \o uses \o <<face>>]
      head == <<[op |-> "g", name |-> group.name]>>
                \o (IF "MATERIAL" \in mode THEN <<UseMtl(m, group.material)>> ELSE << >>)
  IN  FoldLeft(Face, [material |-> IF "MATERIAL" \in mode THEN group.material ELSE Absent,
                      file |-> head], group.triangles).file

\* One direction stands for a normal.  As many facet normals are written as there are others,
\* though they be fewer.
NormalsWritten(m, mode) ==
  CASE "SMOOTH" \in mode -> [k \in DOMAIN m.normals |-> CHOOSE v \in m.normals[k] : TRUE]
    [] "FLAT" \in mode ->
         [k \in DOMAIN m.normals |-> IF k \in DOMAIN m.facets THEN m.facets[k] ELSE <<0, 0, 0>>]
    [] OTHER -> << >>

FileWritten(m, mode) ==
  (IF "MATERIAL" \in mode THEN <<[op |-> "mtllib"]>> ELSE << >>)
    \o [k \in DOMAIN m.positions |->
          [op |-> "v", at |-> m.positions[k], unit |-> m.unit]]
    \o [k \in DOMAIN NormalsWritten(m, mode) |-> [op |-> "vn", to |-> NormalsWritten(m, mode)[k]]]
    \o (IF "TEXTURE" \in mode THEN [k \in 1..m.texcoords |-> [op |-> "vt"]] ELSE << >>)
    \o FlattenSeq([k \in DOMAIN m.groups |-> GroupWritten(m, mode, m.groups[k])])

\* glmWriteOBJ
Write(m, mode) ==
  /\ written' = <<[file |-> FileWritten(m, Masked(m, mode)), mode |-> Masked(m, mode), of |-> m]>>
  /\ unflushed' =
       IF "MATERIAL" \in Masked(m, mode) THEN <<WriteMTL(m.materials)>> ELSE unflushed
  /\ library' = IF "MATERIAL" \in Masked(m, mode) THEN << >> ELSE library
  /\ drawn' = << >>
  /\ UNCHANGED <<model, opened, ended, acts>>

Use(m) ==
  \/ \E mode \in Modes : Draw(m, mode) \/ Write(m, mode)
  \/ GlDraw(m)

\* Bound: once a file was written, it is read again and nothing else is done.
InUse == ended = "no" /\ model # << >> /\ written = << >>

Next ==
  \/ Create \/ Destroy \/ Exit
  \/ InUse /\ Change(model[1])
  \/ InUse /\ Use(model[1])

Spec == Init /\ [][Next]_vars

-----------------------------------------------------------------------------
(* Properties. *)

\* Files in which a face comes before the first of several groups.
FaceBeforeGroup(file) ==
  \E k \in DOMAIN file : file[k].op = "f" /\ \A i \in 1 .. k - 1 : file[i].op # "g"
CoordinatesGiven(file) ==
  \A k \in DOMAIN file : file[k].op = "f" =>
    \A j \in DOMAIN file[k].corners : file[k].corners[j].t \in (1..Count(file, "vt")) \cup {Absent}

\* The second pass stores in each group what the first counted, each triangle in one group, and
\* what is done to a model leaves the numbers of its corners good (glmFirstPass, glmSecondPass,
\* glmWeld, glmVertexNormals), if no face comes before the groups.
IsWhole ==
  /\ ended = "overrun" => FaceBeforeGroup(opened[1].file)
  /\ \A m \in Range(model) :
       /\ \A g \in DOMAIN m.groups : Len(m.groups[g].triangles) = m.groups[g].count
       /\ \A k \in DOMAIN m.triangles :
            /\ Cardinality({ g \in DOMAIN m.groups : k \in Range(m.groups[g].triangles) }) = 1
            /\ \A j \in Corners :
                 /\ m.triangles[k].v[j] \in DOMAIN m.positions
                 /\ m.triangles[k].n[j] \in DOMAIN m.normals \cup {Absent}
                 /\ CoordinatesGiven(opened[1].file) =>
                      m.triangles[k].t[j] \in (1..m.texcoords) \cup {Absent}

\* Facet normals are those of the triangles, whichever way they were turned or scaled, and the
\* normals that were made for corners are means of facets that share the vertex, its own among
\* them, or its own alone (glmReverseWinding, glmVertexNormals).
FacesOut ==
  \A m \in Range(model) :
    /\ ~m.stale => m.facets = FacetNormals(m)
    /\ m.smoothed => \A k \in DOMAIN m.triangles, j \in Corners :
         LET of == m.normals[m.triangles[k].n[j]]
         IN  /\ m.facets[k] \in of
             /\ of = {m.facets[k]} \/ \E u \in of : \A w \in of :
                  Dot(u, w) > 0 /\ \E q \in Range(Members(m, m.triangles[k].v[j])) : m.facets[q] = w

\* Normals are made for the corners that have none, and the others keep theirs (glmVertexNormals).
KeepsNormals ==
  \A m \in Range(model) :
    LET kept == VertexNormals(m, TRUE)
    IN  \A k \in DOMAIN m.triangles, j \in Corners :
          LET of == kept.normals[kept.triangles[k].n[j]]
          IN  IF m.triangles[k].n[j] = Absent THEN m.facets[k] \in of
              ELSE of = m.normals[m.triangles[k].n[j]]

\* Welding moves no corner but those of the first position, and leaves no two positions alike
\* (glmWeldVectors); a model is put in the unit cube, about its center (glmUnitize).
StaysInPlace ==
  \A m \in Range(model) :
    LET welded == Weld(m)
        small == Unitize(m)
    IN  /\ \A k \in DOMAIN m.triangles, j \in Corners :
             m.positions[m.triangles[k].v[j]] \in
               {m.positions[1], welded.positions[welded.triangles[k].v[j]]}
        /\ IsInjective(welded.positions)
        /\ \A axis \in Corners :
             /\ Extrema(small).low[axis] = -Extrema(small).high[axis]
             /\ Extrema(small).high[axis] <= small.unit

\* Each triangle is drawn once, with its material and the texture that its coordinates are of,
\* those that blend after the others (glmDraw).
DrawnOnce ==
  \A m \in Range(model), d \in Range(drawn) :
    LET material(k) == m.materials[m.triangles[k].material]
        looks == d.mode \cap {"MATERIAL", "COLOR", "TEXTURE"} # {}
    IN  /\ Len(d.calls) = Len(m.triangles)
        /\ { c.triangle : c \in Range(d.calls) } = DOMAIN m.triangles
        /\ \A a, b \in DOMAIN d.calls : d.calls[a].blended /\ a < b => d.calls[b].blended
        /\ \A c \in Range(d.calls) :
             m.triangles[c.triangle].material # 0 /\ looks =>
               /\ c.blended = material(c.triangle).blends
               /\ d.mode \cap {"MATERIAL", "COLOR"} # {} =>
                    c.material = m.triangles[c.triangle].material
               /\ \A j \in Corners : c.corners[j].t # Absent =>
                    c.texture = material(c.triangle).map

\* Modes in which a file says what its reader takes it to say.
IsReadable(w) ==
  /\ ~({"SMOOTH", "TEXTURE"} \subseteq w.mode)
  /\ "FLAT" \in w.mode => "TEXTURE" \notin w.mode /\ Len(w.of.normals) >= Len(w.of.facets)

\* The triangles of a group with what a mode tells of them.
Told(m, mode, name) ==
  LET numbers == m.groups[Group(m.groups, name)].triangles
      t(k) == m.triangles[numbers[k]]
  IN  [k \in DOMAIN numbers |->
         [v |-> t(k).v, n |-> IF "SMOOTH" \in mode THEN t(k).n ELSE << >>,
          t |-> IF "TEXTURE" \in mode THEN t(k).t ELSE << >>]]
MaterialsOf(m, name) ==
  LET numbers == m.groups[Group(m.groups, name)].triangles
  IN  [k \in DOMAIN numbers |-> m.materials[m.triangles[numbers[k]].material].name]

\* A model that is written and read again has the same triangles in its groups, with the materials
\* that it had once the library is on the disk (glmWriteOBJ, glmWriteMTL).
WrittenIsReadBack ==
  \A w \in Range(written), o \in Range(opened) :
    o.file = w.file /\ IsReadable(w) =>
      /\ o.result.ended = "no"
      /\ LET m == o.result.model[1]
             names == { g.name : g \in Range(w.of.groups) }
         IN  /\ m.positions = w.of.positions /\ m.unit = w.of.unit
             /\ { g.name : g \in Range(m.groups) } = names
             /\ \A name \in names :
                  /\ Told(m, w.mode, name) = Told(w.of, w.mode, name)
                  /\ "MATERIAL" \in w.mode /\ o.library = WriteMTL(w.of.materials) =>
                       \A k \in DOMAIN MaterialsOf(m, name) :
                         MaterialsOf(w.of, name)[k] \in {"default", MaterialsOf(m, name)[k]}
=============================================================================
