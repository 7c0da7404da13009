--------------------------- MODULE MCDxilContainer ---------------------------
(* Small instance of DxilContainer for TLC: shaders alone and pipelines of   *)
(* two to four stages that share some of their variables, every version of   *)
(* the validator at which the layout changes, and memory that runs out.      *)
EXTENDS DxilContainer

V(loc, frac, comps) ==
    [loc |-> loc, frac |-> frac, slots |-> 1, comps |-> comps,
     compact |-> FALSE, patch |-> FALSE, stream |-> 0, index |-> 0,
     feeds |-> {}, dl |-> 0]

User(n, frac, comps) == V(VARYING_SLOT_VAR0 + n, frac, comps)
DVec3(v) == [v EXCEPT !.slots = 2, !.comps = 6]
Distances(frac, n) ==
    [V(VARYING_SLOT_CLIP_DIST0, frac, n) EXCEPT !.slots = n, !.compact = TRUE]
Patch(n) == [V(VARYING_SLOT_PATCH0 + n, 0, 4) EXCEPT !.patch = TRUE]
Level(loc) == TessLevelVar(loc, IF loc = VARYING_SLOT_TESS_LEVEL_OUTER
                                THEN 4 ELSE 2)
Feeding(v, locs) == [v EXCEPT !.feeds = locs]
OnStream(v, n) == [v EXCEPT !.stream = n]

Pos == V(VARYING_SLOT_POS, 0, 4)
Layer == V(VARYING_SLOT_LAYER, 0, 1)
Outer == Level(VARYING_SLOT_TESS_LEVEL_OUTER)
Inner == Level(VARYING_SLOT_TESS_LEVEL_INNER)

Stage(kind, in, out) ==
    [kind |-> kind, in |-> in, out |-> out, sys |-> <<>>, inputs_read |-> {},
     outputs_written |-> {}, outputs_read |-> {}, clip_size |-> 0,
     tess |-> "triangles", view_id |-> FALSE, system_values_read |-> {}]

Attribute(n) == V(n, 0, 4)
Target(n, frac, comps) == V(FRAG_RESULT_DATA0 + n, frac, comps)

(* A vertex and a pixel shader: each declares some of the variables          *)
VsOuts == {User(0, 0, 2), User(0, 2, 1), DVec3(User(1, 0, 6)), Layer}
FsIns == {User(0, 0, 2), User(0, 2, 1), User(2, 0, 4),
          V(VARYING_SLOT_PRIMITIVE_ID, 0, 1)}

VertexPixel ==
    {<<Stage("vertex", <<Attribute(1)>>, SetToSeq(S) \o <<User(2, 0, 4), Pos>>),
       Stage("pixel", SetToSeq(T), <<Target(0, 0, 4)>>)>> :
     S \in SUBSET VsOuts, T \in SUBSET FsIns}

(* Shaders alone, as spirv_to_dxil converts them                             *)
Alone ==
    {<<[Stage("vertex", <<Attribute(0), Attribute(3)>>,
              <<Distances(0, 2), Distances(2, 2), Pos, User(3, 0, 1)>>)
          EXCEPT !.clip_size = 2,
                 !.system_values_read = {"vertex_id", "instance_id"},
                 !.view_id = TRUE]>>,
     <<[Stage("pixel", <<V(VARYING_SLOT_FACE, 0, 1), User(0, 0, 3), User(1, 1, 2)>>,
              <<V(FRAG_RESULT_DEPTH, 0, 1), V(FRAG_RESULT_STENCIL, 0, 1),
                V(FRAG_RESULT_SAMPLE_MASK, 0, 1), Target(1, 2, 2),
                Target(1, 0, 2), Target(0, 0, 4)>>)
          EXCEPT !.system_values_read = {"front_face", "sample_index"}]>>,
     <<[Stage("geometry", <<Pos, DVec3(User(0, 0, 6))>>,
              <<OnStream(User(0, 0, 2), 1), OnStream(User(0, 2, 2), 1),
                User(0, 0, 2), User(1, 2, 2), Pos, OnStream(User(2, 0, 4), 2)>>)
          EXCEPT !.system_values_read = {"primitive_id"}, !.view_id = TRUE]>>,
     <<Stage("vertex", <<>>, <<Pos>>)>>}

(* A geometry shader in between: what the pixel shader does not read makes   *)
(* an input of the geometry shader superfluous.                              *)
WithGeometry ==
    {<<Stage("vertex", <<Attribute(1)>>, <<Pos, User(0, 0, 4), User(1, 0, 4)>>),
       Stage("geometry", <<Pos, Feeding(User(0, 0, 4), {VARYING_SLOT_VAR0 + 4}),
                           User(1, 0, 4)>>,
             <<User(4, 0, 4), User(5, 0, 4), Pos>>),
       Stage("pixel", in, <<Target(0, 0, 4)>>)>> :
     in \in {<<User(4, 0, 4)>>, <<User(5, 0, 4)>>}}

(* Tessellation: a hull shader that reads some of its outputs back, in each  *)
(* domain                                                                    *)
Tessellation(DomainIns, Reread) ==
    {<<[Stage("hull", <<Pos, User(0, 0, 4)>>,
              <<Outer, Inner, Patch(0), Patch(1), User(0, 0, 4), User(1, 0, 4),
                Pos>>) EXCEPT !.outputs_read = R],
       [Stage("domain", SetToSeq(S) \o <<User(1, 0, 4), Pos>>, <<Pos, Layer>>)
          EXCEPT !.tess = tess, !.view_id = tess = "quads"]>> :
     S \in SUBSET DomainIns, R \in SUBSET Reread,
     tess \in {"triangles", "quads", "isolines"}}

FourStages ==
    {<<Stage("vertex", <<Attribute(1)>>, <<Pos, User(0, 0, 4), Distances(0, 1)>>)>>
     \o p \o <<Stage("pixel", <<User(7, 0, 4), Layer>>, <<Target(0, 0, 4)>>)>> :
     p \in Tessellation({Outer}, {})}

MCPipelines == VertexPixel \union Alone \union WithGeometry \union FourStages
               \union Tessellation({Patch(1), Outer, Inner},
                                   {VARYING_SLOT_VAR0, VARYING_SLOT_PATCH0})

(* A hull shader that uses an output it does not pass on as scratch memory   *)
MCScratch == Tessellation({}, {VARYING_SLOT_VAR0})

MCEntry == [text |-> "main", sv |-> FALSE, len |-> 4]

MCLimits == {100, 500, 4096}
=============================================================================
